--------------------------- MODULE SysvMsgProofs ---------------------------
(***************************************************************************)
(* What holds of sysv_msg_server.c and sysv_msg_client.c for any number of *)
(* clients, any files, any queue size and any faults.                      *)
(***************************************************************************)
EXTENDS SysvMsg, SequenceTheorems, TLAPS

\* Neither a child nor a client makes the server's queue vanish, starts the
\* server, or answers SIGCHLD; a child that turns into a zombie raises it.
LEMMA OthersStep ==
  ASSUME NEW c \in Client, Child(c) \/ HKill(c) \/ ClientStep(c) \/ CKill(c)
  PROVE  /\ spc' = spc /\ skey' = skey /\ reaping' = reaping /\ removed' = removed
         /\ \/ child' = child /\ chld' = chld
            \/ \E next : /\ child' = [child EXCEPT ![c] = next]
                         /\ child[c] # "none"
                         /\ chld' = TRUE \/ (chld' = chld /\ next # "zombie")
<1> USE DEF HGoto, Clean, Msgctl, sVars, hVars, cVars, hist
<1>1. CASE HOpen(c) \/ HBlock(c) \/ HNoMore(c) \/ HEnd(c)
  BY <1>1 DEF HOpen, HBlock, HNoMore, HEnd
<1>2. CASE HExit(c) \/ HKill(c)
  BY <1>2 DEF HExit, HKill
<1>3. CASE ClientStep(c) \/ CKill(c)
  BY <1>3 DEF ClientStep, CGet, CCreate, CSend, CFirst, CTrunc, CStore, CMore, CExit, CKill
<1>4. QED
  BY <1>1, <1>2, <1>3 DEF Child

\* The queue is there as long as the server waits for requests.  The children
\* run clean() as well: they do no harm only because clean() does nothing.
THEOREM QueueStays == Spec => []QueueServes
<1>1. Init => QueueServes
  BY DEF Init, QueueServes, Serving
<1>2. QueueServes /\ [Next]_vars => QueueServes'
  <2> SUFFICES ASSUME QueueServes, [Next]_vars PROVE QueueServes'
    OBVIOUS
  <2> USE DEF QueueServes, Serving, hist
  <2>1. CASE Server
    BY <2>1 DEF Server, SMsgget, SRecv, SRecvFails, SFork, SHandler, SWaitpid, Clean, Msgctl
  <2>2. CASE SSignal \/ SKill \/ Ipcrm
    BY <2>2 DEF SSignal, SKill, Ipcrm, Clean, Msgctl
  <2>3. CASE \E c \in Client : Child(c) \/ HKill(c) \/ ClientStep(c) \/ CKill(c)
    BY <2>3, OthersStep
  <2>4. CASE UNCHANGED vars
    BY <2>4 DEF vars, sVars
  <2>5. QED
    BY <2>1, <2>2, <2>3, <2>4 DEF Next
<1>3. QED
  BY <1>1, <1>2, PTL DEF Spec

\* As long as the server runs, a zombie means that SIGCHLD is pending or that
\* grimReaper() has yet to make its last call of waitpid().
ZInv == /\ DOMAIN child = Client
        /\ spc = "msgget" => \A c \in Client : child[c] = "none"
        /\ NoZombieForgotten

THEOREM ZombiesReaped == Spec => []NoZombieForgotten
<1>1. Init => ZInv
  BY DEF Init, ZInv, NoZombieForgotten, Serving
<1>2. ZInv /\ [Next]_vars => ZInv'
  <2> SUFFICES ASSUME ZInv, [Next]_vars PROVE ZInv'
    OBVIOUS
  <2> USE DEF ZInv, NoZombieForgotten, Serving
  <2>1. CASE SMsgget \/ SRecv \/ SRecvFails \/ SSignal \/ SKill \/ Ipcrm
    BY <2>1 DEF SMsgget, SRecv, SRecvFails, SSignal, SKill, Ipcrm, sVars, hVars
  <2>2. CASE SFork
    BY <2>2 DEF SFork
  <2>3. CASE SHandler \/ SWaitpid
    BY <2>3 DEF SHandler, SWaitpid, hVars
  <2>4. CASE \E c \in Client : Child(c) \/ HKill(c) \/ ClientStep(c) \/ CKill(c)
    BY <2>4, OthersStep
  <2>5. CASE UNCHANGED vars
    BY <2>5 DEF vars, sVars, hVars
  <2>6. QED
    BY <2>1, <2>2, <2>3, <2>4, <2>5 DEF Next, Server
<1>3. ZInv => NoZombieForgotten
  BY DEF ZInv
<1>4. QED
  BY <1>1, <1>2, <1>3, PTL DEF Spec

-----------------------------------------------------------------------------
LEMMA TypeInit == Init => TypeOK
<1> SUFFICES ASSUME Init PROVE TypeOK
  OBVIOUS
<1>1. skey \in BOOLEAN
  BY Zenon DEF Init
<1>2. resp \in [Client -> Message] /\ cq \in [Client -> Seq(Message)]
  BY DEF Init, Message
<1>3. /\ child \in [Client -> {"none", "open", "send", "end", "exit", "zombie", "reaped"}]
      /\ sent \in [Client -> Nat] /\ off \in [Client -> Nat]
      /\ cpc \in [Client -> {"get", "create", "send", "first", "trunc", "close", "exit"}
                            \cup Storing \cup Finished]
  BY DEF Init
<1>4. sq \in Seq(Client) /\ disk \in Seq(Block \cup {Hole})
  BY DEF Init
<1>5. chld \in BOOLEAN /\ reaping \in BOOLEAN /\ removed \in BOOLEAN
  BY DEF Init
<1>6. QED
  BY <1>1, <1>2, <1>3, <1>4, <1>5 DEF Init, TypeOK

\* write() leaves a file of blocks and holes.
LEMMA WriteAtType ==
  ASSUME disk \in Seq(Block \cup {Hole}), NEW i \in Nat, NEW b \in Block
  PROVE  /\ WriteAt(i, b) \in Seq(Block \cup {Hole})
         /\ i = Len(disk) => /\ Len(WriteAt(i, b)) = i + 1
                             /\ \A k \in 1..(i + 1) : WriteAt(i, b)[k] = IF k = i + 1 THEN b ELSE disk[k]
<1> DEFINE n == IF i < Len(disk) THEN Len(disk) ELSE i + 1
           f == [k \in 1..n |-> IF k = i + 1 THEN b ELSE IF k <= Len(disk) THEN disk[k] ELSE Hole]
<1>1. n \in Nat /\ Len(disk) \in Nat
  OBVIOUS
<1>2. \A k \in 1..n : f[k] \in Block \cup {Hole}
  <2> SUFFICES ASSUME NEW k \in 1..n PROVE f[k] \in Block \cup {Hole}
    OBVIOUS
  <2>1. k \in Nat /\ 1 <= k
    BY <1>1
  <2>2. k <= Len(disk) => disk[k] \in Block \cup {Hole}
    BY <1>1, <2>1
  <2>3. QED
    BY <2>2
<1>3. WriteAt(i, b) = f
  BY DEF WriteAt
<1> HIDE DEF n
<1>4. f \in Seq(Block \cup {Hole}) /\ Len(f) = n
  BY <1>1, <1>2
<1>5. i = Len(disk) => n = i + 1
  BY <1>1 DEF n
<1>6. \A k \in 1..(i + 1) : i = Len(disk) /\ k # i + 1 => k <= Len(disk)
  BY <1>1
<1>7. QED
  BY <1>3, <1>4, <1>5, <1>6

LEMMA TypeStep == TypeOK /\ [Next]_vars => TypeOK'
<1> SUFFICES ASSUME TypeOK, [Next]_vars PROVE TypeOK'
  OBVIOUS
<1> USE MsgAssumption DEF MsgAssumption, TypeOK, Message, Serving, Storing, Finished,
        sVars, hVars, cVars, hist
<1>1. CASE SMsgget
  BY <1>1 DEF SMsgget
<1>2. CASE SRecv
  <2>1. /\ UNCHANGED <<chld, reaping, skey, hVars, cVars, queued, cq, disk, hist>>
        /\ sq # <<>> /\ req' = {Head(sq)} /\ sq' = Tail(sq) /\ spc' = "fork"
    BY <1>2, Zenon DEF SRecv
  <2>2. Head(sq) \in Client /\ Tail(sq) \in Seq(Client)
    BY <2>1
  <2>3. chld' \in BOOLEAN /\ reaping' \in BOOLEAN /\ skey' \in BOOLEAN /\ removed' \in BOOLEAN
    BY <2>1
  <2>4. UNCHANGED <<child, sent, cpc, resp, off, queued, cq, disk, alone, orphans>>
    BY <2>1
  <2>5. QED
    BY <2>1, <2>2, <2>3, <2>4
<1>3. CASE SRecvFails
  BY <1>3 DEF SRecvFails, Clean, Msgctl
<1>4. CASE SFork
  BY <1>4 DEF SFork, Clean, Msgctl
<1>5. CASE SHandler
  BY <1>5 DEF SHandler
<1>6. CASE SWaitpid
  BY <1>6 DEF SWaitpid
<1>7. CASE SSignal \/ SKill
  BY <1>7 DEF SSignal, SKill, Clean, Msgctl
<1>8. CASE Ipcrm
  <2>1. /\ UNCHANGED <<sVars, hVars, cVars, queued, cq, disk, alone, orphans>>
        /\ skey' = FALSE /\ sq' = <<>> /\ removed' = TRUE
    BY <1>8, Zenon DEF Ipcrm
  <2>2. skey' \in BOOLEAN /\ removed' \in BOOLEAN
    BY <2>1, Zenon
  <2>3. sq' \in Seq(Client)
    BY <2>1
  <2>4. chld' \in BOOLEAN /\ reaping' \in BOOLEAN
    BY <2>1
  <2>5. UNCHANGED <<spc, req, child, sent, cpc, resp, off, queued, cq, disk, alone, orphans>>
    BY <2>1
  <2>6. QED
    BY <2>2, <2>3, <2>4, <2>5
<1>9. ASSUME NEW c \in Client, Child(c) \/ HKill(c) PROVE TypeOK'
  <2>1. ASSUME NEW m \in Message, HSend(c, m) PROVE cq' \in [Client -> Seq(Message)]
    <3>1. Append(cq[c], m) \in Seq(Message)
      <4> HIDE DEF Message
      <4>1. cq[c] \in Seq(Message)
        BY DEF Message
      <4>2. QED
        BY <2>1, <4>1
    <3>2. cq' = cq \/ cq' = [cq EXCEPT ![c] = Append(cq[c], m)]
      BY <2>1 DEF HSend
    <3>3. QED
      BY <3>1, <3>2
  <2>2. CASE HOpen(c)
    <3>1. cq' \in [Client -> Seq(Message)]
      BY <2>1, <2>2 DEF HOpen
    <3>2. QED
      BY <2>2, <3>1 DEF HOpen, HGoto
  <2>3. CASE HBlock(c)
    <3>1. File[c] \in Seq(Block) /\ sent[c] \in Nat /\ sent[c] < Len(File[c])
      BY <2>3 DEF HBlock
    <3>2. File[c][sent[c] + 1] \in Message
      BY <3>1
    <3>3. cq' \in [Client -> Seq(Message)]
      BY <2>1, <2>3, <3>2 DEF HBlock
    <3>4. sent' \in [Client -> Nat]
      BY <2>3 DEF HBlock
    <3>5. QED
      BY <2>3, <3>3, <3>4 DEF HBlock, HGoto
  <2>4. CASE HNoMore(c)
    BY <2>4 DEF HNoMore, HGoto
  <2>5. CASE HEnd(c)
    <3>1. cq' \in [Client -> Seq(Message)]
      BY <2>1, <2>5 DEF HEnd
    <3>2. QED
      BY <2>5, <3>1 DEF HEnd, HGoto
  <2>6. CASE HExit(c)
    BY <2>6 DEF HExit, HGoto, Clean, Msgctl
  <2>7. CASE HKill(c)
    BY <2>7 DEF HKill
  <2>8. QED
    BY <1>9, <2>2, <2>3, <2>4, <2>5, <2>6, <2>7 DEF Child
<1>10. ASSUME NEW c \in Client, ClientStep(c) \/ CKill(c) PROVE TypeOK'
  <2>1. ASSUME CReceive(c)
        PROVE  resp' \in [Client -> Message] /\ cq' \in [Client -> Seq(Message)]
    <3>1. cq[c] \in Seq(Message) /\ cq[c] # <<>>
      BY <2>1 DEF CReceive
    <3>2. Head(cq[c]) \in Message /\ Tail(cq[c]) \in Seq(Message)
      BY <3>1, HeadTailProperties
    <3>3. resp' = [resp EXCEPT ![c] = Head(cq[c])] /\ cq' = [cq EXCEPT ![c] = Tail(cq[c])]
      BY <2>1 DEF CReceive
    <3>4. QED
      BY <3>2, <3>3
  <2>2. CASE CGet(c)
    BY <2>2 DEF CGet, CGoto
  <2>3. CASE CCreate(c)
    BY <2>3 DEF CCreate, CGoto
  <2>4. CASE CSend(c)
    BY <2>4 DEF CSend, CGoto
  <2>5. CASE CFirst(c)
    BY <2>1, <2>5 DEF CFirst, CGoto
  <2>6. CASE CTrunc(c)
    BY <2>6 DEF CTrunc, CGoto
  <2>7. CASE CStore(c)
    <3>1. CASE IsData(resp[c])
      <4>1. resp[c] \in Block
        BY <3>1 DEF IsData
      <4>2. disk' \in Seq(Block \cup {Hole})
        <5>1. WriteAt(off[c], resp[c]) \in Seq(Block \cup {Hole})
          BY <4>1, WriteAtType
        <5>2. disk' = WriteAt(off[c], resp[c])
          BY <2>7, <3>1 DEF CStore
        <5>3. QED
          BY <5>1, <5>2
      <4>3. off' \in [Client -> Nat]
        <5>1. off' = [off EXCEPT ![c] = off[c] + 1] /\ off[c] + 1 \in Nat
          BY <2>7, <3>1 DEF CStore
        <5>2. QED
          BY <5>1
      <4>4. cpc' \in [Client -> {"get", "create", "send", "first", "trunc", "close", "exit"}
                                \cup Storing \cup Finished]
        BY <2>7 DEF CStore, CGoto
      <4>5. QED
        BY <2>7, <4>2, <4>3, <4>4 DEF CStore
    <3>2. CASE ~IsData(resp[c])
      BY <2>7, <3>2 DEF CStore, CGoto
    <3>3. QED
      BY <3>1, <3>2
  <2>8. CASE CMore(c)
    BY <2>1, <2>8 DEF CMore, CGoto
  <2>9. CASE CExit(c)
    BY <2>9 DEF CExit
  <2>10. CASE CKill(c)
    BY <2>10 DEF CKill
  <2>11. QED
    BY <1>10, <2>2, <2>3, <2>4, <2>5, <2>6, <2>7, <2>8, <2>9, <2>10 DEF ClientStep
<1>11. CASE UNCHANGED vars
  BY <1>11 DEF vars
<1>12. QED
  BY <1>1, <1>2, <1>3, <1>4, <1>5, <1>6, <1>7, <1>8, <1>9, <1>10, <1>11 DEF Next, Server

\* Every variable keeps its type: in particular the output file holds blocks and
\* holes, and the queues hold messages, whatever fails.
THEOREM TypeCorrect == Spec => []TypeOK
  BY TypeInit, TypeStep, PTL DEF Spec

-----------------------------------------------------------------------------
(***************************************************************************)
(* The way of a file: from the child that reads it, through the queue of   *)
(* the client, into the output file.                                       *)
(***************************************************************************)
Early == {"get", "create", "send"}
Active == {"first", "trunc", "store", "more", "close"}
Through == {"exit", "zombie", "reaped"}

\* A request is in the server's queue once, and no child serves it yet.
Requests ==
  /\ \A i, j \in 1..Len(sq) : sq[i] = sq[j] => i = j
  /\ \A i \in 1..Len(sq) : /\ child[sq[i]] = "none" /\ cpc[sq[i]] \notin Early
                           /\ spc = "fork" => sq[i] \notin req
  /\ \A c \in Client : (spc = "fork" /\ c \in req) => child[c] = "none" /\ cpc[c] \notin Early
  /\ \A c \in Client : cpc[c] \in Early => child[c] = "none"

LEMMA CalmRequests ==
  ASSUME TypeOK, Requests, sq' = sq \/ sq' = <<>>,
         spc' = "fork" => spc = "fork" /\ req' = req,
         \A c \in Client : /\ child[c] = "none" => child'[c] = "none"
                           /\ cpc'[c] \in Early => cpc[c] \in Early
  PROVE  Requests'
<1>1. \A i \in 1..Len(sq') : i \in 1..Len(sq) /\ sq'[i] = sq[i] /\ sq[i] \in Client
  BY DEF TypeOK
<1>2. QED
  BY <1>1 DEF Requests

LEMMA RequestsStep == TypeOK /\ Requests /\ [Next]_vars => Requests'
<1> SUFFICES ASSUME TypeOK, Requests, [Next]_vars PROVE Requests'
  OBVIOUS
<1>t. /\ cpc \in [Client -> {"get", "create", "send", "first", "trunc", "close", "exit"}
                         \cup Storing \cup Finished]
      /\ child \in [Client -> {"none", "open", "send", "end", "exit", "zombie", "reaped"}]
      /\ sq \in Seq(Client)
  BY DEF TypeOK
<1>1. CASE SRecv
  <2>1. /\ sq # <<>> /\ spc' = "fork" /\ req' = {sq[1]} /\ sq' = Tail(sq) /\ UNCHANGED <<child, cpc>>
    BY <1>1, <1>t DEF SRecv, hVars, cVars
  <2>2. /\ 1 \in 1..Len(sq) /\ Len(sq) \in Nat /\ Len(sq') = Len(sq) - 1
        /\ \A i \in 1..Len(sq') : sq'[i] = sq[i + 1]
    BY <1>t, <2>1, HeadTailProperties
  <2>3. \A i \in 1..Len(sq') : i + 1 \in 1..Len(sq) /\ i + 1 # 1
    BY <2>2
  <2>4. \A i, j \in 1..Len(sq') : sq'[i] = sq'[j] => i = j
    <3> SUFFICES ASSUME NEW i \in 1..Len(sq'), NEW j \in 1..Len(sq'), sq[i + 1] = sq[j + 1]
                 PROVE  i = j
      BY <2>2
    <3>1. i + 1 = j + 1
      BY <2>3 DEF Requests
    <3>2. QED
      BY <2>2, <3>1
  <2>5. \A i \in 1..Len(sq') : /\ child[sq'[i]] = "none" /\ cpc[sq'[i]] \notin Early
                               /\ sq'[i] # sq[1]
    BY <2>2, <2>3 DEF Requests
  <2>6. child[sq[1]] = "none" /\ cpc[sq[1]] \notin Early
    BY <2>2 DEF Requests
  <2>7. QED
    BY <2>1, <2>4, <2>5, <2>6 DEF Requests
<1>2. CASE SFork /\ spc' = "recv"
  <2>1. /\ child' = [c \in Client |-> IF c \in req THEN "open" ELSE child[c]]
        /\ spc = "fork" /\ UNCHANGED <<sq, cpc>>
    BY <1>2 DEF SFork, cVars
  <2>2. \A i \in 1..Len(sq) : sq[i] \in Client
    BY <1>t
  <2>3. QED
    BY <1>2, <2>1, <2>2 DEF Requests
<1>3. ASSUME NEW c \in Client, CSend(c), skey PROVE Requests'
  <2>1. /\ cpc[c] = "send" /\ cpc' = [cpc EXCEPT ![c] = "first"] /\ sq' = Append(sq, c)
        /\ UNCHANGED <<spc, req, child>>
    BY <1>3 DEF CSend, CGoto, sVars, hVars
  <2>2. /\ Len(sq) \in Nat /\ Len(sq') = Len(sq) + 1 /\ sq'[Len(sq) + 1] = c
        /\ \A i \in 1..Len(sq) : sq'[i] = sq[i] /\ sq[i] \in Client
    BY <1>t, <2>1
  <2>3. \A i \in 1..Len(sq') : i \in 1..Len(sq) \/ i = Len(sq) + 1
    BY <2>2
  <2>4. cpc'[c] = "first" /\ \A d \in Client : d # c => cpc'[d] = cpc[d]
    BY <1>t, <2>1
  <2>5. /\ child[c] = "none" /\ ~(spc = "fork" /\ c \in req)
        /\ \A i \in 1..Len(sq) : sq[i] # c
    BY <2>1 DEF Requests, Early
  <2>6. \A i, j \in 1..Len(sq') : sq'[i] = sq'[j] => i = j
    BY <2>2, <2>3, <2>5 DEF Requests
  <2>7. \A i \in 1..Len(sq') : /\ child[sq'[i]] = "none" /\ cpc'[sq'[i]] \notin Early
                               /\ spc = "fork" => sq'[i] \notin req
    BY <2>2, <2>3, <2>4, <2>5 DEF Requests, Early
  <2>8. QED
    BY <2>1, <2>4, <2>6, <2>7 DEF Requests, Early
<1>4. ASSUME NEW c \in Client, CSend(c), ~skey PROVE Requests'
  <2>1. /\ cpc' = [cpc EXCEPT ![c] = "exit"] /\ sq' = sq /\ UNCHANGED <<spc, req, child>>
    BY <1>4 DEF CSend, CGoto, sVars, hVars
  <2>2. QED
    BY <1>t, <2>1, CalmRequests DEF Early
<1>5. CASE SMsgget \/ SRecvFails \/ SHandler \/ SSignal \/ SKill \/ Ipcrm \/ UNCHANGED vars
           \/ (SFork /\ spc' # "recv")
  <2>1. /\ UNCHANGED <<child, cpc>> /\ (sq' = sq \/ sq' = <<>>)
        /\ (spc' = "fork" => UNCHANGED <<spc, req>>)
    BY <1>5 DEF SMsgget, SRecvFails, SHandler, SSignal, SKill, Ipcrm, SFork, vars, sVars, hVars, cVars
  <2>2. QED
    BY <2>1, CalmRequests
<1>6. CASE SWaitpid
  <2>1. /\ UNCHANGED <<cpc, sq, spc, req>>
        /\ \A c \in Client : child[c] = "none" => child'[c] = "none"
    BY <1>6, <1>t DEF SWaitpid, cVars
  <2>2. QED
    BY <2>1, CalmRequests
<1>7. ASSUME NEW c \in Client, Child(c) \/ HKill(c) PROVE Requests'
  <2>1. /\ UNCHANGED <<cpc, sq, spc, req>> /\ child[c] # "none"
        /\ \A d \in Client : d # c => child'[d] = child[d]
    BY <1>7, <1>t DEF Child, HOpen, HBlock, HNoMore, HEnd, HExit, HKill, HGoto, sVars, cVars
  <2>2. QED
    BY <2>1, CalmRequests
<1>8. ASSUME NEW c \in Client,
             CGet(c) \/ CCreate(c) \/ CFirst(c) \/ CTrunc(c) \/ CStore(c) \/ CMore(c) \/ CExit(c) \/ CKill(c)
      PROVE  Requests'
  <2>1. /\ UNCHANGED <<child, sq, spc, req>>
        /\ cpc'[c] \in Early => cpc[c] \in Early
        /\ \A d \in Client : d # c => cpc'[d] = cpc[d]
    BY <1>8, <1>t DEF CGet, CCreate, CFirst, CTrunc, CStore, CMore, CExit, CKill, CGoto, Early, sVars, hVars
  <2>2. QED
    BY <2>1, CalmRequests
<1>9. QED
  BY <1>1, <1>2, <1>3, <1>4, <1>5, <1>6, <1>7, <1>8 DEF Next, Server, ClientStep

\* How many messages client c has received.
Taken(c) == off[c] + (IF cpc[c] \in {"first", "more"} THEN 0 ELSE 1)

\* What the child has to have sent before it ends the answer.
Whole(c) == sent[c] = Len(File[c]) \/ "read" \in Faults

\* m is rightly the n-th message that the child sends to c.
Right(c, n, m) ==
  \/ n \in 1..sent[c] /\ m = File[c][n]
  \/ n = sent[c] + 1 /\ m = End /\ Whole(c)
  \/ n = 1 /\ sent[c] = 0 /\ m = Failure

\* The messages c has received and those in its queue are what the child sent.
Stream(c) ==
  /\ c \in queued
  /\ Taken(c) + Len(cq[c]) \in {sent[c], sent[c] + 1}
  /\ Taken(c) + Len(cq[c]) = sent[c] + 1 => child[c] \in Through
  /\ \A i \in 1..Len(cq[c]) : Right(c, Taken(c) + i, cq[c][i])
  /\ cpc[c] \in {"trunc", "store", "close"} => Right(c, Taken(c), resp[c]) /\ resp[c] # Failure
  /\ cpc[c] = "close" => ~IsData(resp[c])

Good(c) ==
  /\ child[c] \in {"none", "open"} => sent[c] = 0
  /\ child[c] = "end" /\ c \in queued => Whole(c)
  /\ sent[c] <= Len(File[c])
  /\ cpc[c] \in Active => Stream(c)
  /\ cpc[c] \in Early => cq[c] = <<>>
  /\ cpc[c] = "send" => c \in queued
  /\ cpc[c] \in Early \cup {"first", "trunc"} => off[c] = 0
  /\ cpc[c] = "more" => off[c] > 0

\* What TypeOK says of one client.
LEMMA OneClient ==
  ASSUME TypeOK, NEW c \in Client
  PROVE  /\ sent[c] \in Nat /\ off[c] \in Nat /\ cq[c] \in Seq(Message) /\ Len(cq[c]) \in Nat
         /\ File[c] \in Seq(Block) /\ Len(File[c]) \in Nat /\ resp[c] \in Message
         /\ Taken(c) \in Nat
  BY MsgAssumption DEF MsgAssumption, TypeOK, Taken

LEMMA GoodSame ==
  ASSUME NEW c \in Client, Good(c), c \in queued' <=> c \in queued,
         sent'[c] = sent[c], cq'[c] = cq[c], cpc'[c] = cpc[c], off'[c] = off[c], resp'[c] = resp[c],
         child'[c] \in {child[c]} \cup Through \/ (child[c] = "none" /\ child'[c] = "open")
  PROVE  Good(c)'
<1>1. Taken(c)' = Taken(c) /\ (Whole(c)' <=> Whole(c))
  BY DEF Taken, Whole
<1>2. \A n, m : Right(c, n, m)' <=> Right(c, n, m)
  BY <1>1 DEF Right
<1>3. Stream(c) => Stream(c)'
  BY <1>1, <1>2 DEF Stream, Through
<1>4. QED
  BY <1>1, <1>3 DEF Good, Through

\* c ends, or is not yet active: nothing is said of its queue.
LEMMA GoodPassive ==
  ASSUME NEW c \in Client, Good(c), c \in queued' => c \in queued,
         sent'[c] = sent[c], child'[c] = child[c], off'[c] = off[c],
         cpc'[c] \in Finished \cup {"exit"}
  PROVE  Good(c)'
<1>1. Whole(c)' <=> Whole(c)
  BY DEF Whole
<1>2. QED
  BY <1>1 DEF Good, Active, Early, Finished

\* A message is sent to c.
LEMMA GoodSend ==
  ASSUME TypeOK, NEW c \in Client, Good(c), NEW m,
         cpc[c] \notin Early, child[c] \in {"open", "send", "end"}, UNCHANGED <<queued, cpc, off, resp>>,
         c \in queued => cq'[c] = Append(cq[c], m),
         \/ /\ sent'[c] = sent[c] + 1 /\ child'[c] = child[c] /\ child[c] = "send" /\ c \in queued
            /\ m = File[c][sent[c] + 1] /\ sent[c] < Len(File[c])
         \/ /\ sent'[c] = sent[c] /\ child'[c] \in Through
            /\ (m = End /\ child[c] = "end") \/ (m = Failure /\ child[c] = "open")
  PROVE  Good(c)'
<1>c. /\ sent[c] \in Nat /\ off[c] \in Nat /\ cq[c] \in Seq(Message) /\ Len(cq[c]) \in Nat
      /\ Len(File[c]) \in Nat /\ Taken(c) \in Nat
  BY OneClient
<1>1. Taken(c)' = Taken(c)
  BY DEF Taken
<1>2. ASSUME cpc[c] \in Active PROVE Stream(c)'
  <2>1. Stream(c) /\ c \in queued
    BY <1>2 DEF Good, Stream
  <2>2. Taken(c) + Len(cq[c]) = sent[c]
    BY <2>1, <1>c DEF Stream, Through
  <2>3. /\ Len(cq'[c]) = Len(cq[c]) + 1 /\ cq'[c][Len(cq[c]) + 1] = m
        /\ \A i \in 1..Len(cq[c]) : cq'[c][i] = cq[c][i]
    BY <2>1, <1>c
  <2>4. \A n \in 1..sent[c] : \A x : Right(c, n, x) => Right(c, n, x)'
    BY <1>c DEF Right
  <2>5. \A n, x : n = sent[c] + 1 /\ x = m => Right(c, n, x)'
    <3>1. CASE sent'[c] = sent[c] + 1
      BY <1>c, <3>1 DEF Right
    <3>2. CASE sent'[c] = sent[c]
      <4>1. child[c] = "end" => Whole(c)'
        BY <2>1, <3>2 DEF Good, Whole
      <4>2. child[c] = "open" => sent[c] = 0
        BY DEF Good
      <4>3. QED
        BY <1>c, <3>2, <4>1, <4>2 DEF Right
    <3>3. QED
      BY <3>1, <3>2
  <2>6. \A i \in 1..Len(cq'[c]) : i \in 1..Len(cq[c]) \/ i = Len(cq[c]) + 1
    BY <1>c, <2>3
  <2>7. \A i \in 1..Len(cq[c]) : Taken(c) + i \in 1..sent[c]
    BY <1>c, <2>2
  <2>8. ASSUME NEW i \in 1..Len(cq'[c]) PROVE Right(c, Taken(c) + i, cq[c][i])'
    <3>1. CASE i \in 1..Len(cq[c])
      <4>1. Right(c, Taken(c) + i, cq[c][i])
        BY <2>1, <3>1 DEF Stream
      <4>2. QED
        BY <1>1, <2>3, <2>4, <2>7, <3>1, <4>1
    <3>2. CASE i = Len(cq[c]) + 1
      <4>1. Taken(c) + i = sent[c] + 1
        BY <1>c, <2>2, <3>2
      <4>2. QED
        BY <1>1, <2>3, <2>5, <3>2, <4>1
    <3>3. QED
      BY <2>6, <3>1, <3>2
  <2>9. cpc[c] \in {"trunc", "store", "close"} => Right(c, Taken(c), resp[c])' /\ resp[c] # Failure
    <3>1. cpc[c] \in {"trunc", "store", "close"} => Taken(c) \in 1..sent[c]
      BY <1>c, <2>2 DEF Taken
    <3>2. QED
      BY <1>1, <2>1, <2>4, <3>1 DEF Stream
  <2>10. Taken(c)' + Len(cq'[c]) = sent[c] + 1
    BY <1>1, <1>c, <2>2, <2>3
  <2>11. QED
    BY <1>c, <2>1, <2>8, <2>9, <2>10 DEF Stream, Through
<1>3. QED
  BY <1>2, <1>c DEF Good, Through

AllGood == \A c \in Client : Good(c)

\* c takes the next message out of its queue: its first, or one more.
LEMMA GoodReceive ==
  ASSUME TypeOK, NEW c \in Client, Good(c), CReceive(c), UNCHANGED <<queued, sent, child, off>>,
         \/ cpc[c] = "first" /\ cpc'[c] = "trunc" /\ Head(cq[c]) # Failure
         \/ cpc[c] = "more" /\ cpc'[c] = "store"
  PROVE  Good(c)'
<1>c. /\ sent[c] \in Nat /\ off[c] \in Nat /\ cq[c] \in Seq(Message) /\ Len(cq[c]) \in Nat
      /\ Taken(c) \in Nat
  BY OneClient
<1>1. /\ cq[c] # <<>> /\ resp'[c] = cq[c][1] /\ cq'[c] = Tail(cq[c])
  BY <1>c DEF CReceive, TypeOK
<1>2. /\ 1 \in 1..Len(cq[c]) /\ Len(cq'[c]) = Len(cq[c]) - 1
      /\ \A i \in 1..Len(cq'[c]) : cq'[c][i] = cq[c][i + 1]
  BY <1>c, <1>1, HeadTailProperties
<1>3. Stream(c)
  BY DEF Good, Active
<1>4. Taken(c)' = Taken(c) + 1
  BY <1>c DEF Taken
<1>5. \A n, x : Right(c, n, x)' <=> Right(c, n, x)
  BY DEF Right, Whole
<1>6. Right(c, Taken(c) + 1, cq[c][1])
  BY <1>2, <1>3 DEF Stream
<1>7. cq[c][1] # Failure
  <2>1. CASE cpc[c] = "first"
    BY <1>c, <1>1, <2>1
  <2>2. CASE cpc[c] = "more"
    <3>1. Taken(c) + 1 # 1
      BY <1>c, <2>2 DEF Good, Taken
    <3>2. \A n \in 1..sent[c] : File[c][n] \in Block
      BY OneClient, <1>c DEF Good
    <3>3. QED
      BY <1>6, <3>1, <3>2, MsgAssumption DEF Right, MsgAssumption, End, Failure
  <2>3. QED
    BY <2>1, <2>2
<1>8. \A i \in 1..Len(cq'[c]) : /\ i + 1 \in 1..Len(cq[c])
                                /\ Taken(c) + (i + 1) = (Taken(c) + 1) + i
  BY <1>c, <1>2
<1>9. \A i \in 1..Len(cq'[c]) : Right(c, (Taken(c) + 1) + i, cq'[c][i])
  BY <1>2, <1>3, <1>8 DEF Stream
<1>10. \A i \in 1..Len(cq'[c]) : Right(c, Taken(c) + i, cq[c][i])'
  BY <1>4, <1>5, <1>9
<1>11. Right(c, Taken(c), resp[c])'
  BY <1>1, <1>4, <1>5, <1>6
<1>12. Taken(c)' + Len(cq'[c]) = Taken(c) + Len(cq[c])
  BY <1>c, <1>2, <1>4
<1>13. Stream(c)'
  BY <1>1, <1>3, <1>7, <1>10, <1>11, <1>12 DEF Stream
<1>14. QED
  BY <1>13 DEF Good, Active, Early, Whole

LEMMA GoodChild ==
  ASSUME TypeOK, Requests, AllGood, NEW c \in Client, Child(c) \/ HKill(c)
  PROVE  Good(c)'
<1> USE DEF sVars, hVars, cVars
<1>g. Good(c)
  BY DEF AllGood
<1>t. child \in [Client -> {"none", "open", "send", "end", "exit", "zombie", "reaped"}]
      /\ sent \in [Client -> Nat] /\ cq \in [Client -> Seq(Message)]
  BY DEF TypeOK
<1>e. child[c] # "none" => cpc[c] \notin Early
  BY DEF Requests
<1>1. CASE HOpen(c)
  <2>1. /\ child[c] = "open" /\ UNCHANGED <<sent, cpc, resp, off, queued>>
        /\ \/ child'[c] = "send" /\ cq' = cq
           \/ /\ child'[c] = "exit"
              /\ c \in queued => cq'[c] = Append(cq[c], Failure)
    BY <1>1, <1>t DEF HOpen, HGoto, HSend
  <2>2. CASE child'[c] = "send" /\ cq' = cq
    <3>1. Taken(c)' = Taken(c) /\ (Whole(c)' <=> Whole(c)) /\ \A n, m : Right(c, n, m)' <=> Right(c, n, m)
      BY <2>1 DEF Taken, Whole, Right
    <3>2. Stream(c) => Stream(c)'
      BY <2>1, <2>2, <3>1 DEF Stream, Through
    <3>3. QED
      BY <1>g, <2>1, <2>2, <3>1, <3>2 DEF Good, Active, Early
  <2>3. CASE child'[c] = "exit" /\ (c \in queued => cq'[c] = Append(cq[c], Failure))
    BY <1>g, <1>e, <2>1, <2>3, GoodSend DEF Through
  <2>4. QED
    BY <2>1, <2>2, <2>3
<1>2. CASE HBlock(c)
  <2>1. /\ child[c] = "send" /\ sent[c] < Len(File[c]) /\ UNCHANGED <<cpc, resp, off, queued>>
    BY <1>2 DEF HBlock, HGoto
  <2>2. CASE c \in queued
    <3>1. /\ child'[c] = child[c] /\ sent'[c] = sent[c] + 1
          /\ cq'[c] = Append(cq[c], File[c][sent[c] + 1])
      BY <1>2, <1>t, <2>1, <2>2 DEF HBlock, HGoto, HSend
    <3>2. QED
      BY <1>g, <1>e, <2>1, <2>2, <3>1, GoodSend
  <2>3. CASE c \notin queued
    <3>1. child'[c] = "end" /\ UNCHANGED <<sent, cq>>
      BY <1>2, <1>t, <2>3 DEF HBlock, HGoto, HSend
    <3>2. cpc[c] \notin Active
      BY <1>g, <2>3 DEF Good, Stream
    <3>3. QED
      BY <1>g, <2>1, <2>3, <3>1, <3>2 DEF Good
  <2>4. QED
    BY <2>2, <2>3
<1>3. CASE HNoMore(c)
  <2>1. /\ child[c] = "send" /\ child'[c] = "end" /\ UNCHANGED <<sent, cq, cpc, resp, off, queued>>
        /\ Whole(c)
    BY <1>3, <1>t DEF HNoMore, HGoto, Whole
  <2>2. Taken(c)' = Taken(c) /\ (Whole(c)' <=> Whole(c)) /\ \A n, m : Right(c, n, m)' <=> Right(c, n, m)
    BY <2>1 DEF Taken, Whole, Right
  <2>3. Stream(c) => Stream(c)'
    BY <2>1, <2>2 DEF Stream, Through
  <2>4. QED
    BY <1>g, <2>1, <2>2, <2>3 DEF Good, Active, Early
<1>4. CASE HEnd(c)
  <2>1. /\ child[c] = "end" /\ child'[c] = "exit" /\ UNCHANGED <<sent, cpc, resp, off, queued>>
        /\ c \in queued => cq'[c] = Append(cq[c], End)
    BY <1>4, <1>t DEF HEnd, HGoto, HSend
  <2>2. QED
    BY <1>g, <1>e, <2>1, GoodSend DEF Through
<1>5. CASE HExit(c) \/ HKill(c)
  <2>1. child'[c] = "zombie" /\ UNCHANGED <<sent, cpc, resp, off, queued, cq>>
    BY <1>5, <1>t DEF HExit, HKill, HGoto
  <2>2. QED
    BY <1>g, <2>1, GoodSame DEF Through
<1>6. QED
  BY <1>1, <1>2, <1>3, <1>4, <1>5 DEF Child

LEMMA GoodClient ==
  ASSUME TypeOK, Requests, AllGood, NEW c \in Client, ClientStep(c) \/ CKill(c)
  PROVE  Good(c)'
<1> USE DEF sVars, hVars, cVars
<1>g. Good(c)
  BY DEF AllGood
<1>c. /\ sent[c] \in Nat /\ off[c] \in Nat /\ cq[c] \in Seq(Message) /\ Len(cq[c]) \in Nat
      /\ Len(File[c]) \in Nat /\ Taken(c) \in Nat
  BY OneClient
<1>t. /\ cpc \in [Client -> {"get", "create", "send", "first", "trunc", "close", "exit"}
                         \cup Storing \cup Finished]
      /\ off \in [Client -> Nat] /\ cq \in [Client -> Seq(Message)]
  BY DEF TypeOK
<1>w. UNCHANGED sent => (Whole(c)' <=> Whole(c)) /\ \A n, m : Right(c, n, m)' <=> Right(c, n, m)
  BY DEF Whole, Right
<1>1. CASE CGet(c) \/ CCreate(c)
  <2>1. /\ UNCHANGED <<sent, child, off, cq, resp>> /\ cpc[c] \in {"get", "create"}
        /\ cpc'[c] \in {"create", "send", "failed"}
        /\ cpc'[c] = "send" => c \in queued'
    BY <1>1, <1>t DEF CGet, CCreate, CGoto
  <2>2. child[c] = "none"
    BY <2>1 DEF Requests, Early
  <2>3. QED
    BY <1>g, <2>1, <2>2 DEF Good, Active, Early
<1>2. CASE CSend(c)
  <2>1. /\ UNCHANGED <<sent, child, off, cq, resp, queued>> /\ cpc[c] = "send"
        /\ cpc'[c] \in {"first", "exit"}
    BY <1>2, <1>t DEF CSend, CGoto
  <2>2. child[c] = "none" /\ sent[c] = 0 /\ off[c] = 0 /\ cq[c] = <<>> /\ c \in queued
    BY <1>g, <2>1 DEF Requests, Early, Good
  <2>3. CASE cpc'[c] = "first"
    <3>1. Taken(c)' = 0 /\ Len(cq'[c]) = 0
      BY <2>1, <2>2, <2>3 DEF Taken
    <3>2. Stream(c)'
      BY <2>1, <2>2, <2>3, <3>1 DEF Stream
    <3>3. QED
      BY <1>c, <2>1, <2>2, <2>3, <3>2 DEF Good, Early
  <2>4. CASE cpc'[c] = "exit"
    BY <1>g, <2>1, <2>4, GoodPassive
  <2>5. QED
    BY <2>1, <2>3, <2>4
<1>3. CASE CFirst(c)
  <2>1. /\ CReceive(c) /\ cpc[c] = "first" /\ UNCHANGED <<sent, child, off, queued>>
        /\ cpc'[c] = IF Head(cq[c]) = Failure THEN "exit" ELSE "trunc"
    BY <1>3, <1>t DEF CFirst, CGoto
  <2>2. CASE Head(cq[c]) = Failure
    BY <1>g, <2>1, <2>2, GoodPassive
  <2>3. CASE Head(cq[c]) # Failure
    BY <1>g, <2>1, <2>3, GoodReceive
  <2>4. QED
    BY <2>2, <2>3
<1>4. CASE CTrunc(c)
  <2>1. /\ UNCHANGED <<sent, child, cq, resp, queued>> /\ cpc[c] = "trunc" /\ cpc'[c] = "store"
        /\ off'[c] = 0
    BY <1>4, <1>t DEF CTrunc, CGoto
  <2>2. off[c] = 0 /\ Stream(c)
    BY <1>g, <2>1 DEF Good, Active
  <2>3. Taken(c)' = Taken(c)
    BY <2>1, <2>2 DEF Taken
  <2>4. Stream(c)'
    BY <1>w, <2>1, <2>2, <2>3 DEF Stream
  <2>5. QED
    BY <1>g, <1>w, <2>1, <2>4 DEF Good, Early
<1>5. CASE CStore(c)
  <2>1. /\ UNCHANGED <<sent, child, cq, resp, queued>> /\ cpc[c] = "store"
        /\ IF IsData(resp[c]) THEN cpc'[c] = "more" /\ off'[c] = off[c] + 1
                              ELSE cpc'[c] = "close" /\ off'[c] = off[c]
    BY <1>5, <1>t DEF CStore, CGoto
  <2>2. Stream(c)
    BY <1>g, <2>1 DEF Good, Active
  <2>3. Taken(c)' = Taken(c) /\ (IsData(resp[c])' <=> IsData(resp[c]))
    BY <1>c, <2>1 DEF Taken, IsData
  <2>4. Stream(c)'
    BY <1>w, <2>1, <2>2, <2>3 DEF Stream
  <2>5. QED
    BY <1>c, <1>g, <1>w, <2>1, <2>4 DEF Good, Early
<1>6. CASE CMore(c)
  <2>1. /\ CReceive(c) /\ cpc[c] = "more" /\ cpc'[c] = "store" /\ UNCHANGED <<sent, child, off, queued>>
    BY <1>6, <1>t DEF CMore, CGoto
  <2>2. QED
    BY <1>g, <2>1, GoodReceive
<1>7. CASE CExit(c) \/ CKill(c)
  <2>1. /\ UNCHANGED <<sent, child, off>> /\ cpc'[c] \in Finished /\ (c \in queued' => c \in queued)
    BY <1>7, <1>t DEF CExit, CKill, Finished
  <2>2. QED
    BY <1>g, <2>1, GoodPassive
<1>8. QED
  BY <1>1, <1>2, <1>3, <1>4, <1>5, <1>6, <1>7 DEF ClientStep

LEMMA GoodStep == TypeOK /\ Requests /\ AllGood /\ [Next]_vars => AllGood'
<1> SUFFICES ASSUME TypeOK, Requests, AllGood, [Next]_vars, NEW d \in Client PROVE Good(d)'
  BY DEF AllGood
<1> USE DEF sVars, hVars, cVars
<1>g. Good(d)
  BY DEF AllGood
<1>t. /\ child \in [Client -> {"none", "open", "send", "end", "exit", "zombie", "reaped"}]
      /\ sent \in [Client -> Nat] /\ off \in [Client -> Nat] /\ cq \in [Client -> Seq(Message)]
      /\ cpc \in [Client -> {"get", "create", "send", "first", "trunc", "close", "exit"}
                         \cup Storing \cup Finished]
      /\ resp \in [Client -> Message]
  BY DEF TypeOK
<1>1. CASE Server \/ SSignal \/ SKill \/ Ipcrm \/ UNCHANGED vars
  <2>1. UNCHANGED <<sent, cq, cpc, off, resp, queued>>
    BY <1>1 DEF Server, SMsgget, SRecv, SRecvFails, SFork, SHandler, SWaitpid, SSignal, SKill, Ipcrm, vars
  <2>2. child'[d] \in {child[d]} \cup Through \/ (child[d] = "none" /\ child'[d] = "open")
    <3>1. CASE child' = child
      BY <3>1
    <3>2. CASE SFork
      BY <3>2 DEF SFork, Requests
    <3>3. CASE SWaitpid
      BY <1>t, <3>3 DEF SWaitpid, Through
    <3>4. QED
      BY <1>1, <3>1, <3>2, <3>3 DEF Server, SMsgget, SRecv, SRecvFails, SHandler, SSignal, SKill, Ipcrm, vars
  <2>3. QED
    BY <1>g, <2>1, <2>2, GoodSame
<1>2. ASSUME NEW c \in Client, Child(c) \/ HKill(c) PROVE Good(d)'
  <2>1. CASE d = c
    BY <1>2, <2>1, GoodChild
  <2>2. CASE d # c
    <3>1. UNCHANGED <<cpc, off, resp, queued>> /\ child'[d] = child[d] /\ sent'[d] = sent[d] /\ cq'[d] = cq[d]
      BY <1>2, <1>t, <2>2 DEF Child, HOpen, HBlock, HNoMore, HEnd, HExit, HKill, HGoto, HSend
    <3>2. QED
      BY <1>g, <3>1, GoodSame
  <2>3. QED
    BY <2>1, <2>2
<1>3. ASSUME NEW c \in Client, ClientStep(c) \/ CKill(c) PROVE Good(d)'
  <2>1. CASE d = c
    BY <1>3, <2>1, GoodClient
  <2>2. CASE d # c
    <3>1. /\ UNCHANGED <<child, sent>> /\ (d \in queued' <=> d \in queued)
          /\ cpc'[d] = cpc[d] /\ off'[d] = off[d] /\ resp'[d] = resp[d] /\ cq'[d] = cq[d]
      BY <1>3, <1>t, <2>2 DEF ClientStep, CGet, CCreate, CSend, CFirst, CTrunc, CStore, CMore, CExit,
                              CKill, CGoto, CReceive
    <3>2. QED
      BY <1>g, <3>1, GoodSame
  <2>3. QED
    BY <2>1, <2>2
<1>4. QED
  BY <1>1, <1>2, <1>3 DEF Next

\* While a client has the output file to itself, nobody else is writing to it,
\* and it holds the blocks that the client has stored.
OnDisk == \A c \in alone :
  /\ \A d \in Client : d # c => cpc[d] \notin Storing
  /\ cpc[c] \in Storing \cup {"close"} =>
       Len(disk) = off[c] /\ \A k \in 1..off[c] : disk[k] = File[c][k]

LEMMA OnDiskStep == TypeOK /\ AllGood /\ OnDisk /\ [Next]_vars => OnDisk'
<1> SUFFICES ASSUME TypeOK, AllGood, OnDisk, [Next]_vars PROVE OnDisk'
  OBVIOUS
<1> USE DEF sVars, hVars, cVars, hist
<1>t. /\ cpc \in [Client -> {"get", "create", "send", "first", "trunc", "close", "exit"}
                         \cup Storing \cup Finished]
      /\ off \in [Client -> Nat] /\ alone \subseteq Client /\ disk \in Seq(Block \cup {Hole})
  BY DEF TypeOK
<1>1. CASE UNCHANGED <<cpc, off, disk, alone>>
  BY <1>1 DEF OnDisk
<1>2. ASSUME NEW c \in Client, UNCHANGED <<off, disk, alone>>,
             cpc'[c] \in Storing => cpc[c] \in Storing,
             cpc'[c] = "close" => cpc[c] \in Storing \cup {"close"},
             \A d \in Client : d # c => cpc'[d] = cpc[d]
      PROVE  OnDisk'
  BY <1>t, <1>2 DEF OnDisk
<1>3. ASSUME NEW c \in Client, CTrunc(c) PROVE OnDisk'
  <2>1. /\ disk' = <<>> /\ off'[c] = 0
        /\ alone' = IF \A d \in Client : cpc[d] \notin Storing THEN {c} ELSE {}
        /\ \A d \in Client : d # c => cpc'[d] = cpc[d]
    BY <1>3, <1>t DEF CTrunc, CGoto
  <2>2. QED
    BY <2>1 DEF OnDisk
<1>4. ASSUME NEW c \in Client, CStore(c) PROVE OnDisk'
  <2>1. /\ cpc[c] = "store" /\ UNCHANGED <<sent, resp, alone>>
        /\ \A d \in Client : d # c => cpc'[d] = cpc[d]
    BY <1>4, <1>t DEF CStore, CGoto
  <2>2. CASE ~IsData(resp[c])
    <3>1. cpc'[c] = "close" /\ UNCHANGED <<disk, off>>
      BY <1>4, <1>t, <2>2 DEF CStore, CGoto
    <3>2. QED
      BY <1>2, <2>1, <3>1 DEF Storing
  <2>3. CASE IsData(resp[c])
    <3>1. /\ cpc'[c] = "more" /\ disk' = WriteAt(off[c], resp[c]) /\ off'[c] = off[c] + 1
      BY <1>4, <1>t, <2>3 DEF CStore, CGoto
    <3>2. ASSUME NEW d \in alone PROVE d = c
      BY <2>1, <3>2 DEF OnDisk, Storing
    <3>3. CASE c \in alone
      <4>1. Len(disk) = off[c] /\ \A k \in 1..off[c] : disk[k] = File[c][k]
        BY <2>1, <3>3 DEF OnDisk, Storing
      <4>2. off[c] \in Nat /\ resp[c] \in Block
        BY <1>t, <2>3 DEF TypeOK, IsData, Message
      <4>3. Len(disk') = off[c] + 1
            /\ \A k \in 1..(off[c] + 1) : disk'[k] = IF k = off[c] + 1 THEN resp[c] ELSE disk[k]
        BY <1>t, <3>1, <4>1, <4>2, WriteAtType
      <4>4. resp[c] = File[c][off[c] + 1]
        <5>1. Right(c, off[c] + 1, resp[c]) /\ resp[c] # Failure
          BY <2>1 DEF AllGood, Good, Stream, Taken, Active
        <5>2. QED
          BY <2>3, <5>1 DEF Right, IsData
      <4>5. \A k \in 1..(off[c] + 1) : k # off[c] + 1 => k \in 1..off[c]
        BY <4>2
      <4>6. \A k \in 1..(off[c] + 1) : disk'[k] = File[c][k]
        BY <4>1, <4>3, <4>4, <4>5
      <4>7. QED
        BY <2>1, <3>1, <3>2, <3>3, <4>3, <4>6 DEF OnDisk
    <3>4. CASE c \notin alone
      BY <2>1, <3>2, <3>4 DEF OnDisk
    <3>5. QED
      BY <3>3, <3>4
  <2>4. QED
    BY <2>2, <2>3
<1>5. ASSUME NEW c \in Client,
             CGet(c) \/ CCreate(c) \/ CSend(c) \/ CFirst(c) \/ CMore(c) \/ CExit(c) \/ CKill(c)
      PROVE  OnDisk'
  <2>1. /\ UNCHANGED <<off, disk, alone>>
        /\ cpc'[c] \in Storing => cpc[c] \in Storing
        /\ cpc'[c] # "close"
        /\ \A d \in Client : d # c => cpc'[d] = cpc[d]
    BY <1>5, <1>t DEF CGet, CCreate, CSend, CFirst, CMore, CExit, CKill, CGoto, Storing
  <2>2. QED
    BY <1>2, <2>1
<1>6. QED
  BY <1>1, <1>3, <1>4, <1>5 DEF Next, Server, SMsgget, SRecv, SRecvFails, SFork, SHandler, SWaitpid,
     SSignal, SKill, Ipcrm, Child, HOpen, HBlock, HNoMore, HEnd, HExit, HKill, ClientStep, vars

\* A client that reports its bytes, and had the output file to itself, leaves the
\* file it asked for there; or, when a child may fail to read, what was sent of it.
THEOREM FileArrives == Spec => []AloneWhole
<1> DEFINE Inv == Requests /\ AllGood /\ OnDisk
<1>1. Init => Inv
  <2> SUFFICES ASSUME Init PROVE Inv
    OBVIOUS
  <2>1. Requests /\ OnDisk
    BY DEF Init, Requests, OnDisk
  <2>2. \A c \in Client : Len(File[c]) \in Nat
    BY MsgAssumption DEF MsgAssumption
  <2>3. AllGood
    <3> SUFFICES ASSUME NEW c \in Client PROVE Good(c)
      BY DEF AllGood
    <3>1. cpc[c] = "get" /\ child[c] = "none" /\ sent[c] = 0 /\ off[c] = 0 /\ cq[c] = <<>>
      BY DEF Init
    <3>2. 0 <= Len(File[c])
      BY <2>2
    <3>3. QED
      BY <3>1, <3>2 DEF Good, Active
  <2>4. QED
    BY <2>1, <2>3
<1>2. TypeOK /\ Inv /\ [Next]_vars => Inv'
  BY RequestsStep, GoodStep, OnDiskStep
<1>3. TypeOK /\ Inv => AloneWhole
  <2> SUFFICES ASSUME TypeOK, Inv, NEW c \in Client, cpc[c] = "close", c \in alone
               PROVE  disk = File[c] \/ ("read" \in Faults /\ disk = SubSeq(File[c], 1, sent[c]))
    BY DEF AloneWhole
  <2>1. /\ Stream(c) /\ sent[c] <= Len(File[c])
        /\ Len(disk) = off[c] /\ \A k \in 1..off[c] : disk[k] = File[c][k]
    BY DEF AllGood, Good, OnDisk, Active
  <2>2. sent[c] \in Nat /\ off[c] \in Nat /\ File[c] \in Seq(Block) /\ Len(File[c]) \in Nat
    BY OneClient
  <2>3. Right(c, off[c] + 1, resp[c]) /\ ~IsData(resp[c]) /\ resp[c] # Failure
    BY <2>1 DEF Stream, Taken
  <2>4. off[c] = sent[c] /\ Whole(c)
    <3>1. \A n \in 1..sent[c] : IsData(File[c][n])
      BY <2>1, <2>2, MsgAssumption DEF IsData, MsgAssumption
    <3>2. off[c] + 1 = sent[c] + 1 /\ Whole(c)
      BY <2>3, <3>1 DEF Right
    <3>3. QED
      BY <2>2, <3>2
  <2>5. disk = SubSeq(File[c], 1, sent[c])
    <3>1. disk \in Seq(Block \cup {Hole}) /\ Len(disk) = sent[c]
      BY <2>1, <2>4 DEF TypeOK
    <3>2. \A k \in 1..sent[c] : File[c][k] \in Block \cup {Hole}
      BY <2>1, <2>2
    <3>3. 1 \in Int /\ sent[c] \in Int
      BY <2>2
    <3>4. /\ SubSeq(File[c], 1, sent[c]) \in Seq(Block \cup {Hole})
          /\ Len(SubSeq(File[c], 1, sent[c])) = IF 1 <= sent[c] THEN sent[c] - 1 + 1 ELSE 0
          /\ \A i \in 1..(sent[c] - 1 + 1) : SubSeq(File[c], 1, sent[c])[i] = File[c][1 + i - 1]
      BY <3>2, <3>3, SubSeqProperties
    <3>5. Len(SubSeq(File[c], 1, sent[c])) = sent[c]
      BY <2>2, <3>4
    <3>6. \A i \in 1..sent[c] : SubSeq(File[c], 1, sent[c])[i] = disk[i]
      BY <2>1, <2>2, <2>4, <3>4
    <3>7. QED
      BY <3>1, <3>4, <3>5, <3>6, SeqEqual
  <2>6. SubSeq(File[c], 1, Len(File[c])) = File[c]
    BY <2>2, SubSeqFull
  <2>7. QED
    BY <2>4, <2>5, <2>6 DEF Whole
<1>4. QED
  BY <1>1, <1>2, <1>3, TypeCorrect, PTL DEF Spec
=============================================================================
