--------------------------- MODULE PipeSemProofs ---------------------------
(***************************************************************************)
(* pipe_server.c and pipe_client.c, for any number of clients, kills and   *)
(* faults: one number is never given to two clients; the numbers follow    *)
(* the order of the requests; a number that is missing was counted for a   *)
(* killed client; and a client that prints garbage has outlived the server *)
(* that opened its FIFO.                                                   *)
(*                                                                         *)
(* posix_sem_demo, whatever the others do with the named semaphore: the    *)
(* two threads of uname count without a lock, and none of them is missed.  *)
(*                                                                         *)
(* pipe_demo.c, for any number of children and whichever forks fail and    *)
(* processes are killed: what end of file means.                           *)
(***************************************************************************)
EXTENDS FifoSeq, PosixSem, PipeDemo, FiniteSetTheorems, TLAPS

USE DEF hist

LEMMA KeptType == ASSUME NEW W, NEW b, queue \in Seq(Client)
                  PROVE  Kept(W, b) \in Seq(Client)
  BY DEF Kept

LEMMA TypeInit == Init => TypeOK
<1> SUFFICES ASSUME Init PROVE TypeOK
  OBVIOUS
<1>1. sfifo \in BOOLEAN
  BY Zenon DEF Init
<1>2. QED
  BY <1>1, ClientAssumption DEF ClientAssumption, Init, TypeOK, NoAnswer, Answer, Ended, SOpened

LEMMA TypeStep == TypeOK /\ [Next]_vars => TypeOK'
<1> SUFFICES ASSUME TypeOK, [Next]_vars PROVE TypeOK'
  OBVIOUS
<1> USE ClientAssumption DEF ClientAssumption, TypeOK, NoAnswer, Answer, Ended, SOpened,
        sVars, fVars, cVars
<1>1. CASE SMkfifo
  <2>1. sfifo' \in BOOLEAN
    BY <1>1, Zenon DEF SMkfifo
  <2>2. QED
    BY <1>1, <2>1 DEF SMkfifo
<1>2. CASE SOpenRead
  BY <1>2 DEF SOpenRead
<1>3. CASE SOpenDummy
  BY <1>3 DEF SOpenDummy
<1>4. CASE SRead
  BY <1>4 DEF SRead
<1>5. CASE SOpenClient
  <2>1. opened' \in [Client -> 0..MaxKills]
    <3>1. opened \in [Client -> 0..MaxKills] /\ life \in 0..MaxKills
      OBVIOUS
    <3>2. opened' = opened \/ opened' = [opened EXCEPT ![cur] = life]
      BY <1>5 DEF SOpenClient
    <3>3. QED
      BY ONLY <3>1, <3>2
  <2>2. cpc' \in [Client -> {"mkfifo", "openS", "waitS", "write", "openC", "waitC",
                            "read", "printed"} \cup Ended]
    BY <1>5 DEF SOpenClient
  <2>3. QED
    BY <1>5, <2>1, <2>2 DEF SOpenClient, Count
<1>6. CASE SReply
  BY <1>6 DEF SReply
<1>7. CASE SClose
  BY <1>7 DEF SClose, Count
<1>8. CASE SKill
  <2>1. Kept(sfd, FALSE) \in Seq(Client)
    BY KeptType
  <2>2. queue' \in Seq(Client)
    BY <1>8, <2>1 DEF SKill
  <2>3. life' \in 0..MaxKills
    BY <1>8 DEF SKill
  <2>4. QED
    BY <1>8, <2>2, <2>3 DEF SKill
<1>9. ASSUME NEW c \in Client, ClientStep(c) \/ CKill(c) \/ Tidy(c) PROVE TypeOK'
  <2>1. CASE CMkfifo(c)
    BY <2>1 DEF CMkfifo
  <2>2. CASE COpenServer(c)
    BY <2>2 DEF COpenServer
  <2>3. CASE CWrite(c)
    <3>1. Kept(sfd \ {c}, spc \in SOpened) \in Seq(Client)
      BY KeptType
    <3>2. Append(queue, c) \in Seq(Client) /\ Append(asked, c) \in Seq(Client)
      OBVIOUS
    <3>3. queue' \in Seq(Client) /\ asked' \in Seq(Client) /\ sfd' \subseteq Client
      BY <2>3, <3>1, <3>2 DEF CWrite, Leaves
    <3>4. cpc' \in [Client -> {"mkfifo", "openS", "waitS", "write", "openC", "waitC",
                              "read", "printed"} \cup Ended]
      BY <2>3 DEF CWrite, Leaves
    <3>5. QED
      BY <2>3, <3>3, <3>4 DEF CWrite
  <2>4. CASE COpenOwn(c)
    <3>1. opened' \in [Client -> 0..MaxKills]
      <4>1. opened \in [Client -> 0..MaxKills] /\ life \in 0..MaxKills
        OBVIOUS
      <4>2. opened' = opened \/ opened' = [opened EXCEPT ![c] = life]
        BY <2>4 DEF COpenOwn
      <4>3. QED
        BY ONLY <4>1, <4>2
    <3>2. cpc' \in [Client -> {"mkfifo", "openS", "waitS", "write", "openC", "waitC",
                              "read", "printed"} \cup Ended]
      BY <2>4 DEF COpenOwn
    <3>3. QED
      BY <2>4, <3>1, <3>2 DEF COpenOwn
  <2>5. CASE CRead(c)
    BY <2>5 DEF CRead
  <2>6. CASE CExit(c)
    BY <2>6, KeptType DEF CExit, Leaves
  <2>7. CASE CKill(c)
    BY <2>7, KeptType DEF CKill, Leaves
  <2>8. CASE Tidy(c)
    BY <2>8 DEF Tidy
  <2>9. QED
    BY <1>9, <2>1, <2>2, <2>3, <2>4, <2>5, <2>6, <2>7, <2>8 DEF ClientStep
<1>10. CASE UNCHANGED vars
  BY <1>10 DEF vars
<1>11. QED
  BY <1>1, <1>2, <1>3, <1>4, <1>5, <1>6, <1>7, <1>8, <1>9, <1>10 DEF Next, Server

\* Every variable keeps its type.
THEOREM TypeCorrect == Spec => []TypeOK
  BY TypeInit, TypeStep, PTL DEF Spec

-----------------------------------------------------------------------------
(***************************************************************************)
(* Every answer that was given is smaller than the server's next number,   *)
(* or is of an earlier run of the server; the answer equals seqNum only    *)
(* between the write() to the client and seqNum += req.seqLen.             *)
(***************************************************************************)
Issued(c) == LET a == resp[c] IN
               \/ a[1] < life
               \/ a[1] = life /\ a[2] < seqNum
               \/ a[1] = life /\ a[2] = seqNum /\ spc = "close" /\ cur = c

UInv == Unique /\ \A c \in Client : resp[c] # NoAnswer => Issued(c)

LEMMA UniqueStep == TypeOK /\ UInv /\ [Next]_vars => UInv'
<1> SUFFICES ASSUME TypeOK, UInv, [Next]_vars PROVE UInv'
  OBVIOUS
<1> USE DEF TypeOK, UInv, Unique, Issued, NoAnswer, Answer, SOpened, sVars, fVars, cVars
<1>1. CASE SReply
  <2>1. CASE resp' = resp
    BY <1>1, <2>1 DEF SReply
  <2>2. CASE resp' = [resp EXCEPT ![cur] = <<life, seqNum>>]
    <3>1. spc = "reply" /\ spc' = "close" /\ UNCHANGED <<cur, seqNum, life>>
      BY <1>1 DEF SReply
    <3>2. ASSUME NEW d \in Client, resp[d] # NoAnswer PROVE resp[d] # <<life, seqNum>>
      <4>1. \/ resp[d][1] < life
            \/ resp[d][1] = life /\ resp[d][2] < seqNum
        BY <3>1, <3>2
      <4>2. life \in Nat /\ seqNum \in Nat
        BY ClientAssumption DEF ClientAssumption
      <4>3. QED
        BY ONLY <4>1, <4>2
    <3>3. \A d \in Client : resp'[d] = IF d = cur THEN <<life, seqNum>> ELSE resp[d]
      BY <2>2
    <3>4. Unique'
      BY <3>2, <3>3
    <3>5. ASSUME NEW c \in Client, resp'[c] # NoAnswer PROVE Issued(c)'
      BY <3>1, <3>3, <3>5
    <3>6. QED
      BY <3>4, <3>5
  <2>3. QED
    BY <1>1, <2>1, <2>2 DEF SReply
<1>2. CASE SClose \/ SOpenClient
  BY <1>2 DEF SClose, SOpenClient, Count
<1>3. CASE SKill
  <2>1. life' = life + 1 /\ resp' = resp /\ life \in Nat
    BY <1>3, ClientAssumption DEF SKill, ClientAssumption
  <2>2. ASSUME NEW d \in Client, resp[d] # NoAnswer PROVE resp[d][1] < life'
    <3>0. Issued(d) /\ resp[d] \in Answer
      BY <2>2
    <3>1. resp[d][1] \in Nat /\ resp[d][1] <= life
      BY <2>1, <3>0
    <3>2. QED
      BY <2>1, <3>1
  <2>3. QED
    BY <2>1, <2>2
<1>4. CASE SMkfifo \/ SOpenRead \/ SOpenDummy \/ SRead
  BY <1>4 DEF SMkfifo, SOpenRead, SOpenDummy, SRead
<1>5. CASE \E c \in Client : ClientStep(c) \/ CKill(c) \/ Tidy(c)
  BY <1>5 DEF ClientStep, CMkfifo, COpenServer, CWrite, COpenOwn, CRead, CExit, CKill,
              Tidy, Leaves
<1>6. CASE UNCHANGED vars
  BY <1>6 DEF vars
<1>7. QED
  BY <1>1, <1>2, <1>3, <1>4, <1>5, <1>6 DEF Next, Server

\* No run of the server gives the same number to two clients, whichever
\* clients are killed, whichever FIFOs vanish, and however often it restarts.
THEOREM NumbersUnique == Spec => []Unique
<1>1. Init => UInv
  BY DEF Init, UInv, Unique
<1>2. UInv => Unique
  BY DEF UInv
<1>3. QED
  BY <1>1, <1>2, UniqueStep, TypeCorrect, PTL DEF Spec

-----------------------------------------------------------------------------
(***************************************************************************)
(* The order of requests.  Who waits in SERVER_FIFO has asked in the order *)
(* of the queue; the client being served asked before all of them; and who *)
(* has an answer asked before that.                                        *)
(***************************************************************************)
HasAsked(c) == \E i \in 1..Len(asked) : asked[i] = c
Before(c, d) == \E i, j \in 1..Len(asked) : i < j /\ asked[i] = c /\ asked[j] = d

Serves == {"open", "waitC", "reply", "close"}

\* A client asks once, and has its own FIFO from before that until it ends.
Once == /\ \A i, j \in 1..Len(asked) : asked[i] = asked[j] => i = j
        /\ \A c \in Client : HasAsked(c) => cpc[c] \notin {"mkfifo", "openS", "waitS", "write"}
HasFifo == \A c \in Client : cpc[c] \notin {"mkfifo"} \cup Ended => c \in cfifo

Queued == \A m \in 1..Len(queue) :
   /\ HasAsked(queue[m]) /\ cpc[queue[m]] \in {"openC", "waitC", "killed"}
   /\ \A n \in 1..Len(queue) : m < n => Before(queue[m], queue[n])

\* Where the client that is being served may be; without an answer, in the end,
\* only if it was killed.
Current ==
  /\ cur \in Client /\ HasAsked(cur)
  /\ \A m \in 1..Len(queue) : Before(cur, queue[m])
  /\ spc = "open" => cpc[cur] \in {"openC", "waitC", "killed"}
  /\ spc = "waitC" => cpc[cur] \in {"openC", "killed"}
  /\ spc = "reply" => cpc[cur] \in {"read", "killed"}
  /\ spc = "close" => \/ cpc[cur] = "killed" /\ resp[cur] = NoAnswer
                      \/ resp[cur] = <<life, seqNum>>
Cur == spc \in Serves => Current

Ordered == \A c \in Client : resp[c] # NoAnswer =>
   /\ HasAsked(c)
   /\ \A m \in 1..Len(queue) : Before(c, queue[m])
   /\ spc \in Serves \ {"close"} => Before(c, cur)

OInv == Once /\ HasFifo /\ Queued /\ Cur /\ Ordered

LEMMA BeforeOnce ==
  ASSUME Once, TypeOK, NEW c, NEW d, Before(c, d)
  PROVE  c # d /\ ~Before(d, c)
  BY DEF Once, Before, TypeOK

LEMMA AskedSame ==
  ASSUME asked' = asked
  PROVE  /\ \A c : HasAsked(c)' <=> HasAsked(c)
         /\ \A c, d : Before(c, d)' <=> Before(c, d)
  BY DEF HasAsked, Before

LEMMA AskedMore ==
  ASSUME TypeOK, NEW x \in Client, asked' = Append(asked, x)
  PROVE  /\ \A c : HasAsked(c)' <=> HasAsked(c) \/ c = x
         /\ \A c, d : Before(c, d) => Before(c, d)'
         /\ \A c : HasAsked(c) => Before(c, x)'
<1>1. /\ Len(asked) \in Nat /\ Len(asked') = Len(asked) + 1 /\ asked'[Len(asked) + 1] = x
      /\ \A i \in 1..Len(asked) : asked'[i] = asked[i]
  BY DEF TypeOK
<1>2. \A i : i \in 1..Len(asked') <=> i \in 1..Len(asked) \/ i = Len(asked) + 1
  BY <1>1
<1>3. \A c : HasAsked(c)' <=> HasAsked(c) \/ c = x
  BY <1>1, <1>2 DEF HasAsked
<1>4. \A c, d : Before(c, d) => Before(c, d)'
  BY <1>1, <1>2 DEF Before
<1>5. \A c : HasAsked(c) => Before(c, x)'
  BY <1>1, <1>2 DEF Before, HasAsked
<1>6. QED
  BY <1>3, <1>4, <1>5

\* A step that leaves the requests, the answers and who is served alone, and at
\* most empties the queue; cpc may change where that does not matter.
LEMMA CalmStep ==
  ASSUME TypeOK, OInv, UNCHANGED <<asked, resp>>,
         queue' = queue \/ queue' = <<>>,
         spc' \in Serves => UNCHANGED <<spc, cur, life, seqNum>>
                            /\ (spc = "close" => cpc'[cur] = cpc[cur] \/ cpc'[cur] = "killed"
                                                        \/ resp[cur] # NoAnswer)
                            /\ (spc = "reply" => cpc'[cur] \in {cpc[cur], "killed"})
                            /\ (spc = "open" => cpc'[cur] \in {cpc[cur], "waitC", "killed"})
                            /\ (spc = "waitC" => cpc'[cur] \in {cpc[cur], "killed"}),
         \A c \in Client : \/ cpc'[c] \in {cpc[c], "killed"}
                           \/ cpc[c] = "openC" /\ cpc'[c] = "waitC"
                           \/ /\ cpc[c] \in {"mkfifo", "openS", "waitS", "write", "read", "printed"}
                              /\ HasAsked(c) => cpc'[c] \notin {"mkfifo", "openS", "waitS", "write"},
         HasFifo'
  PROVE  OInv'
<1>1. /\ \A c : HasAsked(c)' <=> HasAsked(c)
      /\ \A c, d : Before(c, d)' <=> Before(c, d)
  BY AskedSame
<1>2. Once'
  BY <1>1 DEF OInv, Once
<1>3. /\ \A m \in 1..Len(queue') : m \in 1..Len(queue) /\ queue'[m] = queue[m] /\ queue[m] \in Client
      /\ queue \in Seq(Client)
  BY DEF TypeOK
<1>4. Queued'
  <2>1. \A m \in 1..Len(queue') : cpc'[queue[m]] \in {"openC", "waitC", "killed"}
    BY <1>3 DEF OInv, Queued
  <2>2. QED
    BY <1>1, <1>3, <2>1 DEF OInv, Queued
<1>5. Cur'
  <2> SUFFICES ASSUME spc' \in Serves PROVE Current'
    BY DEF Cur
  <2>1. spc' = spc /\ Current
    BY DEF OInv, Cur
  <2>2. QED
    BY <1>1, <1>3, <2>1 DEF Current, Serves
<1>6. Ordered'
  BY <1>1, <1>3 DEF OInv, Ordered, Serves
<1>7. QED
  BY <1>2, <1>4, <1>5, <1>6 DEF OInv

LEMMA OrderStep == TypeOK /\ OInv /\ [Next]_vars => OInv'
<1> SUFFICES ASSUME TypeOK, OInv, [Next]_vars PROVE OInv'
  OBVIOUS
<1>t. cpc \in [Client -> {"mkfifo", "openS", "waitS", "write", "openC", "waitC",
                         "read", "printed"} \cup Ended]
  BY DEF TypeOK
<1>f. HasFifo /\ Once
  BY DEF OInv
<1>1. CASE SMkfifo \/ SOpenDummy \/ SClose \/ SKill \/ UNCHANGED vars
  <2>1. /\ UNCHANGED <<asked, resp, cpc, cfifo>> /\ (queue' = queue \/ queue' = <<>>)
        /\ (spc' \notin Serves \/ UNCHANGED <<spc, cur, life, seqNum>>)
    BY <1>1 DEF SMkfifo, SOpenDummy, SClose, SKill, Count, Kept, Serves, vars, sVars, fVars, cVars
  <2>2. HasFifo'
    BY <1>f, <2>1 DEF HasFifo
  <2>3. QED
    BY <2>1, <2>2, CalmStep
<1>2. CASE SOpenRead
  <2>1. /\ UNCHANGED <<asked, resp, cfifo, queue>> /\ spc' \notin Serves
        /\ \A c \in Client : cpc'[c] = cpc[c] \/ (cpc[c] = "waitS" /\ cpc'[c] = "write")
    BY <1>2 DEF SOpenRead, Serves, fVars
  <2>2. HasFifo'
    BY <1>f, <2>1 DEF HasFifo, Ended
  <2>3. \A c \in Client : cpc[c] = "waitS" => ~HasAsked(c)
    BY <1>f DEF Once
  <2>4. QED
    BY <2>1, <2>2, <2>3, CalmStep
<1>3. CASE SRead
  <2>1. /\ queue \in Seq(Client) /\ queue # <<>> /\ Len(queue) \in Nat /\ cur' = queue[1]
        /\ queue' = Tail(queue) /\ spc' = "open"
        /\ UNCHANGED <<asked, resp, cpc, cfifo, life, seqNum>>
    BY <1>3 DEF SRead, TypeOK, cVars
  <2>2. /\ Len(queue') = Len(queue) - 1 /\ 1 \in 1..Len(queue) /\ queue[1] \in Client
        /\ \A m \in 1..Len(queue') : queue'[m] = queue[m + 1] /\ m + 1 \in 1..Len(queue) /\ 1 < m + 1
    BY <2>1
  <2>3. /\ \A c : HasAsked(c)' <=> HasAsked(c)
        /\ \A c, d : Before(c, d)' <=> Before(c, d)
    BY <2>1, AskedSame
  <2>4. Once' /\ HasFifo'
    BY <1>f, <2>1, <2>3 DEF Once, HasFifo
  <2>5. Queued
    BY DEF OInv
  <2>6. Queued'
    <3> SUFFICES ASSUME NEW m \in 1..Len(queue')
                 PROVE  /\ HasAsked(queue[m + 1]) /\ cpc[queue[m + 1]] \in {"openC", "waitC", "killed"}
                        /\ \A n \in 1..Len(queue') : m < n => Before(queue[m + 1], queue[n + 1])
      BY <2>1, <2>2, <2>3 DEF Queued
    <3>1. \A n \in 1..Len(queue') : m < n => m + 1 < n + 1 /\ n + 1 \in 1..Len(queue)
      BY <2>2, <2>1
    <3>2. QED
      BY <2>2, <2>5, <3>1 DEF Queued
  <2>7. Current'
    <3>1. HasAsked(queue[1]) /\ cpc[queue[1]] \in {"openC", "waitC", "killed"}
          /\ \A m \in 1..Len(queue') : Before(queue[1], queue[m + 1])
      BY <2>2, <2>5 DEF Queued
    <3>2. QED
      BY <2>1, <2>2, <2>3, <3>1 DEF Current
  <2>8. Ordered'
    <3>1. \A c \in Client : resp[c] # NoAnswer =>
             HasAsked(c) /\ \A m \in 1..Len(queue) : Before(c, queue[m])
      BY DEF OInv, Ordered
    <3>2. QED
      BY <2>1, <2>2, <2>3, <3>1 DEF Ordered
  <2>9. QED
    BY <2>4, <2>6, <2>7, <2>8 DEF OInv, Cur
<1>4. CASE SOpenClient
  <2>1. Current /\ spc = "open" /\ UNCHANGED <<asked, resp, queue, cur, cfifo, life>>
    BY <1>4 DEF SOpenClient, OInv, Cur, Serves, fVars
  <2>2. CASE cur \notin cfifo
    <3>1. spc' = "read" /\ cpc' = cpc
      BY <1>4, <2>2 DEF SOpenClient
    <3>2. HasFifo'
      BY <1>f, <2>1, <3>1 DEF HasFifo
    <3>3. QED
      BY <2>1, <3>1, <3>2, CalmStep DEF Serves
  <2>3. CASE cur \in cfifo
    <3>1. /\ spc' = IF cpc[cur] = "waitC" THEN "reply" ELSE "waitC"
          /\ cpc' = [cpc EXCEPT ![cur] = IF cpc[cur] = "waitC" THEN "read" ELSE cpc[cur]]
          /\ seqNum' = seqNum
      BY <1>4, <2>3 DEF SOpenClient
    <3>2. cur \in Client /\ cpc[cur] \in {"openC", "waitC", "killed"}
      BY <2>1 DEF Current
    <3>3. /\ \A c : HasAsked(c)' <=> HasAsked(c)
          /\ \A c, d : Before(c, d)' <=> Before(c, d)
      BY <2>1, AskedSame
    <3>4. /\ \A c \in Client : c # cur => cpc'[c] = cpc[c]
          /\ cpc'[cur] = IF cpc[cur] = "waitC" THEN "read" ELSE cpc[cur]
      BY <1>t, <3>1, <3>2
    <3>5. Once' /\ HasFifo'
      BY <1>f, <2>1, <2>3, <3>2, <3>3, <3>4 DEF Once, HasFifo
    <3>6. \A m \in 1..Len(queue) : queue[m] # cur /\ queue[m] \in Client
      BY <2>1, BeforeOnce, <1>f DEF Current, TypeOK
    <3>7. Queued'
      BY <2>1, <3>3, <3>4, <3>6 DEF Queued, OInv
    <3>8. Current'
      BY <2>1, <3>1, <3>2, <3>3, <3>4 DEF Current
    <3>9. Ordered'
      BY <2>1, <3>1, <3>3 DEF Ordered, OInv, Serves
    <3>10. QED
      BY <3>5, <3>7, <3>8, <3>9 DEF OInv, Cur
  <2>4. QED
    BY <2>2, <2>3
<1>5. CASE SReply
  <2>1. /\ Current /\ spc = "reply" /\ spc' = "close"
        /\ UNCHANGED <<asked, cpc, queue, cur, cfifo, life, seqNum>>
        /\ resp' = IF cpc[cur] = "read" THEN [resp EXCEPT ![cur] = <<life, seqNum>>] ELSE resp
    BY <1>5 DEF SReply, OInv, Cur, Serves, fVars
  <2>2. /\ \A c : HasAsked(c)' <=> HasAsked(c)
        /\ \A c, d : Before(c, d)' <=> Before(c, d)
    BY <2>1, AskedSame
  <2>3. cur \in Client /\ resp[cur] = NoAnswer
    <3>1. cur \in Client
      BY <2>1 DEF Current
    <3>2. resp[cur] # NoAnswer => Before(cur, cur)
      BY <2>1, <3>1 DEF OInv, Ordered, Serves
    <3>3. QED
      BY <1>f, <3>1, <3>2, BeforeOnce
  <2>4. /\ \A c \in Client : c # cur => resp'[c] = resp[c]
        /\ resp'[cur] = IF cpc[cur] = "read" THEN <<life, seqNum>> ELSE NoAnswer
    BY <2>1, <2>3 DEF TypeOK
  <2>5. Once' /\ HasFifo' /\ Queued'
    BY <2>1, <2>2 DEF OInv, Once, HasFifo, Queued
  <2>6. Current'
    BY <2>1, <2>2, <2>4 DEF Current
  <2>7. Ordered'
    BY <2>1, <2>2, <2>4 DEF Ordered, OInv, Current
  <2>8. QED
    BY <2>5, <2>6, <2>7 DEF OInv, Cur
<1>6. ASSUME NEW c \in Client, CWrite(c), spc \in SOpened PROVE OInv'
  <2>1. /\ cpc[c] = "write" /\ queue' = Append(queue, c) /\ asked' = Append(asked, c)
        /\ cpc' = [cpc EXCEPT ![c] = "openC"]
        /\ UNCHANGED <<spc, cur, seqNum, cfifo, resp, life>>
    BY <1>6 DEF CWrite, sVars
  <2>2. /\ \A d : HasAsked(d)' <=> HasAsked(d) \/ d = c
        /\ \A d, e : Before(d, e) => Before(d, e)'
        /\ \A d : HasAsked(d) => Before(d, c)'
    BY <2>1, AskedMore
  <2>3. ~HasAsked(c)
    BY <1>f, <2>1 DEF Once
  <2>4. /\ Len(asked) \in Nat /\ Len(asked') = Len(asked) + 1 /\ asked'[Len(asked) + 1] = c
        /\ \A i \in 1..Len(asked) : asked'[i] = asked[i]
        /\ Len(queue) \in Nat /\ Len(queue') = Len(queue) + 1 /\ queue'[Len(queue) + 1] = c
        /\ \A i \in 1..Len(queue) : queue'[i] = queue[i] /\ queue[i] \in Client
    BY <2>1 DEF TypeOK
  <2>5. cpc'[c] = "openC" /\ \A d \in Client : d # c => cpc'[d] = cpc[d]
    BY <1>t, <2>1
  <2>6. Once'
    <3>1. \A i, j \in 1..Len(asked') : asked'[i] = asked'[j] => i = j
      <4>1. \A i : i \in 1..Len(asked') <=> i \in 1..Len(asked) \/ i = Len(asked) + 1
        BY <2>4
      <4>2. \A i \in 1..Len(asked) : asked'[i] # c
        BY <2>3, <2>4 DEF HasAsked
      <4>3. QED
        BY <1>f, <2>4, <4>1, <4>2 DEF Once
    <3>2. QED
      BY <1>f, <2>2, <2>5, <3>1 DEF Once
  <2>7. HasFifo'
    BY <1>f, <2>1, <2>5 DEF HasFifo, Ended
  <2>8. Queued'
    <3>1. Queued
      BY DEF OInv
    <3>2. ASSUME NEW m \in 1..Len(queue') PROVE m \in 1..Len(queue) \/ m = Len(queue) + 1
      BY <2>4
    <3>3. ASSUME NEW m \in 1..Len(queue')
          PROVE  HasAsked(queue[m])' /\ cpc'[queue'[m]] \in {"openC", "waitC", "killed"}
      BY <2>2, <2>4, <2>5, <3>1, <3>2 DEF Queued
    <3>4. ASSUME NEW m \in 1..Len(queue'), NEW n \in 1..Len(queue'), m < n
          PROVE  Before(queue[m], queue[n])'
      <4>1. m \in 1..Len(queue)
        BY <2>4, <3>2, <3>4
      <4>2. CASE n \in 1..Len(queue)
        BY <2>2, <2>4, <3>1, <3>4, <4>1, <4>2 DEF Queued
      <4>3. CASE n = Len(queue) + 1
        BY <2>2, <2>4, <3>1, <4>1, <4>3 DEF Queued
      <4>4. QED
        BY <3>2, <4>2, <4>3
    <3>5. QED
      BY <3>3, <3>4 DEF Queued
  <2>9. Cur'
    <3> SUFFICES ASSUME spc \in Serves PROVE Current'
      BY <2>1 DEF Cur
    <3>1. Current /\ cur # c
      BY <2>3 DEF OInv, Cur, Current
    <3>2. \A m \in 1..Len(queue') : Before(cur, queue[m])'
      <4>1. \A m \in 1..Len(queue') : m \in 1..Len(queue) \/ m = Len(queue) + 1
        BY <2>4
      <4>2. QED
        BY <2>1, <2>2, <2>4, <3>1, <4>1 DEF Current
    <3>3. QED
      BY <2>1, <2>2, <2>5, <3>1, <3>2 DEF Current
  <2>10. Ordered'
    <3> SUFFICES ASSUME NEW d \in Client, resp[d] # NoAnswer
                 PROVE  /\ HasAsked(d)'
                        /\ \A m \in 1..Len(queue') : Before(d, queue[m])'
                        /\ spc \in Serves \ {"close"} => Before(d, cur)'
      BY <2>1 DEF Ordered
    <3>1. /\ HasAsked(d) /\ \A m \in 1..Len(queue) : Before(d, queue[m])
          /\ spc \in Serves \ {"close"} => Before(d, cur)
      BY DEF OInv, Ordered
    <3>2. \A m \in 1..Len(queue') : m \in 1..Len(queue) \/ m = Len(queue) + 1
      BY <2>4
    <3>3. QED
      BY <2>1, <2>2, <2>4, <3>1, <3>2
  <2>11. QED
    BY <2>6, <2>7, <2>8, <2>9, <2>10 DEF OInv
<1>7. ASSUME NEW c \in Client, NEW how \in {"killed", "done"}, Leaves(c, how),
             how = "done" => cpc[c] = "printed" /\ cfifo' = cfifo \ {c},
             how = "killed" => cfifo' = cfifo,
             UNCHANGED <<spc, cur, seqNum, resp, life, asked>>
      PROVE  OInv'
  <2>1. /\ queue' = queue \/ queue' = <<>>
        /\ cpc'[c] = how /\ \A d \in Client : d # c => cpc'[d] = cpc[d]
    BY <1>7, <1>t DEF Leaves, Kept
  <2>2. HasFifo'
    BY <1>f, <1>7, <2>1 DEF HasFifo, Ended
  <2>3. spc \in Serves => Current
    BY DEF OInv, Cur
  <2>4. spc \in Serves => cur \in Client /\ (cpc'[cur] \in {cpc[cur], "killed"} \/ resp[cur] # NoAnswer)
                          /\ (spc # "close" => cpc'[cur] \in {cpc[cur], "killed"})
    BY <1>7, <2>1, <2>3 DEF Current, Serves, NoAnswer
  <2>5. QED
    BY <1>7, <2>1, <2>2, <2>4, CalmStep
<1>8. ASSUME NEW c \in Client, CMkfifo(c) \/ COpenServer(c) PROVE OInv'
  <2>1. /\ UNCHANGED <<cur, seqNum, resp, life, asked, queue>>
        /\ cpc[c] \in {"mkfifo", "openS"} /\ \A d \in Client : d # c => cpc'[d] = cpc[d]
        /\ spc' \in Serves => spc' = spc
        /\ cfifo \subseteq cfifo'
        /\ cpc[c] = "mkfifo" => c \in cfifo'
    BY <1>8, <1>t DEF CMkfifo, COpenServer, sVars, fVars, Serves
  <2>2. HasFifo'
    BY <1>f, <2>1 DEF HasFifo, Ended
  <2>3. spc \in Serves => cur # c
    BY <1>f, <2>1 DEF OInv, Cur, Current, Once
  <2>4. ~HasAsked(c)
    BY <1>f, <2>1 DEF Once
  <2>5. spc \in Serves => cur \in Client
    BY DEF OInv, Cur, Current
  <2>6. QED
    BY <2>1, <2>2, <2>3, <2>4, <2>5, CalmStep
<1>9. ASSUME NEW c \in Client, COpenOwn(c) PROVE OInv'
  <2>1. /\ cpc[c] = "openC" /\ UNCHANGED <<cur, seqNum, queue, cfifo, resp, life, asked>>
    BY <1>9 DEF COpenOwn, fVars
  <2>2. CASE ~(spc = "waitC" /\ cur = c)
    <3>1. spc' = spc /\ cpc'[c] = "waitC" /\ \A d \in Client : d # c => cpc'[d] = cpc[d]
      BY <1>9, <1>t, <2>2 DEF COpenOwn
    <3>2. HasFifo'
      BY <1>f, <2>1, <3>1 DEF HasFifo, Ended
    <3>3. spc \in Serves => Current
      BY DEF OInv, Cur
    <3>4. spc = "reply" \/ spc = "close" => cur # c \/ resp[cur] # NoAnswer
      BY <2>1, <3>3 DEF Current, Serves, NoAnswer
    <3>5. spc = "reply" => cur # c
      BY <2>1, <3>3 DEF Current, Serves
    <3>6. spc \in Serves => cur \in Client
      BY <3>3 DEF Current
    <3>7. QED
      BY <2>1, <2>2, <3>1, <3>2, <3>4, <3>5, <3>6, CalmStep
  <2>3. CASE spc = "waitC" /\ cur = c
    <3>1. spc' = "reply" /\ cpc'[c] = "read" /\ \A d \in Client : d # c => cpc'[d] = cpc[d]
      BY <1>9, <1>t, <2>3 DEF COpenOwn
    <3>2. /\ \A d : HasAsked(d)' <=> HasAsked(d)
          /\ \A d, e : Before(d, e)' <=> Before(d, e)
      BY <2>1, AskedSame
    <3>3. Current
      BY <2>3 DEF OInv, Cur, Serves
    <3>4. \A m \in 1..Len(queue) : queue[m] # c /\ queue[m] \in Client
      BY <2>3, <3>3, BeforeOnce, <1>f DEF Current, TypeOK
    <3>5. Once' /\ HasFifo'
      BY <1>f, <2>1, <3>1, <3>2 DEF Once, HasFifo, Ended
    <3>6. Queued'
      BY <2>1, <3>1, <3>2, <3>4 DEF Queued, OInv
    <3>7. Current'
      BY <2>1, <2>3, <3>1, <3>2, <3>3 DEF Current
    <3>8. Ordered'
      BY <2>1, <2>3, <3>1, <3>2 DEF Ordered, OInv, Serves
    <3>9. QED
      BY <3>5, <3>6, <3>7, <3>8 DEF OInv, Cur
  <2>4. QED
    BY <2>2, <2>3
<1>10. ASSUME NEW c \in Client, CRead(c) PROVE OInv'
  <2>1. /\ cpc[c] = "read" /\ UNCHANGED <<spc, cur, seqNum, queue, cfifo, resp, life, asked>>
        /\ resp[c] # NoAnswer \/ ~(spc = "reply" /\ cur = c)
        /\ cpc'[c] = "printed" /\ \A d \in Client : d # c => cpc'[d] = cpc[d]
    BY <1>10, <1>t DEF CRead, sVars, fVars
  <2>2. HasFifo'
    BY <1>f, <2>1 DEF HasFifo, Ended
  <2>3. spc \in Serves => Current
    BY DEF OInv, Cur
  <2>4. spc = "reply" => cur # c
    <3>1. resp[cur] # NoAnswer /\ spc = "reply" => Before(cur, cur)
      BY <2>3 DEF OInv, Ordered, Current, Serves
    <3>2. QED
      BY <1>f, <2>1, <3>1, BeforeOnce
  <2>5. spc \in Serves => cur \in Client /\ (cur # c \/ (spc = "close" /\ resp[cur] # NoAnswer))
    BY <2>1, <2>3, <2>4 DEF Current, Serves, NoAnswer
  <2>6. QED
    BY <2>1, <2>2, <2>5, CalmStep
<1>11. ASSUME NEW c \in Client, Tidy(c) PROVE OInv'
  <2>1. /\ UNCHANGED <<spc, cur, seqNum, queue, cpc, resp, life, asked>>
        /\ cpc[c] \in Ended /\ cfifo' = cfifo \ {c}
    BY <1>11 DEF Tidy, sVars, fVars, Ended
  <2>2. HasFifo'
    BY <1>f, <2>1 DEF HasFifo
  <2>3. QED
    BY <2>1, <2>2, CalmStep
<1>12. ASSUME NEW c \in Client, ClientStep(c) \/ CKill(c) PROVE OInv'
  <2>1. CASE CWrite(c) /\ spc \notin SOpened
    BY <1>7, <2>1 DEF CWrite, sVars
  <2>2. CASE CExit(c)
    BY <1>7, <2>2 DEF CExit, sVars
  <2>3. CASE CKill(c)
    BY <1>7, <2>3 DEF CKill, sVars
  <2>4. QED
    BY <1>6, <1>8, <1>9, <1>10, <1>12, <2>1, <2>2, <2>3 DEF ClientStep
<1>13. QED
  BY <1>1, <1>2, <1>3, <1>4, <1>5, <1>11, <1>12 DEF Next, Server

\* Within a run of the server, who asked first has the smaller number: a client
\* that is answered asked after all who have an answer, and gets seqNum.
THEOREM FirstComeFirst == Spec => []RequestOrder
<1>1. Init => OInv /\ UInv /\ RequestOrder
  BY DEF Init, OInv, Once, HasFifo, Queued, Cur, Ordered, HasAsked, Serves, UInv, Unique, RequestOrder
<1>2. TypeOK /\ OInv /\ UInv /\ RequestOrder /\ [Next]_vars => RequestOrder'
  <2> SUFFICES ASSUME TypeOK, OInv, UInv, RequestOrder, [Next]_vars PROVE RequestOrder'
    OBVIOUS
  <2>1. CASE UNCHANGED <<asked, resp>>
    BY <2>1 DEF RequestOrder
  <2>2. CASE SReply
    <3>1. /\ Current /\ spc = "reply" /\ asked' = asked
          /\ resp' = IF cpc[cur] = "read" THEN [resp EXCEPT ![cur] = <<life, seqNum>>] ELSE resp
      BY <2>2 DEF SReply, OInv, Cur, Serves
    <3>2. cur \in Client /\ HasAsked(cur) /\ Once
      BY <3>1 DEF Current, OInv
    <3>3. \A c \in Client : resp[c] # NoAnswer => Before(c, cur)
      BY <3>1 DEF OInv, Ordered, Serves
    <3>4. \A c \in Client : (resp[c] # NoAnswer /\ resp[c][1] = life) => resp[c][2] < seqNum
      BY <3>1 DEF UInv, Issued, TypeOK, Answer, NoAnswer
    <3>5. \A c \in Client : c # cur => resp'[c] = resp[c]
      BY <3>1, <3>2 DEF TypeOK
    <3>6. resp'[cur] = <<life, seqNum>> \/ resp' = resp
      BY <3>1, <3>2 DEF TypeOK
    <3>7. CASE resp' = resp
      BY <2>1, <3>1, <3>7
    <3>8. CASE resp'[cur] = <<life, seqNum>>
      <4> SUFFICES ASSUME NEW i \in 1..Len(asked), NEW j \in 1..Len(asked), i < j,
                          resp'[asked[i]] # NoAnswer, resp'[asked[j]] # NoAnswer,
                          resp'[asked[i]][1] = resp'[asked[j]][1]
                   PROVE  resp'[asked[i]][2] < resp'[asked[j]][2]
        BY <3>1 DEF RequestOrder
      <4>1. asked[i] \in Client /\ asked[j] \in Client /\ asked[i] # asked[j]
        BY <3>2 DEF TypeOK, Once
      <4>2. CASE asked[j] = cur
        BY <3>4, <3>5, <3>8, <4>1, <4>2
      <4>3. CASE asked[i] = cur
        <5>1. Before(asked[j], cur) /\ Before(cur, asked[j])
          BY <3>3, <3>5, <4>1, <4>3 DEF Before
        <5>2. QED
          BY <3>2, <5>1, BeforeOnce
      <4>4. CASE asked[i] # cur /\ asked[j] # cur
        BY <3>5, <4>1, <4>4 DEF RequestOrder
      <4>5. QED
        BY <4>2, <4>3, <4>4
    <3>9. QED
      BY <3>6, <3>7, <3>8
  <2>3. ASSUME NEW c \in Client, asked' = Append(asked, c), resp' = resp, ~HasAsked(c)
        PROVE  RequestOrder'
    <3>1. resp[c] = NoAnswer
      BY <2>3 DEF OInv, Ordered
    <3>2. /\ Len(asked) \in Nat /\ Len(asked') = Len(asked) + 1 /\ asked'[Len(asked) + 1] = c
          /\ \A i \in 1..Len(asked) : asked'[i] = asked[i]
      BY <2>3 DEF TypeOK
    <3>3. \A i : i \in 1..Len(asked') <=> i \in 1..Len(asked) \/ i = Len(asked) + 1
      BY <3>2
    <3>4. QED
      BY <2>3, <3>1, <3>2, <3>3 DEF RequestOrder
  <2>4. ASSUME NEW c \in Client, ClientStep(c) \/ CKill(c) \/ Tidy(c) PROVE RequestOrder'
    <3>1. CASE CWrite(c) /\ asked' # asked
      <4>1. asked' = Append(asked, c) /\ resp' = resp /\ cpc[c] = "write"
        BY <3>1 DEF CWrite
      <4>2. ~HasAsked(c)
        BY <4>1 DEF OInv, Once
      <4>3. QED
        BY <2>3, <4>1, <4>2
    <3>2. CASE ~(CWrite(c) /\ asked' # asked)
      <4>1. UNCHANGED <<asked, resp>>
        BY <2>4, <3>2 DEF ClientStep, CMkfifo, COpenServer, CWrite, COpenOwn, CRead, CExit, CKill, Tidy
      <4>2. QED
        BY <2>1, <4>1
    <3>3. QED
      BY <3>1, <3>2
  <2>5. CASE SMkfifo \/ SOpenRead \/ SOpenDummy \/ SRead \/ SOpenClient \/ SClose \/ SKill
             \/ UNCHANGED vars
    BY <2>1, <2>5 DEF SMkfifo, SOpenRead, SOpenDummy, SRead, SOpenClient, SClose, SKill, vars, cVars
  <2>6. QED
    BY <2>2, <2>4, <2>5 DEF Next, Server
<1>3. QED
  BY <1>1, <1>2, OrderStep, UniqueStep, TypeCorrect, PTL DEF Spec

-----------------------------------------------------------------------------
(***************************************************************************)
(* What a client reads, and what becomes of the numbers.                   *)
(***************************************************************************)

\* Until the server that opened its FIFO is killed, a client that got through
\* open() has an answer, or the server is about to write it.
ReadInv == /\ \A c \in Client : (cpc[c] = "read" /\ life = opened[c]) =>
                 resp[c] # NoAnswer \/ (spc = "reply" /\ cur = c)
           /\ \A c \in Client : opened[c] <= life
           /\ NoGarbage

LEMMA ReadStep == TypeOK /\ ReadInv /\ [Next]_vars => ReadInv'
<1> SUFFICES ASSUME TypeOK, ReadInv, [Next]_vars PROVE ReadInv'
  OBVIOUS
<1> USE DEF ReadInv, NoGarbage
<1>t. /\ cpc \in [Client -> {"mkfifo", "openS", "waitS", "write", "openC", "waitC",
                            "read", "printed"} \cup Ended]
      /\ resp \in [Client -> {NoAnswer} \cup Answer] /\ life \in Nat
      /\ opened \in [Client -> Nat]
  BY ClientAssumption DEF TypeOK, ClientAssumption
<1>1. CASE SKill
  <2>1. life' = life + 1 /\ UNCHANGED <<cpc, resp, opened>>
    BY <1>1 DEF SKill, cVars
  <2>2. \A c \in Client : opened[c] \in Nat /\ opened[c] <= life
    BY <1>t
  <2>3. \A c \in Client : opened[c] < life'
    BY <1>t, <2>1, <2>2
  <2>4. QED
    BY <2>1, <2>2, <2>3, <1>t
<1>2. CASE SReply
  <2>1. /\ spc = "reply" /\ UNCHANGED <<cur, cpc, life, opened>>
        /\ resp' = IF cpc[cur] = "read" THEN [resp EXCEPT ![cur] = <<life, seqNum>>] ELSE resp
    BY <1>2 DEF SReply
  <2>2. \A c \in Client : resp'[c] = resp[c] \/ (c = cur /\ resp'[c] # NoAnswer)
    BY <1>t, <2>1 DEF NoAnswer
  <2>3. \A c \in Client : c = cur /\ cpc[c] = "read" => resp'[c] # NoAnswer
    BY <1>t, <2>1 DEF NoAnswer
  <2>4. QED
    BY <2>1, <2>2, <2>3
<1>3. CASE SOpenClient
  <2>1. spc = "open" /\ UNCHANGED <<cur, resp, life>>
    BY <1>3 DEF SOpenClient
  <2>2. CASE UNCHANGED <<cpc, opened>>
    BY <2>1, <2>2
  <2>3. CASE /\ cpc[cur] = "waitC" /\ spc' = "reply"
             /\ cpc' = [cpc EXCEPT ![cur] = "read"] /\ opened' = [opened EXCEPT ![cur] = life]
    <3>1. \A c \in Client : \/ cpc'[c] = cpc[c] /\ opened'[c] = opened[c]
                            \/ c = cur /\ cpc'[c] = "read" /\ opened'[c] = life
      BY <1>t, <2>3
    <3>2. QED
      BY <1>t, <2>1, <2>3, <3>1
  <2>4. CASE cpc[cur] = "waitC"
    BY <1>3, <2>2, <2>3, <2>4 DEF SOpenClient
  <2>5. CASE cpc[cur] # "waitC"
    <3>1. cpc' = cpc \/ cpc' = [cpc EXCEPT ![cur] = cpc[cur]]
      BY <1>3, <2>5 DEF SOpenClient
    <3>2. [cpc EXCEPT ![cur] = cpc[cur]] = cpc
      BY <1>t
    <3>3. opened' = opened
      BY <1>3, <2>5 DEF SOpenClient
    <3>4. QED
      BY <2>2, <3>1, <3>2, <3>3
  <2>6. QED
    BY <2>4, <2>5
<1>4. CASE SMkfifo \/ SOpenRead \/ SOpenDummy \/ SRead \/ SClose
  <2>1. /\ UNCHANGED <<resp, life, opened>> /\ spc # "reply"
        /\ \A c \in Client : cpc'[c] = cpc[c] \/ cpc'[c] = "write"
    BY <1>4 DEF SMkfifo, SOpenRead, SOpenDummy, SRead, SClose, cVars
  <2>2. QED
    BY <2>1
<1>5. ASSUME NEW c \in Client, ClientStep(c) \/ CKill(c) \/ Tidy(c) PROVE ReadInv'
  <2>1. UNCHANGED <<resp, life, cur>>
    BY <1>5 DEF ClientStep, CMkfifo, COpenServer, CWrite, COpenOwn, CRead, CExit, CKill, Tidy, sVars
  <2>2. /\ spc = "reply" => spc' = "reply"
        /\ \A d \in Client : d # c => cpc'[d] = cpc[d]
    BY <1>5, <1>t DEF ClientStep, CMkfifo, COpenServer, CWrite, COpenOwn, CRead, CExit, CKill, Tidy,
                      Leaves, sVars
  <2>3. /\ cpc'[c] = "read" => cpc[c] = "read" \/ (spc' = "reply" /\ cur = c)
        /\ cpc'[c] = "printed" => /\ cpc[c] \in {"read", "printed"}
                                  /\ cpc[c] = "read" => resp[c] # NoAnswer \/ ~(spc = "reply" /\ cur = c)
        /\ cpc'[c] = "done" => cpc[c] \in {"printed", "done"}
    BY <1>5, <1>t DEF ClientStep, CMkfifo, COpenServer, CWrite, COpenOwn, CRead, CExit, CKill, Tidy,
                      Leaves, sVars
  <2>4. \/ opened' = opened
        \/ opened' = [opened EXCEPT ![c] = life] /\ cpc'[c] = "read" /\ spc' = "reply" /\ cur = c
    <3>1. CASE COpenOwn(c)
      BY <1>t, <3>1 DEF COpenOwn
    <3>2. CASE ~COpenOwn(c)
      BY <1>5, <3>2 DEF ClientStep, CMkfifo, COpenServer, CWrite, CRead, CExit, CKill, Tidy
    <3>3. QED
      BY <3>1, <3>2
  <2>5. \A d \in Client : /\ opened'[d] = opened[d] \/ opened'[d] = life
                          /\ opened'[d] # opened[d] => d = c
    BY <1>t, <2>4
  <2>6. ASSUME NEW d \in Client PROVE opened'[d] <= life'
    <3>1. opened[d] <= life /\ life \in Nat
      BY <1>t
    <3>2. QED
      BY <2>1, <2>5, <3>1
  <2>7. ASSUME NEW d \in Client, cpc'[d] = "read", life = opened'[d]
        PROVE  resp[d] # NoAnswer \/ (spc' = "reply" /\ cur = d)
    <3>1. CASE cpc[d] = "read" /\ opened'[d] = opened[d]
      BY <2>2, <2>7, <3>1
    <3>2. CASE cpc[d] # "read"
      BY <2>2, <2>3, <2>7, <3>2
    <3>3. CASE opened'[d] # opened[d]
      BY <2>4, <2>5, <3>3
    <3>4. QED
      BY <3>1, <3>2, <3>3
  <2>8. ASSUME NEW d \in Client, cpc'[d] \in {"printed", "done"}, resp[d] = NoAnswer
        PROVE  life > opened'[d]
    <3>0. opened'[d] = opened[d]
      BY <2>4, <2>5, <2>8
    <3>1. CASE cpc[d] \in {"printed", "done"}
      BY <2>8, <3>0, <3>1
    <3>2. CASE cpc[d] \notin {"printed", "done"}
      <4>0. d = c
        BY <2>2, <2>8, <3>2
      <4>1. cpc[d] = "read" /\ ~(spc = "reply" /\ cur = d)
        <5>1. cpc'[c] = "printed"
          BY <2>3, <2>8, <3>2, <4>0
        <5>2. QED
          BY <2>3, <2>8, <3>2, <4>0, <5>1
      <4>2. life # opened[d]
        BY <2>8, <4>1
      <4>3. life \in Nat /\ opened[d] \in Nat /\ opened[d] <= life
        BY <1>t
      <4>4. QED
        BY <3>0, <4>2, <4>3
    <3>3. QED
      BY <3>1, <3>2
  <2>9. QED
    BY <2>1, <2>6, <2>7, <2>8
<1>6. CASE UNCHANGED vars
  BY <1>6 DEF vars, sVars, cVars
<1>7. QED
  BY <1>1, <1>2, <1>3, <1>4, <1>5, <1>6 DEF Next, Server

\* Only a client that has outlived the run of the server that opened its FIFO
\* prints an uninitialised response.
THEOREM GarbageFree == Spec => []NoGarbage
<1>1. Init => ReadInv
  BY DEF Init, ReadInv, NoGarbage
<1>2. ReadInv => NoGarbage
  BY DEF ReadInv
<1>3. QED
  BY <1>1, <1>2, ReadStep, TypeCorrect, PTL DEF Spec

-----------------------------------------------------------------------------
(***************************************************************************)
(* The numbers nobody received: each of them was counted for a killed      *)
(* client, and each killed client was passed over at most once.            *)
(***************************************************************************)
InQueue(c) == \E m \in 1..Len(queue) : queue[m] = c

\* The killed clients whose request was read and left without an answer.
Spent == {c \in Dead : /\ HasAsked(c) /\ resp[c] = NoAnswer
                       /\ ~InQueue(c) /\ ~(spc \in Serves /\ cur = c)}

GapInv == Cardinality(Skipped) <= Cardinality(Spent)

LEMMA SpentGrows == TypeOK /\ OInv /\ [Next]_vars => Spent \subseteq Spent'
<1> SUFFICES ASSUME TypeOK, OInv, [Next]_vars, NEW c \in Spent PROVE c \in Spent'
  OBVIOUS
<1>1. /\ c \in Client /\ cpc[c] = "killed" /\ HasAsked(c) /\ resp[c] = NoAnswer
      /\ ~InQueue(c) /\ ~(spc \in Serves /\ cur = c)
  BY DEF Spent, Dead
<1>t. /\ cpc \in [Client -> {"mkfifo", "openS", "waitS", "write", "openC", "waitC",
                            "read", "printed"} \cup Ended]
      /\ resp \in [Client -> {NoAnswer} \cup Answer] /\ queue \in Seq(Client)
  BY DEF TypeOK
<1>2. cpc'[c] = "killed"
  BY <1>1, <1>t DEF Next, Server, SMkfifo, SOpenRead, SOpenDummy, SRead, SOpenClient, SReply, SClose,
       SKill, ClientStep, CMkfifo, COpenServer, CWrite, COpenOwn, CRead, CExit, CKill, Tidy, Leaves,
       Ended, vars, cVars
<1>3. HasAsked(c)'
  <2>1. CASE asked' = asked
    BY <1>1, <2>1, AskedSame
  <2>2. CASE \E d \in Client : asked' = Append(asked, d)
    BY <1>1, <2>2, AskedMore
  <2>3. QED
    BY <2>1, <2>2 DEF Next, Server, SMkfifo, SOpenRead, SOpenDummy, SRead, SOpenClient, SReply, SClose,
       SKill, ClientStep, CMkfifo, COpenServer, CWrite, COpenOwn, CRead, CExit, CKill, Tidy, vars
<1>4. resp'[c] = NoAnswer
  <2>1. CASE resp' = resp
    BY <1>1, <2>1
  <2>2. CASE SReply
    BY <1>1, <1>t, <2>2 DEF SReply, Serves
  <2>3. QED
    BY <2>1, <2>2 DEF Next, Server, SMkfifo, SOpenRead, SOpenDummy, SRead, SOpenClient, SClose,
       SKill, ClientStep, CMkfifo, COpenServer, CWrite, COpenOwn, CRead, CExit, CKill, Tidy, vars, cVars
<1>5. ~InQueue(c)'
  <2>1. CASE queue' = queue \/ queue' = <<>>
    BY <1>1, <2>1 DEF InQueue
  <2>2. CASE SRead
    <3>1. Len(queue') = Len(queue) - 1 /\ Len(queue) \in Nat
          /\ \A m \in 1..Len(queue') : queue'[m] = queue[m + 1]
      BY <1>t, <2>2 DEF SRead
    <3>2. \A m \in 1..Len(queue') : m + 1 \in 1..Len(queue)
      BY <3>1
    <3>3. QED
      BY <1>1, <3>1, <3>2 DEF InQueue
  <2>3. ASSUME NEW d \in Client, CWrite(d), queue' = Append(queue, d) PROVE ~InQueue(c)'
    <3>1. d # c
      BY <1>1, <2>3 DEF CWrite
    <3>2. /\ Len(queue) \in Nat /\ Len(queue') = Len(queue) + 1 /\ queue'[Len(queue) + 1] = d
          /\ \A m \in 1..Len(queue) : queue'[m] = queue[m]
      BY <1>t, <2>3
    <3>3. \A m \in 1..Len(queue') : m \in 1..Len(queue) \/ m = Len(queue) + 1
      BY <3>2
    <3>4. QED
      BY <1>1, <3>1, <3>2, <3>3 DEF InQueue
  <2>4. QED
    BY <2>1, <2>2, <2>3 DEF Next, Server, SMkfifo, SOpenRead, SOpenDummy, SOpenClient, SReply, SClose,
       SKill, ClientStep, CMkfifo, COpenServer, CWrite, COpenOwn, CRead, CExit, CKill, Tidy, Leaves,
       Kept, vars, fVars
<1>6. ~(spc' \in Serves /\ cur' = c)
  <2>1. CASE SRead
    <3>1. queue \in Seq(Client) /\ queue # <<>> /\ cur' = queue[1]
      BY <1>t, <2>1 DEF SRead
    <3>2. 1 \in 1..Len(queue)
      BY <3>1
    <3>3. QED
      BY <1>1, <3>1, <3>2 DEF InQueue
  <2>2. CASE cur' = cur /\ (spc' \in Serves => spc \in Serves)
    BY <1>1, <2>2
  <2>3. CASE spc' \notin Serves
    BY <2>3
  <2>4. QED
    BY <2>1, <2>2, <2>3 DEF Next, Server, SMkfifo, SOpenRead, SOpenDummy, SOpenClient, SReply, SClose,
       SKill, ClientStep, CMkfifo, COpenServer, CWrite, COpenOwn, CRead, CExit, CKill, Tidy,
       vars, sVars, Serves
<1>7. QED
  BY <1>1, <1>2, <1>3, <1>4, <1>5, <1>6 DEF Spent, Dead

\* A number is counted for the client that has it, or for one that is spent now.
LEMMA CountedFor ==
  ASSUME TypeOK, OInv, SOpenClient \/ SClose, seqNum' # seqNum
  PROVE  \/ resp[cur] = <<life, seqNum>>
         \/ cur \in Spent' /\ cur \notin Spent
<1> SUFFICES ASSUME resp[cur] # <<life, seqNum>> PROVE cur \in Spent' /\ cur \notin Spent
  OBVIOUS
<1>1. /\ spc \in {"open", "close"} /\ spc' = "read" /\ UNCHANGED <<cur, cpc, resp, queue, asked>>
      /\ spc = "open" => cur \notin cfifo
  BY DEF SOpenClient, SClose, cVars, fVars
<1>2. Current
  BY <1>1 DEF OInv, Cur, Serves
<1>3. cur \in Client /\ HasAsked(cur)'
  BY <1>1, <1>2, AskedSame DEF Current
<1>4. cpc[cur] = "killed"
  BY <1>1, <1>2 DEF Current, OInv, HasFifo, Ended
<1>5. \A m \in 1..Len(queue) : queue[m] # cur
  BY <1>2, BeforeOnce DEF Current, OInv
<1>6. resp[cur] = NoAnswer
  <2>1. CASE spc = "close"
    BY <1>2, <2>1 DEF Current
  <2>2. CASE spc = "open"
    <3>1. resp[cur] # NoAnswer => Before(cur, cur)
      BY <1>3, <2>2 DEF OInv, Ordered, Serves
    <3>2. QED
      BY <3>1, BeforeOnce DEF OInv
  <2>3. QED
    BY <1>1, <2>1, <2>2
<1>7. QED
  BY <1>1, <1>3, <1>4, <1>5, <1>6 DEF Spent, Dead, InQueue, Serves

LEMMA GapStep == TypeOK /\ OInv /\ GapInv /\ [Next]_vars => GapInv'
<1> SUFFICES ASSUME TypeOK, OInv, GapInv, [Next]_vars PROVE GapInv'
  OBVIOUS
<1> DEFINE C == Cardinality(Skipped)  D == Cardinality(Spent)
           C1 == Cardinality(Skipped')  D1 == Cardinality(Spent')
<1>1. /\ IsFiniteSet(Skipped) /\ IsFiniteSet(Skipped') /\ IsFiniteSet(Spent) /\ IsFiniteSet(Spent')
      /\ C \in Nat /\ D \in Nat /\ C1 \in Nat /\ D1 \in Nat
  <2>1. Spent \subseteq Client /\ Spent' \subseteq Client
    BY DEF Spent, Dead
  <2>2. seqNum \in Nat /\ seqNum' \in Nat
    BY TypeStep DEF TypeOK
  <2>3. IsFiniteSet(0..(seqNum - 1)) /\ IsFiniteSet(0..(seqNum' - 1))
    <3>1. 0 \in Int /\ seqNum - 1 \in Int /\ seqNum' - 1 \in Int
      BY <2>2
    <3>2. QED
      BY <3>1, FS_Interval
  <2>4. Skipped \subseteq 0..(seqNum - 1) /\ Skipped' \subseteq 0..(seqNum' - 1)
    BY DEF Skipped
  <2>5. IsFiniteSet(Skipped) /\ IsFiniteSet(Skipped') /\ IsFiniteSet(Spent) /\ IsFiniteSet(Spent')
    BY <2>1, <2>3, <2>4, FS_Subset, ClientAssumption DEF ClientAssumption
  <2>6. QED
    BY <2>5, FS_CardinalityType
<1>2. D <= D1
  BY <1>1, SpentGrows, FS_Subset
<1>3. C <= D
  BY DEF GapInv
<1>4. CASE Skipped' \subseteq Skipped
  <2>1. C1 <= C
    BY <1>1, <1>4, FS_Subset
  <2>2. C1 <= D1
    BY <1>1, <1>2, <1>3, <2>1
  <2>3. QED
    BY <2>2 DEF GapInv
<1>5. CASE (SOpenClient \/ SClose) /\ seqNum' # seqNum /\ resp[cur] # <<life, seqNum>>
  <2>1. cur \in Spent' /\ cur \notin Spent
    BY <1>5, CountedFor
  <2>2. D + 1 <= D1
    <3>1. IsFiniteSet(Spent \cup {cur}) /\ Cardinality(Spent \cup {cur}) = D + 1
      BY <1>1, <2>1, FS_AddElement
    <3>2. Spent \cup {cur} \subseteq Spent'
      BY <2>1, SpentGrows
    <3>3. QED
      BY <1>1, <3>1, <3>2, FS_Subset
  <2>3. C1 <= C + 1
    <3>1. seqNum' = seqNum + 1 /\ UNCHANGED <<resp, life>>
      BY <1>5 DEF SOpenClient, SClose, Count, cVars
    <3>2. Skipped' \subseteq Skipped \cup {seqNum}
      BY <3>1 DEF Skipped, TypeOK
    <3>3. /\ IsFiniteSet(Skipped \cup {seqNum})
          /\ Cardinality(Skipped \cup {seqNum}) \in {C, C + 1}
      BY <1>1, FS_AddElement
    <3>4. C1 <= Cardinality(Skipped \cup {seqNum})
      BY <1>1, <3>2, <3>3, FS_Subset
    <3>5. QED
      BY <1>1, <3>3, <3>4
  <2>4. C1 <= D1
    BY <1>1, <1>3, <2>2, <2>3
  <2>5. QED
    BY <2>4 DEF GapInv
<1>6. CASE (SOpenClient \/ SClose) /\ seqNum' # seqNum /\ resp[cur] = <<life, seqNum>>
  <2>1. seqNum' = seqNum + 1 /\ UNCHANGED <<resp, life>>
    BY <1>6 DEF SOpenClient, SClose, Count, cVars
  <2>2. cur \in Client
    BY <1>6 DEF SOpenClient, SClose, OInv, Cur, Current, Serves
  <2>3. seqNum \in Nat
    BY DEF TypeOK
  <2>4. Skipped' \subseteq Skipped
    <3> SUFFICES ASSUME NEW n \in Skipped' PROVE n \in Skipped
      OBVIOUS
    <3>1. n \in 0..seqNum /\ \A c \in Client : resp[c] # <<life, n>>
      BY <2>1, <2>3 DEF Skipped
    <3>2. n # seqNum
      BY <1>6, <2>2, <3>1
    <3>3. n \in 0..(seqNum - 1)
      BY <2>3, <3>1, <3>2
    <3>4. QED
      BY <3>1, <3>3 DEF Skipped
  <2>5. QED
    BY <1>4, <2>4
<1>7. CASE SReply
  <2>1. /\ Current /\ spc = "reply" /\ UNCHANGED <<life, seqNum>>
        /\ resp' = IF cpc[cur] = "read" THEN [resp EXCEPT ![cur] = <<life, seqNum>>] ELSE resp
    BY <1>7 DEF SReply, OInv, Cur, Serves
  <2>2. cur \in Client /\ resp[cur] = NoAnswer
    <3>1. cur \in Client
      BY <2>1 DEF Current
    <3>2. resp[cur] # NoAnswer => Before(cur, cur)
      BY <2>1, <3>1 DEF OInv, Ordered, Serves
    <3>3. QED
      BY <3>1, <3>2, BeforeOnce DEF OInv
  <2>3. \A c \in Client : resp'[c] = resp[c] \/ resp[c] = NoAnswer
    BY <2>1, <2>2 DEF TypeOK
  <2>4. Skipped' \subseteq Skipped
    BY <2>1, <2>3 DEF Skipped, NoAnswer
  <2>5. QED
    BY <1>4, <2>4
<1>8. CASE SKill
  <2>1. Skipped' = {}
    BY <1>8 DEF SKill, Skipped
  <2>2. QED
    BY <1>4, <2>1
<1>9. CASE UNCHANGED <<seqNum, life, resp>>
  BY <1>4, <1>9 DEF Skipped
<1>10. QED
  BY <1>5, <1>6, <1>7, <1>8, <1>9 DEF Next, Server, SMkfifo, SOpenRead, SOpenDummy, SRead, SOpenClient,
       SClose, ClientStep, CMkfifo, COpenServer, CWrite, COpenOwn, CRead, CExit, CKill, Tidy,
       vars, sVars, cVars

\* A number that nobody received belongs to a client that was killed: there are
\* never more of them than the killed clients that the server passed over.
THEOREM GapsOfTheDead == Spec => []GapsAreDead
<1>1. Init => OInv /\ GapInv
  <2> SUFFICES ASSUME Init PROVE OInv /\ GapInv
    OBVIOUS
  <2>1. OInv
    BY DEF Init, OInv, Once, HasFifo, Queued, Cur, Ordered, HasAsked, Serves
  <2>2. Skipped = {} /\ Spent = {}
    BY DEF Init, Skipped, Spent, Dead
  <2>3. QED
    BY <2>1, <2>2, FS_EmptySet DEF GapInv
<1>2. TypeOK /\ OInv /\ GapInv => GapsAreDead
  <2> SUFFICES ASSUME TypeOK, GapInv PROVE GapsAreDead
    OBVIOUS
  <2>1. IsFiniteSet(Dead) /\ Spent \subseteq Dead
    BY FS_Subset, ClientAssumption DEF ClientAssumption, Dead, Spent
  <2>2. Cardinality(Spent) <= Cardinality(Dead)
    BY <2>1, FS_Subset
  <2>3. IsFiniteSet(Skipped)
    <3>1. 0 \in Int /\ seqNum - 1 \in Int
      BY DEF TypeOK
    <3>2. IsFiniteSet(0..(seqNum - 1))
      BY <3>1, FS_Interval
    <3>3. QED
      BY <3>2, FS_Subset DEF Skipped
  <2>4. /\ Cardinality(Skipped) \in Nat /\ Cardinality(Spent) \in Nat
        /\ Cardinality(Dead) \in Nat
    BY <2>1, <2>3, FS_Subset, FS_CardinalityType
  <2>5. QED
    BY <2>2, <2>4 DEF GapInv, GapsAreDead
<1>3. QED
  BY <1>1, <1>2, OrderStep, GapStep, TypeCorrect, PTL DEF Spec

-----------------------------------------------------------------------------
(* The threads of uname in posix_sem_demo.                                  *)

\* A thread has been let through; it has counted.
In(t) == IF tpc[t] \in {"load", "store", "over"} THEN 1 ELSE 0
Counted(t) == IF tpc[t] = "over" THEN 1 ELSE 0

Starting == {"init", "t1", "t2", "post1"}
Posted == {"join1", "join2", "print", "destroy"} \cup Stopped

\* The first post lets one thread through, and the second comes when that one,
\* or one before it, has counted, unless it was slow.
CountInv ==
  /\ usem \in Int /\ glob \in Nat /\ reg \in [Thread -> Nat]
  /\ tpc \in [Thread -> {"none", "refused", "wait", "load", "store", "over"}]
  /\ upc \in Starting \cup {"post2"} \cup Posted
  /\ upc \in Starting => /\ \A t \in Thread : tpc[t] \in {"none", "wait", "refused"}
                         /\ upc # "init" => usem = 0
                         /\ glob = 0 /\ slow = FALSE
  /\ upc = "init" => \A t \in Thread : tpc[t] = "none"
  /\ upc = "t2" => tpc["t1"] # "none"
  /\ upc \notin {"init", "t1", "t2"} => \A t \in Thread : tpc[t] # "none"
  /\ upc = "post2" => usem >= 0 /\ usem + In("t1") + In("t2") = 1
  /\ upc \in Posted /\ ~slow => \E t \in Thread : tpc[t] = "over"
  /\ upc \in {"join2", "print", "destroy", "end"} => tpc["t1"] \in {"over", "refused"}
  /\ upc \in {"print", "destroy", "end"} => tpc["t2"] \in {"over", "refused"}
  /\ upc = "post2" => slow = FALSE
  /\ ~slow => /\ glob = Counted("t1") + Counted("t2")
              /\ \A t \in Thread : tpc[t] = "store" => reg[t] = glob

LEMMA CountStep == CountInv /\ [NamedNext \/ UnameNext]_semVars => CountInv'
<1> SUFFICES ASSUME CountInv, [NamedNext \/ UnameNext]_semVars PROVE CountInv'
  OBVIOUS
<1> USE DEF CountInv, In, Counted, Starting, Posted, Stopped, Thread, namedVars
<1>1. CASE UNCHANGED unameVars
  BY <1>1 DEF unameVars
<1>2. CASE USemInit
  BY <1>2 DEF USemInit, UGoto
<1>3. ASSUME NEW t \in Thread, UThread(t) PROVE CountInv'
  BY <1>3 DEF UThread, UGoto
<1>4. CASE UPost
  <2>1. usem' = usem + 1 /\ UNCHANGED <<glob, tpc, reg, namedVars>>
    BY <1>4 DEF UPost
  <2>2. CASE upc = "post1" /\ upc' = "post2" /\ slow' = slow
    <3>1. usem = 0 /\ slow = FALSE /\ \A t \in Thread : tpc[t] \in {"wait", "refused"}
      BY <2>2
    <3>2. In("t1") = 0 /\ In("t2") = 0
      BY <3>1
    <3>3. usem' = 1 /\ In("t1")' = 0 /\ In("t2")' = 0
      BY <2>1, <3>1, <3>2
    <3>4. QED
      BY <2>1, <2>2, <3>1, <3>3
  <2>3. CASE upc = "post2" /\ upc' = "join1" /\ slow' = (\A t \in Thread : tpc[t] # "over")
    <3>1. ~slow' => \E t \in Thread : tpc'[t] = "over"
      BY <2>1, <2>3
    <3>2. \/ slow' = TRUE
          \/ slow' = FALSE /\ \E t \in Thread : tpc[t] = "over"
      BY <2>3
    <3>3. slow = FALSE
      BY <2>3
    <3>4. QED
      BY <2>1, <2>3, <3>1, <3>2, <3>3
  <2>4. QED
    BY <1>4, <2>2, <2>3 DEF UPost, UGoto
<1>5. ASSUME NEW t \in Thread, UJoin(t) PROVE CountInv'
  BY <1>5 DEF UJoin
<1>6. CASE UPrint
  BY <1>6 DEF UPrint, UGoto
<1>7. CASE UDestroy
  BY <1>7 DEF UDestroy, UGoto
<1>8. ASSUME NEW t \in Thread, TWait(t) PROVE CountInv'
  BY <1>8 DEF TWait, TGoto
<1>9. ASSUME NEW t \in Thread, TLoad(t) PROVE CountInv'
  BY <1>9 DEF TLoad, TGoto
<1>10. ASSUME NEW t \in Thread, TStore(t) PROVE CountInv'
  BY <1>10 DEF TStore, TGoto
<1>11. NamedNext \/ UNCHANGED semVars => UNCHANGED unameVars
  BY DEF NamedNext, WaiterStep, PosterStep, Create, Unlink, WGettime, Deadline, NOpen,
         WTimedwait, NPost, semVars, unameVars
<1>12. QED
  BY <1>1, <1>2, <1>3, <1>4, <1>5, <1>6, <1>7, <1>8, <1>9, <1>10, <1>11
     DEF UnameNext, MainStep, ThreadStep

\* For any other processes on the named semaphore, and whichever threads cannot
\* be created: unless the first thread was slow, uname prints the number of its
\* threads, though nothing but the two posts guards the counter.
THEOREM CountExact == SemSpec => []GlobCounts
<1>1. SemInit => CountInv
  BY DEF SemInit, CountInv, In, Counted, Starting, Posted, Stopped, Thread
<1>2. CountInv => GlobCounts
  <2> SUFFICES ASSUME CountInv, upc \in {"print", "destroy", "end"}, ~slow
               PROVE  glob = Cardinality({t \in Thread : tpc[t] # "refused"})
    BY DEF GlobCounts
  <2> DEFINE R == {t \in Thread : tpc[t] # "refused"}
  <2>1. /\ tpc["t1"] \in {"over", "refused"} /\ tpc["t2"] \in {"over", "refused"}
        /\ glob = Counted("t1") + Counted("t2")
    BY DEF CountInv
  <2>2. R = {} \cup (IF tpc["t1"] = "over" THEN {"t1"} ELSE {})
               \cup (IF tpc["t2"] = "over" THEN {"t2"} ELSE {})
    BY <2>1 DEF Thread
  <2>3. /\ Cardinality({}) = 0 /\ Cardinality({"t1"}) = 1 /\ Cardinality({"t2"}) = 1
        /\ Cardinality({"t1", "t2"}) = 2
    <3>1. /\ IsFiniteSet({"t1"}) /\ Cardinality({"t1"}) = 1 /\ Cardinality({"t2"}) = 1
          /\ Cardinality({}) = 0
      BY FS_EmptySet, FS_Singleton
    <3>2. Cardinality({"t1"} \cup {"t2"}) = 2
      BY <3>1, FS_AddElement
    <3>3. {"t1"} \cup {"t2"} = {"t1", "t2"}
      OBVIOUS
    <3>4. QED
      BY <3>1, <3>2, <3>3
  <2> HIDE DEF R
  <2>4. CASE tpc["t1"] = "over" /\ tpc["t2"] = "over"
    <3>1. R = {"t1", "t2"} /\ glob = 2
      BY <2>1, <2>2, <2>4 DEF Counted
    <3>2. QED
      BY <2>3, <3>1 DEF R
  <2>5. CASE tpc["t1"] = "over" /\ tpc["t2"] = "refused"
    <3>1. R = {"t1"} /\ glob = 1
      BY <2>1, <2>2, <2>5 DEF Counted
    <3>2. QED
      BY <2>3, <3>1 DEF R
  <2>6. CASE tpc["t1"] = "refused" /\ tpc["t2"] = "over"
    <3>1. R = {"t2"} /\ glob = 1
      BY <2>1, <2>2, <2>6 DEF Counted
    <3>2. QED
      BY <2>3, <3>1 DEF R
  <2>7. CASE tpc["t1"] = "refused" /\ tpc["t2"] = "refused"
    <3>1. R = {} /\ glob = 0
      BY <2>1, <2>2, <2>7 DEF Counted
    <3>2. QED
      BY <2>3, <3>1 DEF R
  <2>8. QED
    BY <2>1, <2>4, <2>5, <2>6, <2>7
<1>3. QED
  BY <1>1, <1>2, CountStep, PTL DEF SemSpec

\* The named semaphore: who waits or posts has opened it.
\* A process that is about to wait or to post, or waits, has opened a semaphore,
\* and it is one that was made.
Opened == \A p \in Waiter \cup Poster :
   npc[p] \in {"wait", "sleep", "post"} => mine[p] \in 1..made

NamedInv ==
  /\ name \in 0..made /\ made \in 0..MaxSem /\ val \in [Object -> Nat]
  /\ npc \in [Waiter \cup Poster -> {"gettime", "open", "wait", "sleep", "post",
                                     "finished", "timeout", "failed"}]
  /\ mine \in [Waiter \cup Poster -> 0..MaxSem] /\ past \subseteq Waiter
  /\ Opened

\* What CountInv leaves out of the types of uname.
UTypes == usem \in Nat \cup {-1} /\ slow \in BOOLEAN

LEMMA NamedStep == NamedInv /\ [NamedNext \/ UnameNext]_semVars => NamedInv'
<1> SUFFICES ASSUME NamedInv, [NamedNext \/ UnameNext]_semVars PROVE NamedInv'
  OBVIOUS
<1> USE SemAssumption DEF SemAssumption, NamedInv, Opened, Object
<1>1. CASE UNCHANGED namedVars
  BY <1>1 DEF namedVars
<1>2. CASE Create
  BY <1>2 DEF Create
<1>3. CASE Unlink
  BY <1>3 DEF Unlink
<1>4. ASSUME NEW p \in Waiter \cup Poster, WGettime(p) \/ Deadline(p) PROVE NamedInv'
  BY <1>4 DEF WGettime, Deadline, NGoto
<1>5. ASSUME NEW p \in Waiter \cup Poster, NOpen(p) PROVE NamedInv'
  <2>1. mine' \in [Waiter \cup Poster -> 0..MaxSem] /\ UNCHANGED <<name, made, val, past>>
    BY <1>5 DEF NOpen
  <2>2. CASE name = 0
    BY <1>5, <2>1, <2>2 DEF NOpen, NGoto
  <2>3. CASE name # 0
    <3>1. name \in Object /\ npc' \in [Waiter \cup Poster -> {"gettime", "open", "wait", "sleep",
                                            "post", "finished", "timeout", "failed"}]
      BY <1>5, <2>3 DEF NOpen, NGoto
    <3>2. QED
      BY <1>5, <2>1, <3>1 DEF NOpen, NGoto
  <2>4. QED
    BY <2>2, <2>3
<1>6. ASSUME NEW p \in Waiter \cup Poster, WTimedwait(p) PROVE NamedInv'
  <2>1. mine[p] \in Object /\ val[mine[p]] \in Nat /\ UNCHANGED <<name, made, mine, past>>
    BY <1>6 DEF WTimedwait
  <2>2. CASE val' = val
    BY <1>6, <2>1, <2>2 DEF WTimedwait, NGoto
  <2>3. CASE val[mine[p]] > 0 /\ val' = [val EXCEPT ![mine[p]] = val[mine[p]] - 1]
    <3>1. val[mine[p]] - 1 \in Nat
      BY <2>1, <2>3
    <3>2. val' \in [Object -> Nat]
      BY <2>3, <3>1
    <3>3. npc[p] \in {"wait", "sleep"} /\ \E to \in {"finished", "sleep", "timeout"} :
             npc' = [npc EXCEPT ![p] = to]
      BY <1>6, Zenon DEF WTimedwait, NGoto
    <3>4. QED
      BY <2>1, <3>2, <3>3
  <2>4. QED
    BY <1>6, <2>2, <2>3 DEF WTimedwait
<1>7. ASSUME NEW p \in Waiter \cup Poster, NPost(p) PROVE NamedInv'
  <2>1. mine[p] \in Object /\ val[mine[p]] + 1 \in Nat
    BY <1>7 DEF NPost, NGoto
  <2>2. QED
    BY <1>7, <2>1 DEF NPost, NGoto
<1>8. UnameNext \/ UNCHANGED semVars => UNCHANGED namedVars
  BY DEF UnameNext, MainStep, ThreadStep, USemInit, UThread, UPost, UJoin, UPrint, UDestroy,
         TWait, TLoad, TStore, semVars, namedVars
<1>9. QED
  BY <1>1, <1>2, <1>3, <1>4, <1>5, <1>6, <1>7, <1>8 DEF NamedNext, WaiterStep, PosterStep

\* For any waiters, posters and semaphores: nobody waits for a semaphore that it
\* has not opened, or posts to one, and no semaphore falls below 0, though
\* uname's is destroyed under whoever is left.
THEOREM SemTypes == SemSpec => [](SemTypeOK /\ Opened)
<1>1. SemInit => NamedInv /\ CountInv /\ UTypes
  <2>1. SemInit => NamedInv
    BY SemAssumption DEF SemAssumption, SemInit, NamedInv, Opened, Object
  <2>2. SemInit => CountInv /\ UTypes
    <3>1. SemInit => CountInv
      BY DEF SemInit, CountInv, In, Counted, Starting, Posted, Stopped, Thread
    <3>2. SemInit => UTypes
      BY DEF SemInit, UTypes
    <3>3. QED
      BY <3>1, <3>2
  <2>3. QED
    BY <2>1, <2>2
<1>2. CountInv /\ UTypes /\ [NamedNext \/ UnameNext]_semVars => UTypes'
  <2> SUFFICES ASSUME CountInv, UTypes, [NamedNext \/ UnameNext]_semVars PROVE UTypes'
    OBVIOUS
  <2>1. CASE UPost
    <3>1. usem \in Nat /\ usem' = usem + 1
      <4>1. upc \in {"post1", "post2"} /\ usem' = usem + 1 /\ usem \in Int
        BY <2>1 DEF UPost, UGoto, CountInv
      <4>2. upc = "post1" => usem = 0
        BY DEF CountInv, Starting
      <4>3. upc = "post2" => usem >= 0
        BY DEF CountInv
      <4>4. QED
        BY <4>1, <4>2, <4>3
    <3>2. slow' \in BOOLEAN
      BY <2>1, Zenon DEF UPost, UTypes
    <3>3. QED
      BY <3>1, <3>2 DEF UTypes
  <2>2. CASE USemInit \/ UDestroy \/ UPrint \/ \E t \in Thread : UThread(t) \/ UJoin(t)
    BY <2>2 DEF USemInit, UDestroy, UPrint, UThread, UJoin, UTypes
  <2>3. CASE \E t \in Thread : ThreadStep(t)
    BY <2>3 DEF ThreadStep, TWait, TLoad, TStore, UTypes
  <2>4. NamedNext \/ UNCHANGED semVars => UNCHANGED <<usem, slow>>
    BY DEF NamedNext, WaiterStep, PosterStep, Create, Unlink, WGettime, Deadline, NOpen,
           WTimedwait, NPost, semVars, unameVars
  <2>5. QED
    BY <2>1, <2>2, <2>3, <2>4 DEF UnameNext, MainStep, UTypes
<1>3. NamedInv /\ CountInv /\ UTypes => SemTypeOK /\ Opened
  BY SemAssumption DEF NamedInv, CountInv, UTypes, SemTypeOK, Starting, Posted, Stopped, SemAssumption
<1>4. QED
  BY <1>1, <1>2, <1>3, NamedStep, CountStep, PTL DEF SemSpec

-----------------------------------------------------------------------------
(* End of file in pipe_demo.c.                                              *)

\* Who exists, and who holds the write end: the parent until it closes it or
\* ends, and every child until its last step; children beyond turn not at all.
Holders ==
  /\ DOMAIN pc = PipeProc /\ DOMAIN got = PipeProc
  /\ demo \in AllDemos /\ turn \in Nat
  /\ \A c \in Child : c < turn <=> pc[c] # "none"
  /\ pc[Parent] = "fork" => Parent \in wr /\ turn \in 1..N
  /\ demo = "sync" => \A c \in Child : pc[c] \in {"close", "sleep", "say"} => c \in wr
  /\ demo # "sync" => turn <= 2
  /\ demo # "sync" => (pc[Parent] \notin Over => Parent \in wr)

\* The way of each program through its steps.
Ways ==
  /\ demo = "sync" => /\ pc[Parent] \in {"fork", "close", "read", "go"} \cup Over
                      /\ pc[Parent] \in {"close", "read", "go"} => turn > N
                      /\ \A c \in Child : pc[c] \in {"none", "close", "sleep", "say"} \cup Over
                      /\ \A c \in Child : pc[c] \in {"say", "exit"} => c \in slept
  /\ demo # "sync" => /\ pc[Parent] \in {"fork", "close", "dup", "write", "sleep"} \cup Over
                      /\ pc[Parent] = "fork" => turn = 1
                      /\ \A c \in Child : pc[c] \in {"none", "close", "read"} \cup Over
  /\ demo = "demo" => pc[Parent] # "sleep"
  /\ demo = "demo" /\ pc[Parent] = "exit" =>
        \A c \in Child : pc[c] \in {"close", "read"} => full = TRUE

EofInv == Holders /\ Ways /\ EofTells

USE PipeAssumption DEF Parent, Child, PipeProc, Over, AllDemos, Goto, Ends, ends

LEMMA PipeInitInv == PipeInit => EofInv
BY DEF PipeInit, EofInv, Holders, Ways, EofTells

LEMMA ForkStep == EofInv /\ (Fork \/ ForkFails) => EofInv'
<1> SUFFICES ASSUME EofInv, Fork \/ ForkFails PROVE EofInv'
  OBVIOUS
<1> USE DEF EofInv, Holders, Ways, EofTells
<1>1. CASE Fork
  <2> USE <1>1 DEF Fork
  <2>1. turn \in 1..N /\ turn # 0 /\ (demo # "sync" => turn = 1)
    OBVIOUS
  <2>2. Holders'
    BY <2>1
  <2>3. Ways'
    BY <2>1
  <2>4. EofTells'
    BY <2>1
  <2>5. QED
    BY <2>2, <2>3, <2>4
<1>2. CASE ForkFails
  <2> USE <1>2 DEF ForkFails
  <2>1. Holders'
    OBVIOUS
  <2>2. Ways' /\ EofTells'
    OBVIOUS
  <2>3. QED
    BY <2>1, <2>2
<1>3. QED
  BY <1>1, <1>2

LEMMA ParentStep == EofInv /\ (PClose \/ PDup \/ PWrite \/ PReturn) => EofInv'
<1> SUFFICES ASSUME EofInv, PClose \/ PDup \/ PWrite \/ PReturn PROVE EofInv'
  OBVIOUS
<1> USE DEF EofInv, Holders, Ways, EofTells
<1>1. CASE PClose
  <2> USE <1>1 DEF PClose, AfterClose
  <2>1. Holders'
    OBVIOUS
  <2>2. Ways' /\ EofTells'
    OBVIOUS
  <2>3. QED
    BY <2>1, <2>2
<1>2. CASE PDup \/ PReturn
  BY <1>2 DEF PDup, PReturn
<1>3. CASE PWrite
  BY <1>3 DEF PWrite
<1>4. QED
  BY <1>1, <1>2, <1>3

LEMMA ChildStep ==
  ASSUME NEW c \in Child, EofInv, CClose(c) \/ CSleep(c) \/ CSay(c)
  PROVE  EofInv'
<1> USE DEF EofInv, Holders, Ways, EofTells
<1>1. CASE CClose(c)
  BY <1>1 DEF CClose
<1>2. CASE CSleep(c)
  BY <1>2 DEF CSleep
<1>3. CASE CSay(c)
  BY <1>3 DEF CSay
<1>4. QED
  BY <1>1, <1>2, <1>3

\* The parent of sync that finds the write end closed has forked all children,
\* and none of them is before its end; a child that finds it closed has a parent
\* that has ended, and that of demo would have left something in the pipe.
LEMMA EofReadStep ==
  ASSUME NEW p \in PipeProc, EofInv, Read(p)
  PROVE  EofInv'
<1> USE DEF EofInv, Holders, Ways, EofTells, Read
<1>1. CASE p = Parent
  <2>1. demo = "sync" /\ turn > N /\ \A c \in Child : pc[c] # "none"
    BY <1>1
  <2>2. ~full => \A c \in Child : c \in slept \/ pc[c] = "killed"
    BY <1>1, <2>1
  <2>3. Holders' /\ Ways'
    BY <1>1
  <2>4. EofTells'
    BY <1>1, <2>1, <2>2
  <2>5. QED
    BY <2>3, <2>4
<1>2. CASE p # Parent
  <2>1. p \in Child /\ demo # "sync" /\ p = 1
    BY <1>2
  <2>2. ~full => pc[Parent] \in Over
    BY <2>1
  <2>3. ~full /\ demo = "demo" => pc[Parent] = "killed"
    BY <2>1, <2>2
  <2>4. Holders'
    BY <1>2, <2>1
  <2>5. Ways'
    BY <1>2, <2>1
  <2>6. EofTells'
    BY <1>2, <2>1, <2>2, <2>3
  <2>7. QED
    BY <2>4, <2>5, <2>6
<1>3. QED
  BY <1>1, <1>2

LEMMA KillStep ==
  ASSUME NEW p \in PipeProc, EofInv, PipeKill(p)
  PROVE  EofInv'
<1> USE DEF EofInv, Holders, Ways, EofTells, PipeKill, Unused
<1>1. Holders'
  OBVIOUS
<1>2. Ways'
  OBVIOUS
<1>3. EofTells'
  OBVIOUS
<1>4. QED
  BY <1>1, <1>2, <1>3

LEMMA EofInductive == EofInv /\ [PipeNext]_pipeVars => EofInv'
<1> SUFFICES ASSUME EofInv, [PipeNext]_pipeVars PROVE EofInv'
  OBVIOUS
<1>1. CASE PStep
  BY <1>1, ForkStep, ParentStep, EofReadStep DEF PStep
<1>2. CASE \E c \in Child : CStep(c)
  BY <1>2, ChildStep, EofReadStep DEF CStep
<1>3. CASE \E p \in PipeProc : PipeKill(p)
  BY <1>3, KillStep
<1>4. CASE UNCHANGED pipeVars
  BY <1>4 DEF EofInv, Holders, Ways, EofTells, pipeVars
<1>5. QED
  BY <1>1, <1>2, <1>3, <1>4 DEF PipeNext

\* End of file tells the truth, for any number of children, failures and kills.
THEOREM EofTruth == PipeSpec => []EofTells
BY PipeInitInv, EofInductive, PTL DEF PipeSpec, EofInv

\* What the invariant leaves out of the types.
PipeTypes ==
  /\ pc \in [PipeProc -> {"none", "fork", "close", "dup", "write", "sleep", "say", "read", "go"}
                         \cup Over]
  /\ turn \in 1..(N + 1) /\ rd \subseteq PipeProc /\ wr \subseteq PipeProc /\ full \in BOOLEAN
  /\ got \in [PipeProc -> {"nothing", "data", "eof"}] /\ slept \subseteq Child

LEMMA PipeTypesStep == EofInv /\ PipeTypes /\ [PipeNext]_pipeVars => PipeTypes'
<1> SUFFICES ASSUME EofInv, PipeTypes, [PipeNext]_pipeVars PROVE PipeTypes'
  OBVIOUS
<1> USE DEF PipeTypes
<1>1. CASE Fork
  <2>1. turn \in 1..N
    BY <1>1 DEF Fork, EofInv, Holders
  <2>2. QED
    BY <1>1, <2>1 DEF Fork
<1>2. CASE ForkFails \/ PClose \/ PDup \/ PWrite \/ PReturn
  BY <1>2 DEF ForkFails, PClose, AfterClose, PDup, PWrite, PReturn, EofInv, Holders
<1>3. ASSUME NEW c \in Child, CClose(c) \/ CSleep(c) \/ CSay(c) PROVE PipeTypes'
  BY <1>3 DEF CClose, CSleep, CSay
<1>4. ASSUME NEW p \in PipeProc, Read(p) PROVE PipeTypes'
  BY <1>4 DEF Read
<1>5. ASSUME NEW p \in PipeProc, PipeKill(p) PROVE PipeTypes'
  BY <1>5 DEF PipeKill
<1>6. CASE UNCHANGED pipeVars
  BY <1>6 DEF pipeVars
<1>7. QED
  BY <1>1, <1>2, <1>3, <1>4, <1>5, <1>6 DEF PipeNext, PStep, CStep

\* For any number of children: no more of them are forked than there are, and
\* the ends of the pipe belong to the parent and to them.
THEOREM PipeTyped == PipeSpec => []PipeTypeOK
<1>1. PipeInit => EofInv /\ PipeTypes
  <2> SUFFICES ASSUME PipeInit PROVE EofInv /\ PipeTypes
    OBVIOUS
  <2>1. turn \in 1..(N + 1) /\ Parent \in PipeProc
    BY DEF PipeInit
  <2>2. pc \in [PipeProc -> {"none", "fork"}] /\ got \in [PipeProc -> {"nothing"}]
    BY DEF PipeInit
  <2>3. QED
    BY PipeInitInv, <2>1, <2>2 DEF PipeInit, PipeTypes
<1>2. EofInv /\ PipeTypes => PipeTypeOK
  BY DEF EofInv, Holders, Ways, PipeTypes, PipeTypeOK
<1>3. QED
  BY <1>1, <1>2, PipeTypesStep, EofInductive, PTL DEF PipeSpec
=============================================================================
