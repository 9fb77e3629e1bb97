------------------------------ MODULE FifoSeq ------------------------------
(***************************************************************************)
(* pipe_demo, pipe_server.c and pipe_client.c: a server hands out sequence *)
(* numbers.  A client makes a FIFO of its own, writes a request to the     *)
(* server's FIFO, and reads the answer from its own.                       *)
(*                                                                         *)
(* The open() of a FIFO blocks until the other end is opened; the second   *)
(* opener lets the first one go.  A FIFO keeps its unread contents as long *)
(* as some process has it open.                                            *)
(***************************************************************************)
EXTENDS Integers, Sequences, FiniteSets

CONSTANTS
  Client,    \* the client processes, one run each
  NoClient,  \* none of them
  MaxKills,  \* how often the server may be killed and started again (a bound)
  Faults     \* a subset of FaultKinds

FaultKinds == {"killS",   \* the server is killed
               "killC",   \* a client is killed
               "tidy"}    \* somebody removes the FIFO of a dead client

ASSUME ClientAssumption == /\ NoClient \notin Client /\ IsFiniteSet(Client)
                           /\ MaxKills \in Nat
                           /\ Faults \subseteq FaultKinds

VARIABLES
  spc, cur, seqNum,     \* server: the client it is serving, the next number
  sfifo, sfd, queue,    \* SERVER_FIFO exists; who has it open to write; contents
  cpc, cfifo, resp,     \* clients: own FIFO exists; the answer written into it
  life, asked,          \* history: server restarts; clients in order of request;
  opened                \*   the server run in which a client's FIFO was opened

sVars == <<spc, cur, seqNum>>
fVars == <<sfifo, sfd, queue>>
cVars == <<cpc, cfifo, resp>>
hist == <<life, asked, opened>>
vars == <<sVars, fVars, cVars, hist>>

NoAnswer == <<>>
\* An answer is resp.seqNum, tagged with the server run that gave it.
Answer == (0..MaxKills) \X Nat

SOpened == {"waitR", "dummy", "read", "open", "waitC", "reply", "close"}
Ended == {"done", "failed", "killed"}

TypeOK ==
  /\ spc \in {"mkfifo", "openR"} \cup SOpened
  /\ cur \in Client \cup {NoClient} /\ seqNum \in Nat
  /\ sfifo \in BOOLEAN /\ sfd \subseteq Client /\ queue \in Seq(Client)
  /\ cpc \in [Client -> {"mkfifo", "openS", "waitS", "write", "openC", "waitC",
                         "read", "printed"} \cup Ended]
  /\ cfifo \subseteq Client
  /\ resp \in [Client -> {NoAnswer} \cup Answer]
  /\ life \in 0..MaxKills /\ asked \in Seq(Client) /\ opened \in [Client -> 0..MaxKills]

\* A FIFO in cfifo was left by a killed process that had the same pid.
Init ==
  /\ spc = "mkfifo" /\ cur = NoClient /\ seqNum = 0
  /\ sfifo = FALSE /\ sfd = {} /\ queue = <<>>
  /\ cpc = [c \in Client |-> "mkfifo"] /\ cfifo \in SUBSET Client
  /\ resp = [c \in Client |-> NoAnswer]
  /\ life = 0 /\ asked = <<>> /\ opened = [c \in Client |-> 0]

\* What is left in SERVER_FIFO when only the processes in W have it open.
Kept(W, serverToo) == IF W = {} /\ ~serverToo THEN <<>> ELSE queue

-----------------------------------------------------------------------------
(* The server.                                                             *)

SMkfifo ==   \* also when the FIFO is there already: the failure is only reported
  /\ spc = "mkfifo" /\ spc' = "openR" /\ sfifo' = TRUE
  /\ UNCHANGED <<cur, seqNum, sfd, queue, cVars, hist>>

SOpenRead == \* open(SERVER_FIFO, O_RDONLY)
  /\ spc = "openR"
  /\ spc' = IF sfd = {} THEN "waitR" ELSE "dummy"
  /\ cpc' = [c \in Client |-> IF cpc[c] = "waitS" THEN "write" ELSE cpc[c]]
  /\ UNCHANGED <<cur, seqNum, fVars, cfifo, resp, hist>>

SOpenDummy == \* with a write end of its own the server never reads end of file
  /\ spc = "dummy" /\ spc' = "read"
  /\ UNCHANGED <<cur, seqNum, fVars, cVars, hist>>

\* Mutants: the newest request is served first; all but the first are lost.
MutNewestFirst == /\ spc = "read" /\ queue # <<>> /\ spc' = "open"
                  /\ cur' = queue[Len(queue)] /\ queue' = SubSeq(queue, 1, Len(queue) - 1)
                  /\ UNCHANGED <<seqNum, sfifo, sfd, cVars, hist>>
MutRestLost == /\ spc = "read" /\ queue # <<>> /\ spc' = "open"
               /\ cur' = Head(queue) /\ queue' = <<>>
               /\ UNCHANGED <<seqNum, sfifo, sfd, cVars, hist>>

SRead ==
  /\ spc = "read" /\ queue # <<>>
  /\ cur' = Head(queue) /\ queue' = Tail(queue)
  /\ spc' = "open"
  /\ UNCHANGED <<seqNum, sfifo, sfd, cVars, hist>>

\* Mutant: seqNum is counted in steps of two.
MutCountTwo == seqNum' = seqNum + 2

\* seqNum += req.seqLen, done whether the client was answered or not.
Count == seqNum' = seqNum + 1

SOpenClient == \* open(client_fifo, O_WRONLY)
  /\ spc = "open"
  /\ \/ /\ cur \notin cfifo      \* -1: so write() and close() fail as well
        /\ spc' = "read" /\ Count
        /\ UNCHANGED <<cpc, opened>>
     \/ /\ cur \in cfifo
        /\ spc' = IF cpc[cur] = "waitC" THEN "reply" ELSE "waitC"
        /\ cpc' = [cpc EXCEPT ![cur] = IF @ = "waitC" THEN "read" ELSE @]
        /\ opened' = IF cpc[cur] = "waitC" THEN [opened EXCEPT ![cur] = life] ELSE opened
        /\ UNCHANGED seqNum
  /\ UNCHANGED <<cur, fVars, cfifo, resp, life, asked>>

\* Mutant: the answer is not written.
MutSilent == spc = "reply" /\ spc' = "close"
             /\ UNCHANGED <<cur, seqNum, fVars, cVars, hist>>

SReply ==  \* EPIPE, with SIGPIPE ignored, when the client is gone
  /\ spc = "reply" /\ spc' = "close"
  /\ resp' = IF cpc[cur] = "read" THEN [resp EXCEPT ![cur] = <<life, seqNum>>]
                                  ELSE resp
  /\ UNCHANGED <<cur, seqNum, fVars, cpc, cfifo, hist>>

\* Mutant: only requests that fail are counted.
MutNotCounted == spc = "close" /\ spc' = "read"
                 /\ UNCHANGED <<cur, seqNum, fVars, cVars, hist>>

SClose ==
  /\ spc = "close" /\ spc' = "read" /\ Count
  /\ UNCHANGED <<cur, fVars, cVars, hist>>

\* No handler: the server dies, SERVER_FIFO stays, and it is started afresh.
SKill ==
  /\ "killS" \in Faults /\ life < MaxKills /\ spc # "mkfifo"
  /\ spc' = "mkfifo" /\ cur' = NoClient /\ seqNum' = 0
  /\ queue' = Kept(sfd, FALSE)
  /\ life' = life + 1
  /\ UNCHANGED <<sfifo, sfd, cVars, asked, opened>>

-----------------------------------------------------------------------------
(* A client.                                                               *)

CMkfifo(c) ==
  /\ cpc[c] = "mkfifo"
  /\ cpc' = [cpc EXCEPT ![c] = IF c \in cfifo THEN "failed" ELSE "openS"]
  /\ cfifo' = cfifo \cup {c}
  /\ UNCHANGED <<sVars, fVars, resp, hist>>

COpenServer(c) == \* open(SERVER_FIFO, O_WRONLY)
  /\ cpc[c] = "openS"
  /\ \/ /\ ~sfifo                \* -1: write() fails too, and nothing is asked
        /\ cpc' = [cpc EXCEPT ![c] = "openC"]
        /\ UNCHANGED <<spc, sfd>>
     \/ /\ sfifo
        /\ cpc' = [cpc EXCEPT ![c] = IF spc \in SOpened THEN "write" ELSE "waitS"]
        /\ spc' = IF spc = "waitR" THEN "dummy" ELSE spc
        /\ sfd' = sfd \cup {c}
  /\ UNCHANGED <<cur, seqNum, sfifo, queue, cfifo, resp, hist>>

\* c ends: its descriptors are closed.
Leaves(c, how) ==
  /\ cpc' = [cpc EXCEPT ![c] = how]
  /\ sfd' = sfd \ {c}
  /\ queue' = Kept(sfd \ {c}, spc \in SOpened)

CWrite(c) ==
  /\ cpc[c] = "write"
  /\ \/ /\ spc \in SOpened
        /\ queue' = Append(queue, c) /\ asked' = Append(asked, c)
        /\ cpc' = [cpc EXCEPT ![c] = "openC"]
        /\ UNCHANGED sfd
     \/ /\ spc \notin SOpened    \* no reader: SIGPIPE
        /\ Leaves(c, "killed")
        /\ UNCHANGED asked
  /\ UNCHANGED <<sVars, sfifo, cfifo, resp, life, opened>>

COpenOwn(c) == \* open(client_fifo, O_RDONLY)
  /\ cpc[c] = "openC"
  /\ \/ /\ spc = "waitC" /\ cur = c /\ spc' = "reply"
        /\ cpc' = [cpc EXCEPT ![c] = "read"] /\ opened' = [opened EXCEPT ![c] = life]
     \/ /\ ~(spc = "waitC" /\ cur = c)
        /\ cpc' = [cpc EXCEPT ![c] = "waitC"] /\ UNCHANGED <<spc, opened>>
  /\ UNCHANGED <<cur, seqNum, fVars, cfifo, resp, life, asked>>

\* End of file, and then an uninitialised resp is printed, when the server
\* has closed its end without an answer.
CRead(c) ==
  /\ cpc[c] = "read"
  /\ resp[c] # NoAnswer \/ ~(spc = "reply" /\ cur = c)
  /\ cpc' = [cpc EXCEPT ![c] = "printed"]
  /\ UNCHANGED <<sVars, fVars, cfifo, resp, hist>>

CExit(c) == \* removeFifo(), then every descriptor is closed
  /\ cpc[c] = "printed"
  /\ Leaves(c, "done")
  /\ cfifo' = cfifo \ {c}
  /\ UNCHANGED <<sVars, sfifo, resp, hist>>

CKill(c) ==
  /\ "killC" \in Faults /\ cpc[c] \notin Ended
  /\ Leaves(c, "killed")
  /\ UNCHANGED <<sVars, sfifo, cfifo, resp, hist>>

Tidy(c) ==
  /\ "tidy" \in Faults /\ cpc[c] \in {"failed", "killed"} /\ c \in cfifo
  /\ cfifo' = cfifo \ {c}
  /\ UNCHANGED <<sVars, fVars, cpc, resp, hist>>

-----------------------------------------------------------------------------
Server == \/ SMkfifo \/ SOpenRead \/ SOpenDummy \/ SRead \/ SOpenClient
          \/ SReply \/ SClose
ClientStep(c) == \/ CMkfifo(c) \/ COpenServer(c) \/ CWrite(c) \/ COpenOwn(c)
                 \/ CRead(c) \/ CExit(c)

Next == \/ Server \/ SKill
        \/ \E c \in Client : ClientStep(c) \/ CKill(c) \/ Tidy(c)

Spec == Init /\ [][Next]_vars

FairSpec == Spec /\ WF_vars(Server) /\ \A c \in Client : WF_vars(ClientStep(c))

-----------------------------------------------------------------------------
(* Properties.                                                             *)

\* No run of the server gives the same number to two clients.
Unique == \A c, d \in Client :
            (c # d /\ resp[c] # NoAnswer) => resp[c] # resp[d]

\* Within a run of the server, who asked first has the smaller number.
RequestOrder == \A i, j \in 1..Len(asked) :
   LET a == resp[asked[i]]  b == resp[asked[j]]
   IN  (i < j /\ a # NoAnswer /\ b # NoAnswer /\ a[1] = b[1]) => a[2] < b[2]

\* A number that nobody received belongs to a client that was killed.
Skipped == {n \in 0..(seqNum - 1) : \A c \in Client : resp[c] # <<life, n>>}
Dead == {c \in Client : cpc[c] = "killed"}
GapsAreDead == Cardinality(Skipped) <= Cardinality(Dead)

\* Only a client that has outlived the run of the server that opened its FIFO
\* prints an uninitialised response.
NoGarbage == \A c \in Client :
   (cpc[c] \in {"printed", "done"} /\ resp[c] = NoAnswer) => life > opened[c]

\* While the server itself lives, a client that has written its request prints
\* an answer, unless the server hangs in open() on the FIFO of a killed client.
Wedged == spc = "waitC" /\ cpc[cur] = "killed"
Answered == \A c \in Client :
   (\E i \in 1..Len(asked) : asked[i] = c)
      ~> (\/ cpc[c] = "done" /\ resp[c] # NoAnswer
          \/ cpc[c] = "killed" \/ Wedged \/ life > 0)
=============================================================================
