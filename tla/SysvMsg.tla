------------------------------ MODULE SysvMsg ------------------------------
(***************************************************************************)
(* sysv_msg_demo, built with -DNEW_SERVER_CLIENT_MODEL as its Makefile     *)
(* does: a file server.  A client sends a path and the identifier of its   *)
(* private message queue to the server's queue; the server forks a child   *)
(* that sends the file, block by block, to the client's queue; the client  *)
(* stores what it receives in one fixed output file.                       *)
(*                                                                         *)
(* A block stands for the RESP_MSG_SIZE bytes of one message; the shorter  *)
(* last block is a block like the others.                                  *)
(***************************************************************************)
EXTENDS Integers, Sequences

CONSTANTS
  Client,    \* the client processes, one run each
  Block,     \* contents of a data message
  Hole,      \* what a file holds where it was never written
  File,      \* File[c]: the blocks of the file that client c asks for
  QueueMax,  \* messages that fit into a queue (msg_qbytes)
  Faults     \* a subset of FaultKinds

FaultKinds == {"sigS",    \* the server gets SIGINT or SIGTERM
               "killS",   \* the server gets SIGKILL
               "ipcrm",   \* somebody removes the server's queue
               "fork",    \* fork() fails
               "open",    \* a child cannot open the file
               "read",    \* read() fails in a child
               "killC",   \* a client is killed
               "killH"}   \* a child is killed

\* resp.mtype of a message that carries no data.
Failure == "RESP_MT_FAILURE"
End == "RESP_MT_END"

ASSUME MsgAssumption == /\ File \in [Client -> Seq(Block)]
                        /\ Hole \notin Block /\ {Failure, End} \cap Block = {}
                        /\ QueueMax \in Nat \ {0}
                        /\ Faults \subseteq FaultKinds

VARIABLES
  spc, req,              \* server: the request it has received
  chld, reaping,         \* SIGCHLD is pending; grimReaper() is running
  skey, sq,              \* the server's queue: it exists; the requests in it
  child, sent,           \* the child of each request; blocks it has sent
  cpc, queued, cq,       \* clients: own queue exists; the messages in it
  resp, off,             \* clients: message received last; offset in the output
  disk,                  \* the output file
  alone,                 \* history: clients that have the output file to themselves,
  removed, orphans       \* somebody removed the server's queue, killed a client's child

sVars == <<spc, req, chld, reaping>>
hVars == <<child, sent>>
cVars == <<cpc, resp, off>>
hist == <<alone, removed, orphans>>
vars == <<sVars, skey, sq, hVars, cVars, queued, cq, disk, hist>>

Message == Block \cup {Failure, End}

IsData(m) == m \notin {Failure, End}

Serving == {"recv", "fork"}
Finished == {"done", "failed", "killed"}
\* A client that is writing to the output file.
Storing == {"store", "more"}

TypeOK ==
  /\ spc \in {"msgget", "refused", "ended"} \cup Serving /\ req \subseteq Client
  /\ chld \in BOOLEAN /\ reaping \in BOOLEAN
  /\ skey \in BOOLEAN /\ sq \in Seq(Client)
  /\ child \in [Client -> {"none", "open", "send", "end", "exit", "zombie", "reaped"}]
  /\ sent \in [Client -> Nat]
  /\ cpc \in [Client -> {"get", "create", "send", "first", "trunc", "close", "exit"}
                        \cup Storing \cup Finished]
  /\ queued \subseteq Client /\ cq \in [Client -> Seq(Message)]
  /\ resp \in [Client -> Message] /\ off \in [Client -> Nat]
  /\ disk \in Seq(Block \cup {Hole}) /\ alone \subseteq Client
  /\ removed \in BOOLEAN /\ orphans \subseteq Client

\* skey: the queue of an earlier server may still be there, with no server.
Init ==
  /\ spc = "msgget" /\ req = {} /\ chld = FALSE /\ reaping = FALSE
  /\ skey \in BOOLEAN /\ sq = <<>>
  /\ child = [c \in Client |-> "none"] /\ sent = [c \in Client |-> 0]
  /\ cpc = [c \in Client |-> "get"] /\ queued = {} /\ cq = [c \in Client |-> <<>>]
  /\ resp = [c \in Client |-> End] /\ off = [c \in Client |-> 0]
  /\ disk = <<>> /\ alone = {} /\ removed = FALSE /\ orphans = {}

\* msgctl(): SERVER_KEY, as a command, is EINVAL; only IPC_RMID removes the queue.
Msgctl(cmd) == skey' = IF cmd = "IPC_RMID" THEN FALSE ELSE skey

-----------------------------------------------------------------------------
(* The server.  main() stands still while grimReaper() runs.               *)

\* Mutant: clean() does what its message says, in the children too.
MutRemove == Msgctl("IPC_RMID")

\* clean(), which every exit() of the server and of its children calls, and
\* the call in sig_handler().
Clean == Msgctl("SERVER_KEY")

SMsgget ==   \* IPC_CREAT | IPC_EXCL
  /\ spc = "msgget"
  /\ spc' = IF skey THEN "refused" ELSE "recv"
  /\ skey' = TRUE
  /\ UNCHANGED <<req, chld, reaping, sq, hVars, cVars, queued, cq, disk, hist>>

SRecv ==     \* an msgrcv() that SIGCHLD interrupts is called again
  /\ spc = "recv" /\ ~reaping /\ sq # <<>>
  /\ req' = {Head(sq)} /\ sq' = Tail(sq)
  /\ spc' = "fork"
  /\ UNCHANGED <<chld, reaping, skey, hVars, cVars, queued, cq, disk, hist>>

SRecvFails ==
  /\ spc = "recv" /\ ~reaping /\ ~skey
  /\ spc' = "ended" /\ Clean
  /\ UNCHANGED <<req, chld, reaping, sq, hVars, cVars, queued, cq, disk, hist>>

SFork ==
  /\ spc = "fork" /\ ~reaping
  /\ \/ /\ child' = [c \in Client |-> IF c \in req THEN "open" ELSE child[c]]
        /\ spc' = "recv"
        /\ UNCHANGED skey
     \/ /\ "fork" \in Faults   \* break, and main() ends
        /\ spc' = "ended" /\ Clean
        /\ UNCHANGED child
  /\ UNCHANGED <<req, chld, reaping, sq, sent, cVars, queued, cq, disk, hist>>

SHandler ==  \* SIGCHLD is delivered; one that arrives meanwhile stays pending
  /\ spc \in Serving /\ chld /\ ~reaping
  /\ reaping' = TRUE /\ chld' = FALSE
  /\ UNCHANGED <<spc, req, skey, sq, hVars, cVars, queued, cq, disk, hist>>

\* Mutant: grimReaper() calls waitpid() once.
MutReapOne ==
  /\ spc \in Serving /\ reaping /\ reaping' = FALSE
  /\ child' = [c \in Client |-> IF child[c] = "zombie" /\ \A d \in Client :
                                     child[d] = "zombie" => sent[c] >= sent[d]
                                THEN "reaped" ELSE child[c]]
  /\ UNCHANGED <<spc, req, chld, skey, sq, sent, cVars, queued, cq, disk, hist>>

SWaitpid ==  \* one call of waitpid(-1, NULL, WNOHANG)
  /\ spc \in Serving /\ reaping
  /\ \/ \E c \in Client : /\ child[c] = "zombie"
                          /\ child' = [child EXCEPT ![c] = "reaped"]
                          /\ UNCHANGED reaping
     \/ /\ \A c \in Client : child[c] # "zombie"
        /\ reaping' = FALSE
        /\ UNCHANGED child
  /\ UNCHANGED <<spc, req, chld, skey, sq, sent, cVars, queued, cq, disk, hist>>

SSignal ==   \* sig_handler(): msgctl() and exit(), which calls clean()
  /\ "sigS" \in Faults /\ spc \in Serving
  /\ spc' = "ended" /\ Clean
  /\ UNCHANGED <<req, chld, reaping, sq, hVars, cVars, queued, cq, disk, hist>>

SKill ==
  /\ "killS" \in Faults /\ spc \in Serving
  /\ spc' = "ended"
  /\ UNCHANGED <<req, chld, reaping, skey, sq, hVars, cVars, queued, cq, disk, hist>>

Ipcrm ==     \* the requests in the queue are lost
  /\ "ipcrm" \in Faults /\ skey
  /\ skey' = FALSE /\ sq' = <<>> /\ removed' = TRUE
  /\ UNCHANGED <<sVars, hVars, cVars, queued, cq, disk, alone, orphans>>

-----------------------------------------------------------------------------
(* serverRequest(): the child that serves client c.                        *)

\* msgsnd() of m to c's queue: it sleeps while the queue is full, and fails
\* when the queue has been removed.
HSend(c, m) == IF c \in queued
               THEN Len(cq[c]) < QueueMax /\ cq' = [cq EXCEPT ![c] = Append(@, m)]
               ELSE UNCHANGED cq

HGoto(c, at, next) == child[c] = at /\ child' = [child EXCEPT ![c] = next]

HOpen(c) ==
  /\ \/ HGoto(c, "open", "send") /\ UNCHANGED cq
     \/ "open" \in Faults /\ HGoto(c, "open", "exit") /\ HSend(c, Failure)
  /\ UNCHANGED <<sVars, skey, sq, sent, cVars, queued, disk, hist>>

HBlock(c) ==   \* read() and msgsnd(); the loop ends when the queue is gone
  /\ sent[c] < Len(File[c])
  /\ HGoto(c, "send", IF c \in queued THEN "send" ELSE "end")
  /\ HSend(c, File[c][sent[c] + 1])
  /\ sent' = IF c \in queued THEN [sent EXCEPT ![c] = @ + 1] ELSE sent
  /\ UNCHANGED <<sVars, skey, sq, cVars, queued, disk, hist>>

HNoMore(c) ==  \* read() returns 0 at the end of the file, -1 when it fails
  /\ sent[c] = Len(File[c]) \/ "read" \in Faults
  /\ HGoto(c, "send", "end")
  /\ UNCHANGED <<sVars, skey, sq, sent, cVars, queued, cq, disk, hist>>

\* Mutant: no RESP_MT_END is sent.
MutNoEnd(c) == HGoto(c, "end", "exit")
               /\ UNCHANGED <<sVars, skey, sq, sent, cVars, queued, cq, disk, hist>>

HEnd(c) ==
  /\ HGoto(c, "end", "exit") /\ HSend(c, End)
  /\ UNCHANGED <<sVars, skey, sq, sent, cVars, queued, disk, hist>>

HExit(c) ==    \* the child has inherited atexit(clean)
  /\ HGoto(c, "exit", "zombie") /\ chld' = TRUE /\ Clean
  /\ UNCHANGED <<spc, req, reaping, sq, sent, cVars, queued, cq, disk, hist>>

HKill(c) ==
  /\ "killH" \in Faults /\ child[c] \in {"open", "send", "end"}
  /\ child' = [child EXCEPT ![c] = "zombie"] /\ chld' = TRUE
  /\ orphans' = orphans \cup {c}
  /\ UNCHANGED <<spc, req, reaping, skey, sq, sent, cVars, queued, cq, disk, alone, removed>>

-----------------------------------------------------------------------------
(* A client.                                                               *)

CGoto(c, at, next) == cpc[c] = at /\ cpc' = [cpc EXCEPT ![c] = next]

CGet(c) ==     \* msgget(SERVER_KEY): it finds the queue, not the server
  /\ CGoto(c, "get", IF skey THEN "create" ELSE "failed")
  /\ UNCHANGED <<sVars, skey, sq, hVars, resp, off, queued, cq, disk, hist>>

CCreate(c) ==  \* IPC_PRIVATE
  /\ CGoto(c, "create", "send") /\ queued' = queued \cup {c}
  /\ UNCHANGED <<sVars, skey, sq, hVars, resp, off, cq, disk, hist>>

CSend(c) ==    \* msgsnd() sleeps while the queue is full; it fails without the queue
  /\ skey => Len(sq) < QueueMax
  /\ CGoto(c, "send", IF skey THEN "first" ELSE "exit")
  /\ sq' = IF skey THEN Append(sq, c) ELSE sq
  /\ UNCHANGED <<sVars, skey, hVars, resp, off, queued, cq, disk, hist>>

CReceive(c) == /\ cq[c] # <<>>
               /\ resp' = [resp EXCEPT ![c] = Head(cq[c])]
               /\ cq' = [cq EXCEPT ![c] = Tail(@)]

CFirst(c) ==   \* the first answer: a failure ends the client
  /\ CReceive(c)
  /\ CGoto(c, "first", IF Head(cq[c]) = Failure THEN "exit" ELSE "trunc")
  /\ UNCHANGED <<sVars, skey, sq, hVars, off, queued, disk, hist>>

\* Mutant: the output file keeps its old contents.
MutNoTrunc(c) == /\ CGoto(c, "trunc", "store")
                 /\ disk' = disk /\ off' = [off EXCEPT ![c] = 0]
                 /\ alone' = IF \A d \in Client : cpc[d] \notin Storing THEN {c} ELSE {}
                 /\ UNCHANGED <<sVars, skey, sq, hVars, resp, queued, cq, removed, orphans>>

CTrunc(c) ==   \* open(O_CREAT), ftruncate(0) and lseek(0) on the one output file
  /\ CGoto(c, "trunc", "store")
  /\ disk' = <<>> /\ off' = [off EXCEPT ![c] = 0]
  /\ alone' = IF \A d \in Client : cpc[d] \notin Storing THEN {c} ELSE {}
  /\ UNCHANGED <<sVars, skey, sq, hVars, resp, queued, cq, removed, orphans>>

\* write() of b at offset i: what lies between the end and i becomes a hole.
WriteAt(i, b) ==
  [k \in 1..(IF i < Len(disk) THEN Len(disk) ELSE i + 1) |->
     IF k = i + 1 THEN b ELSE IF k <= Len(disk) THEN disk[k] ELSE Hole]

CStore(c) ==   \* write(fd, resp.data, msglen); the loop ends with the last message
  /\ CGoto(c, "store", IF IsData(resp[c]) THEN "more" ELSE "close")
  /\ IF IsData(resp[c])
     THEN disk' = WriteAt(off[c], resp[c]) /\ off' = [off EXCEPT ![c] = @ + 1]
     ELSE UNCHANGED <<disk, off>>
  /\ UNCHANGED <<sVars, skey, sq, hVars, resp, queued, cq, hist>>

CMore(c) ==
  /\ CReceive(c) /\ CGoto(c, "more", "store")
  /\ UNCHANGED <<sVars, skey, sq, hVars, off, queued, disk, hist>>

\* removeQueue() at exit; what was still in the queue is lost.
CExit(c) ==
  /\ cpc[c] \in {"close", "exit"}
  /\ cpc' = [cpc EXCEPT ![c] = IF cpc[c] = "close" THEN "done" ELSE "failed"]
  /\ queued' = queued \ {c} /\ cq' = [cq EXCEPT ![c] = <<>>]
  /\ UNCHANGED <<sVars, skey, sq, hVars, resp, off, disk, hist>>

CKill(c) ==
  /\ "killC" \in Faults /\ cpc[c] \notin Finished
  /\ cpc' = [cpc EXCEPT ![c] = "killed"]
  /\ UNCHANGED <<sVars, skey, sq, hVars, resp, off, queued, cq, disk, hist>>

-----------------------------------------------------------------------------
Server == SMsgget \/ SRecv \/ SRecvFails \/ SFork \/ SHandler \/ SWaitpid
Child(c) == HOpen(c) \/ HBlock(c) \/ HNoMore(c) \/ HEnd(c) \/ HExit(c)
ClientStep(c) == \/ CGet(c) \/ CCreate(c) \/ CSend(c) \/ CFirst(c) \/ CTrunc(c)
                 \/ CStore(c) \/ CMore(c) \/ CExit(c)

Next == \/ Server \/ SSignal \/ SKill \/ Ipcrm
        \/ \E c \in Client : Child(c) \/ HKill(c) \/ ClientStep(c) \/ CKill(c)

Spec == Init /\ [][Next]_vars

FairSpec == /\ Spec /\ WF_vars(Server)
            /\ \A c \in Client : WF_vars(Child(c)) /\ WF_vars(ClientStep(c))

-----------------------------------------------------------------------------
(* Properties.                                                             *)

\* A client that ends with "received n bytes" and had the output file to
\* itself leaves there the file it asked for; or a part of it, when a child
\* failed to read, for that too ends with RESP_MT_END.
AloneWhole == \A c \in Client : (cpc[c] = "close" /\ c \in alone) =>
   \/ disk = File[c]
   \/ "read" \in Faults /\ disk = SubSeq(File[c], 1, sent[c])

\* The server's queue exists as long as the server waits for requests, if
\* nobody else removes it: what the children do at exit does not take it away.
QueueServes == (spc \in Serving /\ ~removed) => skey

\* No zombie is forgotten: while there is one, SIGCHLD is pending or
\* grimReaper() is still in its loop, however many signals were merged.
NoZombieForgotten == (spc \in Serving /\ \E c \in Client : child[c] = "zombie")
                        => chld \/ reaping

\* A client that waits for its file, or for room for its request, gets the file or
\* a failure, unless its child was killed or there is no server or no queue; a
\* client that was killed with its queue full holds up nobody else.
Served == \A c \in Client :
   cpc[c] \in {"send", "first"} ~> (\/ cpc[c] \in Finished \/ c \in orphans
                        \/ removed \/ spc \in {"refused", "ended"})

\* What the message of clean() says: a server that has created the queue, and
\* then ends, removes it.
QueueRemoved == spc = "ended" => ~skey
=============================================================================
