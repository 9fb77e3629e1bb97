----------------------------- MODULE UnixSocket -----------------------------
(***************************************************************************)
(* unix_socket_demo: stream and datagram servers and clients that meet at  *)
(* one path in the file system.  A stream server hands every connection to *)
(* a thread of its own; a datagram client looks the path up for each line. *)
(* Every server starts by removing the path, whoever listens on it.        *)
(*                                                                         *)
(* A process runs once: a restart is another process.  A line is a number, *)
(* the how-many-eth of its client; each travels as one whole message, as   *)
(* the clients send, and the servers ask for, UNIX_SOCKET_MSG_SIZE bytes.  *)
(***************************************************************************)
EXTENDS Integers, Sequences, FiniteSets, FiniteSetsExt

CONSTANTS
  StrServer, DataServer,  \* the processes, by what they were told to be
  StrClient, DataClient,
  Nobody,                 \* model value: no process
  Together,               \* which processes take part (a bound): sets of them
  Lines,                  \* how many lines are typed into a client (a bound)
  Backlog,                \* the argument of listen()
  Room,                   \* how many messages a socket buffers
  Faults                  \* what may go wrong, a subset of FaultKinds

FaultKinds == {"malloc", "thread", "end", "killC"}
Server == StrServer \cup DataServer
Client == StrClient \cup DataClient

ASSUME SocketAssumption ==
  /\ Nobody \notin Server \cup Client
  /\ StrServer \cap DataServer = {} /\ StrClient \cap DataClient = {}
  /\ IsFiniteSet(StrClient) /\ Together \subseteq SUBSET (Server \cup Client)
  /\ Lines \in Nat /\ Backlog \in Nat /\ Room \in Nat \ {0}

VARIABLES
  path,        \* the server whose socket has the name UNIX_SOCKET_PATH
  spc,         \* of each server: what it does next
  waiting,     \* of each stream server: the connections it has not accepted
  dq,          \* of each datagram server: <<client, line>> not yet received
  fd,          \* of each stream server: which connection a descriptor is
  cfd,         \* of each stream server: the variable of the accept loop
  thr, cell,   \* of each connection: its thread; the int its thread was given
  cpc, sent,   \* of each client: what it does next; the lines it has sent
  peer,        \* of each client: the server it is connected to, or sends to
  buf,         \* of each connection: the lines not yet received
  printed,     \* of each client: the lines of it that were printed
  first,       \* history: where the path led at the first line of a client
  robbed       \* history: servers that ran when their path was removed

sVars == <<path, spc, robbed>>
tVars == <<fd, cfd, thr, cell>>
cVars == <<cpc, sent, peer, first>>
vars == <<path, spc, waiting, dq, fd, cfd, thr, cell, cpc, sent, peer, buf,
          printed, first, robbed>>

Slots == 1..Cardinality(StrClient)     \* descriptors, from the first free one on
Starting == {"remove", "bind", "listen"}
Serving == {"accept", "recv"}
Left == {"done", "sigpipe", "killed"}  \* the client's end is closed

Alive(s) == s \in Server /\ spc[s] \in Starting \cup Serving

TypeOK ==
  /\ path \in Server \cup {Nobody} /\ robbed \subseteq Server
  /\ spc \in [Server -> {"absent", "off", "failed", "ended"} \cup Starting \cup Serving]
  /\ waiting \in [StrServer -> Seq(StrClient)]
  /\ dq \in [DataServer -> Seq(DataClient \X Nat)]
  /\ fd \in [StrServer -> [Slots -> StrClient \cup {Nobody}]]
  /\ cfd \in [StrServer -> Nat] /\ cell \in [StrClient -> Nat]
  /\ thr \in [StrClient -> {"none", "recv", "close", "gone", "refused"}]
  /\ cpc \in [Client -> {"absent", "connect", "type", "deliver", "failed"} \cup Left]
  /\ sent \in [Client -> 0..Lines]
  /\ peer \in [Client -> Server \cup {Nobody}]
  /\ buf \in [StrClient -> Seq(Nat)] /\ printed \in [Client -> Seq(Nat)]
  /\ first \in [DataClient -> Server \cup {Nobody}]

\* The path may lead nowhere; what a dead server left there changes nothing, as
\* everybody removes it.
Init ==
  /\ path = Nobody /\ robbed = {}
  /\ \E group \in Together :
       /\ spc = [s \in Server |-> IF s \in group THEN "off" ELSE "absent"]
       /\ cpc = [c \in Client |-> IF c \notin group THEN "absent"
                                   ELSE IF c \in StrClient THEN "connect" ELSE "type"]
  /\ waiting = [s \in StrServer |-> <<>>] /\ dq = [s \in DataServer |-> <<>>]
  /\ fd = [s \in StrServer |-> [f \in Slots |-> Nobody]]
  /\ cfd = [s \in StrServer |-> 0]
  /\ thr = [c \in StrClient |-> "none"] /\ cell = [c \in StrClient |-> 0]
  /\ sent = [c \in Client |-> 0] /\ peer = [c \in Client |-> Nobody]
  /\ buf = [c \in StrClient |-> <<>>] /\ printed = [c \in Client |-> <<>>]
  /\ first = [c \in DataClient |-> Nobody]

-----------------------------------------------------------------------------
(* How a server of either kind comes and goes.                             *)

SGoto(s, from, to) == spc[s] = from /\ spc' = [spc EXCEPT ![s] = to]

SSocket(s) ==
  /\ SGoto(s, "off", "remove")
  /\ UNCHANGED <<path, robbed, waiting, dq, tVars, cVars, buf, printed>>

SRemove(s) ==   \* remove(UNIX_SOCKET_PATH)
  /\ SGoto(s, "remove", "bind")
  /\ robbed' = robbed \cup {t \in Server : t = path /\ Alive(t)}
  /\ path' = Nobody
  /\ UNCHANGED <<waiting, dq, tVars, cVars, buf, printed>>

\* Mutant: a server that cannot bind cleans up the path as it ends.
MutCleans(s) ==
  /\ IF path = Nobody
     THEN SGoto(s, "bind", IF s \in StrServer THEN "listen" ELSE "recv") /\ path' = s
     ELSE SGoto(s, "bind", "failed") /\ path' = Nobody
  /\ UNCHANGED <<robbed, waiting, dq, tVars, cVars, buf, printed>>

SBind(s) ==     \* EADDRINUSE when another server was faster
  /\ IF path = Nobody
     THEN SGoto(s, "bind", IF s \in StrServer THEN "listen" ELSE "recv") /\ path' = s
     ELSE SGoto(s, "bind", "failed") /\ path' = path
  /\ UNCHANGED <<robbed, waiting, dq, tVars, cVars, buf, printed>>

SListen(s) ==
  /\ s \in StrServer /\ SGoto(s, "listen", "accept")
  /\ UNCHANGED <<path, robbed, waiting, dq, tVars, cVars, buf, printed>>

\* A signal, or a call that fails, ends the process with all its threads.
SEnd(s) ==
  /\ "end" \in Faults /\ Alive(s)
  /\ spc' = [spc EXCEPT ![s] = "ended"]
  /\ UNCHANGED <<path, robbed, waiting, dq, tVars, cVars, buf, printed>>

-----------------------------------------------------------------------------
(* The stream server.                                                      *)

FreeSlot(s) == Min({f \in Slots : fd[s][f] = Nobody})

\* The accept loop: malloc() of a cell for the descriptor, and a thread, which
\* gets the cell even if it is NULL; without a thread the connection is closed.
Handed(s, c, f) ==
  /\ fd' = [fd EXCEPT ![s][f] = c] /\ thr' = [thr EXCEPT ![c] = "recv"]
  /\ \E p \in {f} \cup (IF "malloc" \in Faults THEN {0} ELSE {}) :
        cell' = [cell EXCEPT ![c] = p]

\* Mutant: without a thread the connection stays open.
MutLeak(s, c, f) ==
  /\ "thread" \in Faults
  /\ thr' = [thr EXCEPT ![c] = "refused"] /\ fd' = [fd EXCEPT ![s][f] = c]
  /\ UNCHANGED cell

Refused(s, c, f) ==
  /\ "thread" \in Faults
  /\ thr' = [thr EXCEPT ![c] = "refused"]
  /\ UNCHANGED <<fd, cell>>

SAccept(s) ==
  /\ s \in StrServer /\ spc[s] = "accept" /\ waiting[s] # <<>>
  /\ LET c == Head(waiting[s]) f == FreeSlot(s)
     IN  /\ cfd' = [cfd EXCEPT ![s] = f]
         /\ Handed(s, c, f) \/ Refused(s, c, f)
  /\ waiting' = [waiting EXCEPT ![s] = Tail(@)]
  /\ UNCHANGED <<sVars, dq, cVars, buf, printed>>

\* Mutant: the thread is given the address of the loop's variable.
MutAddress(c) == cfd[peer[c]]

Cell(c) == cell[c]      \* *pcfd, read again at each call

TRecv(c) ==
  /\ thr[c] = "recv" /\ Alive(peer[c])
  /\ LET s == peer[c] IN
     \/ /\ Cell(c) = 0                                  \* SIGSEGV
        /\ spc' = [spc EXCEPT ![s] = "ended"]
        /\ UNCHANGED <<thr, buf, printed>>
     \/ /\ Cell(c) # 0
        /\ LET d == fd[s][Cell(c)] IN
           \/ /\ d # Nobody /\ buf[d] # <<>>
              /\ printed' = [printed EXCEPT ![d] = Append(@, Head(buf[d]))]
              /\ buf' = [buf EXCEPT ![d] = Tail(@)]
              /\ UNCHANGED thr
           \/ /\ d # Nobody => buf[d] = <<>> /\ cpc[d] \in Left
              /\ thr' = [thr EXCEPT ![c] = "close"]
              /\ UNCHANGED <<buf, printed>>
        /\ spc' = spc
  /\ UNCHANGED <<path, robbed, waiting, dq, fd, cfd, cell, cVars>>

TClose(c) ==
  /\ thr[c] = "close" /\ Alive(peer[c])
  /\ thr' = [thr EXCEPT ![c] = "gone"]
  /\ fd' = [fd EXCEPT ![peer[c]][Cell(c)] = Nobody]
  /\ cell' = [cell EXCEPT ![c] = 0]
  /\ UNCHANGED <<sVars, waiting, dq, cfd, cVars, buf, printed>>

-----------------------------------------------------------------------------
(* The stream client.                                                      *)

CGoto(c, from, to) == cpc[c] = from /\ cpc' = [cpc EXCEPT ![c] = to]

Listening == path \in StrServer /\ spc[path] = "accept"

\* connect() sleeps while the backlog is full, then looks again.
CConnect(c) ==
  /\ \/ /\ Listening
        /\ Len(waiting[path]) <= Backlog
        /\ CGoto(c, "connect", "type")
        /\ waiting' = [waiting EXCEPT ![path] = Append(@, c)]
        /\ peer' = [peer EXCEPT ![c] = path]
     \/ /\ ~Listening
        /\ CGoto(c, "connect", "failed")
        /\ UNCHANGED <<waiting, peer>>
  /\ UNCHANGED <<sVars, dq, tVars, sent, first, buf, printed>>

\* The other end of a connection is there.
Open(c) == /\ Alive(peer[c])
           /\ \/ \E i \in 1..Len(waiting[peer[c]]) : waiting[peer[c]][i] = c
              \/ \E f \in Slots : fd[peer[c]][f] = c

\* A line that the server's thread is not there to read is SIGPIPE.
CSend(c) ==
  /\ cpc[c] = "type" /\ sent[c] < Lines
  /\ \/ /\ Open(c) /\ Len(buf[c]) < Room
        /\ buf' = [buf EXCEPT ![c] = Append(@, sent[c] + 1)]
        /\ sent' = [sent EXCEPT ![c] = @ + 1]
        /\ cpc' = cpc
     \/ /\ ~Open(c) /\ CGoto(c, "type", "sigpipe")
        /\ UNCHANGED <<buf, sent>>
  /\ UNCHANGED <<sVars, waiting, dq, tVars, peer, first, printed>>

CEof(c) ==      \* the end of the input
  /\ CGoto(c, "type", "done")
  /\ UNCHANGED <<sVars, waiting, dq, tVars, sent, peer, first, buf, printed>>

CKill(c) ==
  /\ "killC" \in Faults /\ CGoto(c, "type", "killed")
  /\ UNCHANGED <<sVars, waiting, dq, tVars, sent, peer, first, buf, printed>>

-----------------------------------------------------------------------------
(* The datagram client and server.  Nobody looks at the result of sendto(). *)

\* Where a line goes that is sent now; to nobody if no datagram server listens.
Found == IF path \in DataServer /\ spc[path] = "recv" THEN path ELSE Nobody

DLine(c) ==
  /\ sent[c] < Lines
  /\ sent' = [sent EXCEPT ![c] = @ + 1]
  /\ first' = IF sent[c] = 0 THEN [first EXCEPT ![c] = path] ELSE first
  /\ peer' = [peer EXCEPT ![c] = Found]
  /\ CGoto(c, "type", IF Found = Nobody THEN "type" ELSE "deliver")
  /\ UNCHANGED <<sVars, waiting, dq, tVars, buf, printed>>

\* Mutant: a full queue refuses the line.
MutRefuse(c) ==
  LET t == peer[c] IN
  /\ CGoto(c, "deliver", "type") /\ peer' = peer
  /\ dq' = IF Alive(t) /\ Len(dq[t]) < Room THEN [dq EXCEPT ![t] = Append(@, <<c, sent[c]>>)]
           ELSE dq
  /\ UNCHANGED <<sVars, waiting, tVars, sent, first, buf, printed>>

\* sendto() sleeps while the queue is full; when the server has died meanwhile
\* the path is looked up again.
DDeliver(c) ==
  LET t == peer[c] IN
  /\ cpc[c] = "deliver"
  /\ \/ /\ Alive(t) /\ Len(dq[t]) < Room
        /\ CGoto(c, "deliver", "type")
        /\ dq' = [dq EXCEPT ![t] = Append(@, <<c, sent[c]>>)]
        /\ peer' = peer
     \/ /\ ~Alive(t)
        /\ CGoto(c, "deliver", IF Found = Nobody THEN "type" ELSE "deliver")
        /\ peer' = [peer EXCEPT ![c] = Found]
        /\ dq' = dq
  /\ UNCHANGED <<sVars, waiting, tVars, sent, first, buf, printed>>

DRecv(s) ==
  /\ s \in DataServer /\ spc[s] = "recv" /\ dq[s] # <<>>
  /\ LET m == Head(dq[s])
     IN printed' = [printed EXCEPT ![m[1]] = Append(@, m[2])]
  /\ dq' = [dq EXCEPT ![s] = Tail(@)]
  /\ UNCHANGED <<sVars, waiting, tVars, cVars, buf>>

-----------------------------------------------------------------------------
ServerStep(s) == \/ SSocket(s) \/ SRemove(s) \/ SBind(s) \/ SListen(s) \/ SEnd(s)
                 \/ SAccept(s) \/ DRecv(s)
Thread(c) == TRecv(c) \/ TClose(c)
StrStep(c) == CConnect(c) \/ CSend(c) \/ CEof(c) \/ CKill(c)
DataStep(c) == DLine(c) \/ DDeliver(c)

Next == \/ \E s \in Server : ServerStep(s)
        \/ \E c \in StrClient : Thread(c) \/ StrStep(c)
        \/ \E c \in DataClient : DataStep(c)

Spec == Init /\ [][Next]_vars

\* The accept loop and the threads run when they can.
FairSpec == /\ Spec
            /\ \A s \in StrServer : WF_vars(SAccept(s))
            /\ \A c \in StrClient : WF_vars(Thread(c))

-----------------------------------------------------------------------------
(* Properties.                                                             *)

\* A thread uses a descriptor that is open and is the connection it was started
\* for, though descriptors are closed and given out again while others run.
OwnConnection == \A c \in StrClient :
   (thr[c] \in {"recv", "close"} /\ Alive(peer[c]) /\ Cell(c) # 0)
      => fd[peer[c]][Cell(c)] = c

\* A stream client that ends after its last line has all its lines printed, in
\* order, and its descriptor is closed, unless the server has ended or could
\* not start a thread; if it could not, the descriptor is closed all the same.
StreamServed == \A c \in StrClient :
   cpc[c] = "done" ~> \/ ~Alive(peer[c])
                      \/ /\ \A f \in Slots : fd[peer[c]][f] # c
                         /\ thr[c] = "gone" => printed[c] = [k \in 1..sent[c] |-> k]
                         /\ thr[c] \in {"gone", "refused"}

\* Where in its queue a datagram server has lines of client c; the lines of c
\* that sendto() has handed over.
Places(c, d) == {i \in 1..Len(dq[d]) : dq[d][i][1] = c}
HandedOver(c) == IF cpc[c] = "deliver" THEN sent[c] - 1 ELSE sent[c]

\* As long as a datagram server runs and nobody has removed its path, it has
\* printed, or will receive, every line of a client that found it at its first
\* line, in order, each once.
DataWhole == \A c \in DataClient, d \in DataServer :
   (first[c] = d /\ spc[d] = "recv" /\ d \notin robbed) =>
      /\ \A k \in 1..Len(printed[c]) : printed[c][k] = k
      /\ \A i, j \in Places(c, d) : i < j => dq[d][i][2] < dq[d][j][2]
      /\ {dq[d][i][2] : i \in Places(c, d)} = (Len(printed[c]) + 1)..HandedOver(c)

\* However the start-ups of several servers interleave, once they are through
\* the path leads to a server that runs, unless one was ended.
PathServed == (/\ \A s \in Server : spc[s] \in {"absent", "off", "failed"} \cup Serving
               /\ \E s \in Server : spc[s] \notin {"absent", "off"})
                 => path \in Server /\ spc[path] \in Serving
=============================================================================
