------------------------------ MODULE UdpEcho ------------------------------
(***************************************************************************)
(* inet_socket_demo, data_server and data_client: an echo server on a UDP  *)
(* port, and clients that send their arguments one after the other, each   *)
(* time waiting for one datagram, which they take for the answer.          *)
(*                                                                         *)
(* Datagrams overtake each other; they may be lost or duplicated.  A       *)
(* client's socket is connected, so that it reads only what the server     *)
(* sent to it, and learns, by ICMP, that nobody listened.                  *)
(***************************************************************************)
EXTENDS Integers, Sequences, FiniteSets

CONSTANTS
  Client,       \* the client processes, one run each
  Args,         \* Args[c]: how many messages c is given
  TooLong,      \* TooLong[c]: those of them that exceed BUF_SIZE
  ServerAddrs,  \* the families getaddrinfo() finds for the server, in order
  HostAddrs,    \* and for the server's host, as a client names it
  NetFaults     \* a subset of NetFaultKinds

Family == {4, 6}
NetFaultKinds == {"loss", "dup",  \* datagrams are lost or duplicated
                  "socket",       \* socket(), bind() or connect() fails for an address
                  "killS"}        \* the server is killed and started again

ASSUME EchoAssumption == /\ Args \in [Client -> Nat]
                         /\ TooLong \in [Client -> SUBSET Nat]
                         /\ ServerAddrs \in Seq(Family) /\ HostAddrs \in Seq(Family)
                         /\ NetFaults \subseteq NetFaultKinds

VARIABLES
  spc, srp, peer,         \* server: the address it tries or has bound; the datagram to be echoed
  requests, replies,      \* datagrams under way, <<client, argument>>
  cpc, crp, j, printed,   \* clients: the address, the argument, the answers printed
  refused,                \* clients for whom an ICMP error is pending
  lost, copied            \* history: exchanges of which a datagram was lost; a copy stayed

sVars == <<spc, srp, peer>>
cVars == <<cpc, crp, j, printed>>
hist == <<lost, copied>>
echoVars == <<sVars, requests, replies, cVars, refused, hist>>

Datagram == UNION {{<<c, i>> : i \in 1..Args[c]} : c \in Client}
Exchange(c) == <<c, j[c]>>

EchoTypeOK ==
  /\ spc \in {"bind", "recv", "send", "failed"} /\ srp \in 1..(Len(ServerAddrs) + 1)
  /\ peer \subseteq Datagram
  /\ requests \subseteq Datagram /\ replies \subseteq Datagram
  /\ cpc \in [Client -> {"connect", "write", "read", "done", "failed"}]
  /\ \A c \in Client : /\ crp[c] \in 1..(Len(HostAddrs) + 1)
                       /\ j[c] \in 1..(Args[c] + 1)
                       /\ printed[c] \in Seq((1..Args[c]) \ TooLong[c])
  /\ refused \subseteq Client /\ lost \subseteq Datagram /\ copied \in BOOLEAN

EchoInit ==
  /\ spc = "bind" /\ srp = 1 /\ peer = {}
  /\ requests = {} /\ replies = {}
  /\ cpc = [c \in Client |-> "connect"] /\ crp = [c \in Client |-> 1]
  /\ j = [c \in Client |-> 1] /\ printed = [c \in Client |-> <<>>]
  /\ refused = {} /\ lost = {} /\ copied = FALSE

-----------------------------------------------------------------------------
(* The server.                                                             *)

SBind ==   \* for (rp = result; ...): the first address that socket and bind accept
  /\ spc = "bind"
  /\ \/ srp <= Len(ServerAddrs) /\ spc' = "recv" /\ srp' = srp
     \/ /\ srp <= Len(ServerAddrs) /\ "socket" \in NetFaults
        /\ spc' = "bind" /\ srp' = srp + 1
     \/ srp > Len(ServerAddrs) /\ spc' = "failed" /\ srp' = srp
  /\ UNCHANGED <<peer, requests, replies, cVars, refused, hist>>

\* An IPv6 wildcard socket takes IPv4 datagrams too.
Reaches(c) == /\ spc \in {"recv", "send"}
              /\ HostAddrs[crp[c]] = 4 \/ ServerAddrs[srp] = 6

\* Whether a copy of a datagram that arrives stays in the network.
Stays == IF "dup" \in NetFaults THEN BOOLEAN ELSE {FALSE}

SRecv ==   \* recvfrom(): buf and peer_addr
  /\ spc = "recv"
  /\ \E m \in requests, stays \in Stays :
        /\ Reaches(m[1])
        /\ peer' = {m}
        /\ requests' = IF stays THEN requests ELSE requests \ {m}
        /\ copied' = (copied \/ stays)
  /\ spc' = "send"
  /\ UNCHANGED <<srp, replies, cVars, refused, lost>>

\* Mutants: nothing is sent back; the answer goes to every client.
MutNoReply == /\ spc = "send" /\ spc' = "recv" /\ peer' = {}
              /\ UNCHANGED <<srp, requests, replies, cVars, refused, hist>>
MutToAll == /\ spc = "send" /\ spc' = "recv" /\ peer' = {}
            /\ replies' = replies \cup {<<c, m[2]>> : c \in Client, m \in peer}
            /\ UNCHANGED <<srp, requests, cVars, refused, hist>>

SSend ==   \* sendto(peer_addr); what is left in buf is not used again
  /\ spc = "send" /\ spc' = "recv"
  /\ replies' = replies \cup peer /\ peer' = {}
  /\ UNCHANGED <<srp, requests, cVars, refused, hist>>

\* The datagrams in the buffer of the killed server's socket, a subset of those
\* under way, vanish with it, and so does the request it has not answered yet.
SKill ==   \* and the user starts it again
  /\ "killS" \in NetFaults /\ spc \in {"recv", "send"}
  /\ spc' = "bind" /\ srp' = 1 /\ peer' = {}
  /\ \E S \in SUBSET {m \in requests : Reaches(m[1])} :
        requests' = requests \ S /\ lost' = lost \cup peer \cup S
  /\ UNCHANGED <<replies, cVars, refused, copied>>

-----------------------------------------------------------------------------
(* The network.                                                            *)

\* Nobody listens where m arrives: it is dropped, and the client may hear of it.
Refuse ==
  \E m \in requests :
     /\ ~Reaches(m[1])
     /\ requests' = requests \ {m}
     /\ \/ refused' = refused \cup {m[1]} /\ lost' = lost
        \/ "loss" \in NetFaults /\ refused' = refused /\ lost' = lost \cup {m}
     /\ UNCHANGED <<sVars, replies, cVars, copied>>

Lose ==
  /\ "loss" \in NetFaults
  /\ \/ \E m \in requests : requests' = requests \ {m} /\ lost' = lost \cup {m}
                              /\ UNCHANGED replies
     \/ \E m \in replies : replies' = replies \ {m} /\ lost' = lost \cup {m}
                             /\ UNCHANGED requests
  /\ UNCHANGED <<sVars, cVars, refused, copied>>

-----------------------------------------------------------------------------
(* A client.                                                               *)

CConnect(c) ==  \* connect() sends nothing: the first address will do
  /\ cpc[c] = "connect"
  /\ \/ /\ crp[c] <= Len(HostAddrs)
        /\ cpc' = [cpc EXCEPT ![c] = "write"] /\ UNCHANGED crp
     \/ /\ crp[c] <= Len(HostAddrs) /\ "socket" \in NetFaults
        /\ crp' = [crp EXCEPT ![c] = @ + 1] /\ UNCHANGED cpc
     \/ /\ crp[c] > Len(HostAddrs)
        /\ cpc' = [cpc EXCEPT ![c] = "failed"] /\ UNCHANGED crp
  /\ UNCHANGED <<sVars, requests, replies, j, printed, refused, hist>>

CWrite(c) ==
  /\ cpc[c] = "write"
  /\ \/ /\ j[c] > Args[c]
        /\ cpc' = [cpc EXCEPT ![c] = "done"] /\ UNCHANGED <<j, requests, refused>>
     \/ /\ j[c] <= Args[c] /\ j[c] \in TooLong[c]
        /\ j' = [j EXCEPT ![c] = @ + 1] /\ UNCHANGED <<cpc, requests, refused>>
     \/ /\ j[c] <= Args[c] /\ j[c] \notin TooLong[c] /\ c \notin refused
        /\ requests' = requests \cup {Exchange(c)}
        /\ cpc' = [cpc EXCEPT ![c] = "read"] /\ UNCHANGED <<j, refused>>
     \/ /\ j[c] <= Args[c] /\ j[c] \notin TooLong[c] /\ c \in refused
        /\ cpc' = [cpc EXCEPT ![c] = "failed"]
        /\ refused' = refused \ {c} /\ UNCHANGED <<j, requests>>
  /\ UNCHANGED <<sVars, replies, crp, printed, hist>>

\* Mutant: the client sends the next message without waiting for an answer.
MutNoWait(c) ==
  /\ cpc[c] = "read"
  /\ cpc' = [cpc EXCEPT ![c] = "write"] /\ j' = [j EXCEPT ![c] = @ + 1]
  /\ \/ UNCHANGED <<replies, printed>>
     \/ \E m \in replies : /\ m[1] = c /\ replies' = replies \ {m}
                           /\ printed' = [printed EXCEPT ![c] = Append(@, m[2])]
  /\ UNCHANGED <<sVars, requests, crp, refused, hist>>

CRead(c) ==     \* read() and printf(): whatever the server sent
  /\ cpc[c] = "read"
  /\ \/ \E m \in replies, stays \in Stays :
           /\ m[1] = c
           /\ replies' = IF stays THEN replies ELSE replies \ {m}
           /\ copied' = (copied \/ stays)
           /\ printed' = [printed EXCEPT ![c] = Append(@, m[2])]
           /\ j' = [j EXCEPT ![c] = @ + 1]
           /\ cpc' = [cpc EXCEPT ![c] = "write"]
           /\ UNCHANGED refused
     \/ /\ c \in refused
        /\ refused' = refused \ {c} /\ cpc' = [cpc EXCEPT ![c] = "failed"]
        /\ UNCHANGED <<replies, printed, j, copied>>
  /\ UNCHANGED <<sVars, requests, crp, lost>>

-----------------------------------------------------------------------------
Server == SBind \/ SRecv \/ SSend
ClientStep(c) == CConnect(c) \/ CWrite(c) \/ CRead(c)

EchoNext == \/ Server \/ SKill \/ Refuse \/ Lose
            \/ \E c \in Client : ClientStep(c)

EchoSpec == EchoInit /\ [][EchoNext]_echoVars

\* The datagram a client waits to have answered arrives, unless it is lost;
\* the copies of others owe nothing.
Arrives(c) == SRecv /\ peer' = {Exchange(c)}
EchoFairSpec == /\ EchoSpec /\ WF_echoVars(SBind \/ SSend) /\ WF_echoVars(Refuse)
                /\ \A c \in Client : SF_echoVars(Arrives(c)) /\ WF_echoVars(ClientStep(c))

-----------------------------------------------------------------------------
(* Properties.                                                             *)

Sendable(c) == {i \in 1..Args[c] : i \notin TooLong[c]}
\* How many of the first i messages c can send; the k-th message that it sends.
Rank(c, i) == Cardinality({n \in Sendable(c) : n <= i})
Sent(c, k) == CHOOSE i \in Sendable(c) : Rank(c, i) = k

\* Whatever the network duplicates or reorders, the k-th answer that a client
\* prints is the echo of one of the first k messages it sent, never of one
\* that it had yet to send or did not send, and the first is the first one's.
AnswersPast == \A c \in Client : \A k \in 1..Len(printed[c]) :
                  \E n \in 1..k : printed[c][k] = Sent(c, n)

\* Until the network has duplicated something every answer is to the message
\* just sent, however datagrams are lost or the server is restarted.
AnswersMatch == ~copied =>
   \A c \in Client : \A k \in 1..Len(printed[c]) : printed[c][k] = Sent(c, k)

\* A client goes on from a message it has sent, or learns that nobody listens,
\* unless the network lost one of the two datagrams (or a copy of one) or the server
\* was killed between the arrival of the request in its socket and sendto().  A server
\* killed before the one or after the other, and started again, does not hold the
\* client up.
Answered == \A c \in Client :
   cpc[c] = "read" ~> (cpc[c] # "read" \/ Exchange(c) \in lost)
=============================================================================
