-------------------------- MODULE UnixSocketProofs --------------------------
(***************************************************************************)
(* unix_socket_demo, for any number of servers, clients, lines and places  *)
(* in queues, and whatever fails: the path leads to a server that runs, a  *)
(* thread serves its own connection, and a datagram server that runs with  *)
(* its path prints every line once and in order.                           *)
(***************************************************************************)
EXTENDS UnixSocket, FiniteSetTheorems, SequenceTheorems, WellFoundedInduction, TLAPS

(* The path.                                                               *)

\* While the path leads nowhere, somebody is about to bind, or has ended, or
\* nobody has got as far as that; whom it leads to has bound.
PathInv ==
  /\ spc \in [Server -> {"absent", "off", "failed", "ended"} \cup Starting \cup Serving]
  /\ path \in Server \cup {Nobody}
  /\ path \in Server => spc[path] \in {"listen", "ended"} \cup Serving
  /\ path = Nobody => \/ \E s \in Server : spc[s] \in {"bind", "ended"}
                      \/ \A s \in Server : spc[s] \in {"absent", "off", "remove"}

LEMMA PathStep == PathInv /\ [Next]_vars => PathInv'
<1> SUFFICES ASSUME PathInv, [Next]_vars PROVE PathInv'
  OBVIOUS
<1> USE DEF Starting, Serving
<1>1. CASE UNCHANGED <<path, spc>>
  BY <1>1 DEF PathInv
<1>2. ASSUME NEW s \in Server, ServerStep(s) PROVE PathInv'
  <2>1. CASE SSocket(s)
    BY <2>1, SocketAssumption DEF PathInv, SSocket, SGoto
  <2>2. CASE SRemove(s)
    <3>1. spc'[s] = "bind" /\ path' = Nobody
      BY <2>2 DEF SRemove, SGoto, PathInv
    <3>2. QED
      BY <2>2, <3>1, SocketAssumption DEF PathInv, SRemove, SGoto
  <2>3. CASE SBind(s)
    <3>1. CASE path = Nobody
      <4>1. path' = s /\ spc'[s] \in {"listen", "recv"}
        BY <2>3, <3>1 DEF SBind, SGoto, PathInv
      <4>2. QED
        BY <2>3, <3>1, <4>1, SocketAssumption DEF PathInv, SBind, SGoto
    <3>2. CASE path # Nobody
      BY <2>3, <3>2 DEF PathInv, SBind, SGoto
    <3>3. QED
      BY <3>1, <3>2
  <2>4. CASE SListen(s)
    BY <2>4 DEF PathInv, SListen, SGoto
  <2>5. CASE SEnd(s)
    <3>1. spc'[s] = "ended" /\ path' = path
      BY <2>5 DEF SEnd, PathInv
    <3>2. QED
      BY <2>5, <3>1 DEF PathInv, SEnd
  <2>6. CASE SAccept(s)
    BY <1>1, <2>6 DEF SAccept, sVars
  <2>7. CASE DRecv(s)
    BY <1>1, <2>7 DEF DRecv, sVars
  <2>8. QED
    BY <1>2, <2>1, <2>2, <2>3, <2>4, <2>5, <2>6, <2>7 DEF ServerStep
<1>3. ASSUME NEW c \in StrClient, Thread(c) PROVE PathInv'
  <2>1. path' = path /\ (spc' = spc \/ (peer[c] \in Server /\ spc' = [spc EXCEPT ![peer[c]] = "ended"]))
    BY <1>3 DEF Thread, TRecv, TClose, sVars, Alive
  <2>2. CASE spc' = spc
    BY <1>1, <2>1, <2>2
  <2>3. CASE peer[c] \in Server /\ spc' = [spc EXCEPT ![peer[c]] = "ended"]
    <3>1. spc'[peer[c]] = "ended"
      BY <2>3 DEF PathInv
    <3>2. QED
      BY <2>1, <2>3, <3>1 DEF PathInv
  <2>4. QED
    BY <2>1, <2>2, <2>3
<1>4. ASSUME NEW c \in StrClient, StrStep(c) PROVE PathInv'
  BY <1>1, <1>4 DEF StrStep, CConnect, CSend, CEof, CKill, sVars
<1>5. ASSUME NEW c \in DataClient, DataStep(c) PROVE PathInv'
  BY <1>1, <1>5 DEF DataStep, DLine, DDeliver, sVars
<1>6. QED
  BY <1>1, <1>2, <1>3, <1>4, <1>5 DEF Next, vars

\* For any servers, and however their start-ups interleave: once they are
\* through, the path leads to one that runs, unless one was ended.
THEOREM PathLeads == Spec => []PathServed
<1>1. Init => PathInv
  BY SocketAssumption DEF Init, PathInv, Starting, Serving
<1>2. PathInv => PathServed
  BY DEF PathInv, PathServed, Starting, Serving
<1>3. QED
  BY <1>1, <1>2, PathStep, PTL DEF Spec
-----------------------------------------------------------------------------
(* The descriptors.                                                        *)

Waits(s, c) == \E i \in 1..Len(waiting[s]) : waiting[s][i] = c

Owned == \A s \in StrServer, f \in Slots, c \in StrClient :
   fd[s][f] = c => thr[c] \in {"recv", "close"} /\ peer[c] = s

Single == \A s \in StrServer : \A f, g \in Slots :
   fd[s][f] = fd[s][g] /\ fd[s][f] # Nobody => f = g

HasOwn == \A c \in StrClient : thr[c] \in {"recv", "close"} =>
   /\ peer[c] \in StrServer
   /\ cell[c] # 0 => cell[c] \in Slots /\ fd[peer[c]][cell[c]] = c

Once == \A s \in StrServer : \A i, j \in 1..Len(waiting[s]) : waiting[s][i] = waiting[s][j] => i = j

\* A connection waits once, at its server, before it has a thread; a descriptor
\* that is in use is one connection's, and this has a thread; a thread has its
\* descriptor in its cell, or NULL, with which it does not get as far as close().
OwnInv ==
  /\ waiting \in [StrServer -> Seq(StrClient)]
  /\ fd \in [StrServer -> [Slots -> StrClient \cup {Nobody}]]
  /\ cell \in [StrClient -> Nat] /\ DOMAIN thr = StrClient
  /\ DOMAIN peer = Client /\ DOMAIN cpc = Client
  /\ \A s \in StrServer, c \in StrClient :
        Waits(s, c) => thr[c] = "none" /\ peer[c] = s /\ cpc[c] # "connect"
  /\ Once
  /\ \A c \in StrClient : cpc[c] = "connect" => thr[c] = "none"
  /\ \A c \in StrClient : thr[c] = "close" => cell[c] # 0
  /\ Owned /\ Single /\ HasOwn

\* There are as many slots as clients: one is free for a client that has none.
LEMMA SlotFree ==
  ASSUME OwnInv, NEW s \in StrServer, NEW c \in StrClient, thr[c] = "none"
  PROVE  FreeSlot(s) \in Slots /\ fd[s][FreeSlot(s)] = Nobody
<1>1. IsFiniteSet(StrClient) /\ Cardinality(StrClient) \in Nat
  BY SocketAssumption, FS_CardinalityType
<1>2. IsFiniteSet(Slots) /\ Cardinality(Slots) = Cardinality(StrClient) /\ Slots \subseteq Nat
  <2>1. IsFiniteSet(Slots) /\ Cardinality(Slots) =
          IF 1 > Cardinality(StrClient) THEN 0 ELSE Cardinality(StrClient) - 1 + 1
    BY <1>1, FS_Interval DEF Slots
  <2>2. QED
    BY <1>1, <2>1 DEF Slots
<1>3. /\ IsFiniteSet(StrClient \ {c})
      /\ Cardinality(StrClient \ {c}) = Cardinality(StrClient) - 1
  BY <1>1, FS_RemoveElement
<1>4. \E f \in Slots : fd[s][f] = Nobody
  <2> SUFFICES ASSUME \A f \in Slots : fd[s][f] # Nobody PROVE FALSE
    OBVIOUS
  <2>1. \A f \in Slots : fd[s][f] # c
    <3>1. Owned
      BY DEF OwnInv
    <3>2. QED
      BY <3>1 DEF Owned
  <2>2. fd[s] \in [Slots -> StrClient \ {c}]
    BY <2>1 DEF OwnInv
  <2>3. Cardinality(StrClient \ {c}) < Cardinality(Slots)
    BY <1>1, <1>2, <1>3
  <2> DEFINE Others == StrClient \ {c}
             row == fd[s]
  <2>4. /\ IsFiniteSet(Slots) /\ IsFiniteSet(Others)
        /\ Cardinality(Others) < Cardinality(Slots) /\ row \in [Slots -> Others]
    BY <1>2, <1>3, <2>2, <2>3
  <2> HIDE DEF Others, row
  <2>5. \E f, g \in Slots : f # g /\ row[f] = row[g]
    BY <2>4, FS_PigeonHole
  <2>6. QED
    BY <2>5 DEF OwnInv, Single, row
<1> DEFINE Free == {f \in Slots : fd[s][f] = Nobody}
<1>5. PICK x \in Free : \A y \in Free : ~(<<y, x>> \in OpToRel(<, Nat))
  <2>1. Free \subseteq Nat /\ Free # {}
    BY <1>2, <1>4
  <2>2. QED
    BY <2>1, NatLessThanWellFounded, WFMin
<1>6. x \in Free /\ \A y \in Free : x <= y
  <2>1. \A y \in Free : ~(y < x)
    BY <1>2, <1>5 DEF OpToRel
  <2>2. QED
    BY <1>2, <2>1
<1> HIDE DEF Free
<1>7. Min(Free) \in Free
  BY <1>6 DEF Min
<1>8. QED
  BY <1>7 DEF Free, FreeSlot

LEMMA AcceptStep ==
  ASSUME OwnInv, NEW s \in StrServer, SAccept(s)
  PROVE  OwnInv'
<1> DEFINE c == Head(waiting[s])
           f == FreeSlot(s)
<1>1. waiting[s] \in Seq(StrClient) /\ waiting[s] # <<>> /\ Len(waiting[s]) \in Nat /\ Len(waiting[s]) >= 1
  BY DEF OwnInv, Once, Owned, Single, HasOwn, SAccept
<1>2. c \in StrClient /\ c = waiting[s][1] /\ Waits(s, c)
  BY <1>1 DEF Waits
<1>3. thr[c] = "none" /\ peer[c] = s /\ cpc[c] # "connect"
  BY <1>2 DEF OwnInv, Once, Owned, Single, HasOwn
<1>4. f \in Slots /\ fd[s][f] = Nobody /\ f \in Nat /\ f # 0 /\ c # Nobody
  BY <1>2, <1>3, SlotFree, SocketAssumption, FS_CardinalityType DEF Slots, Client
<1>5. waiting' = [waiting EXCEPT ![s] = Tail(@)] /\ peer' = peer /\ cpc' = cpc
  BY DEF SAccept, cVars
<1>6. Handed(s, c, f) \/ Refused(s, c, f)
  BY DEF SAccept
<1> HIDE DEF c, f
<1>7. /\ waiting' \in [StrServer -> Seq(StrClient)]
      /\ Len(waiting'[s]) = Len(waiting[s]) - 1
      /\ \A i \in 1..(Len(waiting[s]) - 1) : waiting'[s][i] = waiting[s][i + 1]
      /\ \A r \in StrServer \ {s} : waiting'[r] = waiting[r]
  BY <1>1, <1>5 DEF OwnInv, Once, Owned, Single, HasOwn
<1>8. \A r \in StrServer, d \in StrClient : Waits(r, d)' => Waits(r, d) /\ d # c
  <2> SUFFICES ASSUME NEW r \in StrServer, NEW d \in StrClient, Waits(r, d)' PROVE Waits(r, d) /\ d # c
    OBVIOUS
  <2>1. CASE r = s
    <3>1. PICK i \in 1..(Len(waiting[s]) - 1) : waiting[s][i + 1] = d
      BY <1>7, <2>1 DEF Waits
    <3>2. i + 1 \in 1..Len(waiting[s]) /\ 1 \in 1..Len(waiting[s]) /\ i + 1 # 1
      BY <1>1
    <3>3. QED
      BY <1>2, <2>1, <3>1, <3>2 DEF OwnInv, Once, Owned, Single, HasOwn, Waits
  <2>2. CASE r # s
    <3>1. Waits(r, d)
      BY <1>7, <2>2 DEF Waits
    <3>2. QED
      BY <1>3, <2>2, <3>1 DEF OwnInv, Once, Owned, Single, HasOwn
  <2>3. QED
    BY <2>1, <2>2
<1>9. \A r \in StrServer : \A i, j \in 1..Len(waiting'[r]) : waiting'[r][i] = waiting'[r][j] => i = j
  <2> SUFFICES ASSUME NEW r \in StrServer, NEW i \in 1..Len(waiting'[r]), NEW j \in 1..Len(waiting'[r]),
                      waiting'[r][i] = waiting'[r][j]
               PROVE  i = j
    OBVIOUS
  <2>1. CASE r = s
    <3>1. i + 1 \in 1..Len(waiting[s]) /\ j + 1 \in 1..Len(waiting[s]) /\ i \in Int /\ j \in Int
      BY <1>1, <1>7, <2>1
    <3>2. waiting[s][i + 1] = waiting[s][j + 1]
      BY <1>7, <2>1
    <3>3. \A k, l \in 1..Len(waiting[s]) : waiting[s][k] = waiting[s][l] => k = l
      BY DEF OwnInv, Once, Owned, Single, HasOwn
    <3>4. i + 1 = j + 1
      BY <3>1, <3>2, <3>3
    <3>5. QED
      BY <3>1, <3>4
  <2>2. CASE r # s
    <3>1. waiting'[r] = waiting[r]
      BY <1>7, <2>2
    <3>2. Once
      BY DEF OwnInv
    <3>3. QED
      BY <3>1, <3>2 DEF Once
  <2>3. QED
    BY <2>1, <2>2
<1>10. CASE Handed(s, c, f)
  <2>1. /\ fd' \in [StrServer -> [Slots -> StrClient \cup {Nobody}]]
        /\ fd'[s][f] = c /\ \A g \in Slots : g # f => fd'[s][g] = fd[s][g]
        /\ \A r \in StrServer \ {s} : fd'[r] = fd[r]
    BY <1>2, <1>4, <1>10 DEF Handed, OwnInv, Owned, Single, HasOwn
  <2>2. /\ cell' \in [StrClient -> Nat] /\ cell'[c] \in {0, f}
        /\ \A d \in StrClient \ {c} : cell'[d] = cell[d]
    BY <1>2, <1>4, <1>10 DEF Handed, OwnInv, Owned, Single, HasOwn
  <2>3. DOMAIN thr' = StrClient /\ thr'[c] = "recv" /\ \A d \in StrClient \ {c} : thr'[d] = thr[d]
    BY <1>2, <1>10 DEF Handed, OwnInv, Owned, Single, HasOwn
  <2>4. \A r \in StrServer, g \in Slots : fd[r][g] # c
    BY <1>2, <1>3 DEF OwnInv, Once, Owned, Single, HasOwn
  <2>5. \A r \in StrServer, g \in Slots, d \in StrClient :
           fd'[r][g] = d => thr'[d] \in {"recv", "close"} /\ peer'[d] = r
    <3> SUFFICES ASSUME NEW r \in StrServer, NEW g \in Slots, NEW d \in StrClient, fd'[r][g] = d
                 PROVE  thr'[d] \in {"recv", "close"} /\ peer'[d] = r
      OBVIOUS
    <3>1. CASE r = s /\ g = f
      BY <1>3, <1>5, <2>1, <2>3, <3>1
    <3>2. CASE r # s \/ g # f
      <4>1. fd[r][g] = d
        BY <2>1, <3>2
      <4>2. thr[d] \in {"recv", "close"} /\ peer[d] = r
        BY <4>1 DEF OwnInv, Owned
      <4>3. QED
        BY <1>3, <1>5, <2>3, <4>2
    <3>3. QED
      BY <3>1, <3>2
  <2>6. \A r \in StrServer : \A g, h \in Slots :
           fd'[r][g] = fd'[r][h] /\ fd'[r][g] # Nobody => g = h
    <3> SUFFICES ASSUME NEW r \in StrServer, NEW g \in Slots, NEW h \in Slots,
                        fd'[r][g] = fd'[r][h], fd'[r][g] # Nobody
                 PROVE  g = h
      OBVIOUS
    <3>1. CASE r = s /\ (g = f \/ h = f)
      BY <2>1, <2>4, <3>1
    <3>2. CASE ~(r = s /\ (g = f \/ h = f))
      <4>1. fd'[r][g] = fd[r][g] /\ fd'[r][h] = fd[r][h]
        BY <2>1, <3>2
      <4>2. fd[r][g] = fd[r][h] /\ fd[r][g] # Nobody
        BY <4>1
      <4>3. QED
        BY <4>2 DEF OwnInv, Single
    <3>3. QED
      BY <3>1, <3>2
  <2>7. \A d \in StrClient : thr'[d] \in {"recv", "close"} =>
           /\ peer'[d] \in StrServer
           /\ cell'[d] # 0 => cell'[d] \in Slots /\ fd'[peer'[d]][cell'[d]] = d
    <3> SUFFICES ASSUME NEW d \in StrClient, thr'[d] \in {"recv", "close"}
                 PROVE  /\ peer'[d] \in StrServer
                        /\ cell'[d] # 0 => cell'[d] \in Slots /\ fd'[peer'[d]][cell'[d]] = d
      OBVIOUS
    <3>1. CASE d = c
      BY <1>3, <1>4, <1>5, <2>1, <2>2, <3>1
    <3>2. CASE d # c
      <4>1. /\ peer[d] \in StrServer /\ cell'[d] = cell[d]
            /\ cell[d] # 0 => cell[d] \in Slots /\ fd[peer[d]][cell[d]] = d
        BY <2>2, <2>3, <3>2 DEF OwnInv, Once, Owned, Single, HasOwn
      <4>2. d # Nobody
        BY SocketAssumption DEF Client
      <4>3. QED
        BY <1>4, <1>5, <2>1, <4>1, <4>2
    <3>3. QED
      BY <3>1, <3>2
  <2>8. \A d \in StrClient : thr'[d] = "close" => cell'[d] # 0
    BY <2>2, <2>3 DEF OwnInv, Once, Owned, Single, HasOwn
  <2>9. /\ \A r \in StrServer, d \in StrClient :
              Waits(r, d)' => thr'[d] = "none" /\ peer'[d] = r /\ cpc'[d] # "connect"
        /\ \A d \in StrClient : cpc'[d] = "connect" => thr'[d] = "none"
    BY <1>3, <1>5, <1>8, <2>3 DEF OwnInv, Once, Owned, Single, HasOwn
  <2>10. DOMAIN peer' = Client /\ DOMAIN cpc' = Client
    BY <1>5 DEF OwnInv, Once, Owned, Single, HasOwn
  <2>11. QED
    BY <1>7, <1>9, <2>1, <2>2, <2>3, <2>5, <2>6, <2>7, <2>8, <2>9, <2>10 DEF OwnInv, Once, Owned, Single, HasOwn
<1>11. CASE Refused(s, c, f)
  <2>1. /\ fd' = fd /\ cell' = cell /\ DOMAIN thr' = StrClient
        /\ thr'[c] = "refused" /\ \A d \in StrClient \ {c} : thr'[d] = thr[d]
    BY <1>2, <1>11 DEF Refused, OwnInv, Owned, Single, HasOwn
  <2>2. \A d \in StrClient : thr'[d] \in {"recv", "close"} => thr'[d] = thr[d]
    BY <2>1
  <2>3. \A r \in StrServer, g \in Slots, d \in StrClient :
           fd'[r][g] = d => thr'[d] \in {"recv", "close"} /\ peer'[d] = r
    <3> SUFFICES ASSUME NEW r \in StrServer, NEW g \in Slots, NEW d \in StrClient, fd[r][g] = d
                 PROVE  thr'[d] \in {"recv", "close"} /\ peer'[d] = r
      BY <2>1
    <3>1. thr[d] \in {"recv", "close"} /\ peer[d] = r
      BY DEF OwnInv, Owned
    <3>2. QED
      BY <1>3, <1>5, <2>1, <3>1
  <2>4. /\ \A r \in StrServer, d \in StrClient :
              Waits(r, d)' => thr'[d] = "none" /\ peer'[d] = r /\ cpc'[d] # "connect"
        /\ \A d \in StrClient : cpc'[d] = "connect" => thr'[d] = "none"
    BY <1>3, <1>5, <1>8, <2>1 DEF OwnInv, Once, Owned, Single, HasOwn
  <2>5. DOMAIN peer' = Client /\ DOMAIN cpc' = Client
    BY <1>5 DEF OwnInv, Once, Owned, Single, HasOwn
  <2>6. \A d \in StrClient : thr'[d] \in {"recv", "close"} =>
           /\ peer'[d] \in StrServer
           /\ cell'[d] # 0 => cell'[d] \in Slots /\ fd'[peer'[d]][cell'[d]] = d
    BY <1>5, <2>1, <2>2 DEF OwnInv, Once, Owned, Single, HasOwn
  <2>7. \A d \in StrClient : thr'[d] = "close" => cell'[d] # 0
    BY <2>1, <2>2 DEF OwnInv, Once, Owned, Single, HasOwn
  <2>8. /\ fd' \in [StrServer -> [Slots -> StrClient \cup {Nobody}]] /\ cell' \in [StrClient -> Nat]
        /\ \A r \in StrServer : \A g, h \in Slots : fd'[r][g] = fd'[r][h] /\ fd'[r][g] # Nobody => g = h
    BY <2>1 DEF OwnInv, Once, Owned, Single, HasOwn
  <2>9. QED
    BY <1>7, <1>9, <2>1, <2>3, <2>4, <2>5, <2>6, <2>7, <2>8 DEF OwnInv, Once, Owned, Single, HasOwn
<1>12. QED
  BY <1>6, <1>10, <1>11

LEMMA CloseStep ==
  ASSUME OwnInv, NEW c \in StrClient, TClose(c)
  PROVE  OwnInv'
<1> DEFINE s == peer[c]
           k == cell[c]
<1>1. thr[c] = "close" /\ s \in StrServer /\ k \in Slots /\ fd[s][k] = c /\ c # Nobody
  BY SocketAssumption DEF TClose, OwnInv, Owned, Single, HasOwn, Client
<1>2. /\ waiting' = waiting /\ peer' = peer /\ cpc' = cpc
      /\ thr' = [thr EXCEPT ![c] = "gone"] /\ cell' = [cell EXCEPT ![c] = 0]
      /\ fd' = [fd EXCEPT ![s][k] = Nobody]
  BY DEF TClose, cVars, Cell
<1>3. DOMAIN peer' = Client /\ DOMAIN cpc' = Client /\ waiting' \in [StrServer -> Seq(StrClient)]
  BY <1>2 DEF OwnInv, Once, Owned, Single, HasOwn
<1> HIDE DEF s, k
<1>4. /\ fd' \in [StrServer -> [Slots -> StrClient \cup {Nobody}]]
      /\ fd'[s][k] = Nobody /\ \A g \in Slots : g # k => fd'[s][g] = fd[s][g]
      /\ \A r \in StrServer \ {s} : fd'[r] = fd[r]
  BY <1>1, <1>2 DEF OwnInv, Once, Owned, Single, HasOwn
<1>5. /\ cell' \in [StrClient -> Nat] /\ DOMAIN thr' = StrClient
      /\ thr'[c] = "gone" /\ \A d \in StrClient \ {c} : thr'[d] = thr[d] /\ cell'[d] = cell[d]
  BY <1>2 DEF OwnInv, Once, Owned, Single, HasOwn
<1>6. \A r \in StrServer, g \in Slots : fd'[r][g] # c
  <2> SUFFICES ASSUME NEW r \in StrServer, NEW g \in Slots, fd'[r][g] = c PROVE FALSE
    OBVIOUS
  <2>1. fd[r][g] = c /\ (r # s \/ g # k)
    BY <1>1, <1>4
  <2>2. peer[c] = r
    BY <2>1 DEF OwnInv, Once, Owned, Single, HasOwn
  <2>3. r = s
    BY <2>2 DEF s
  <2>4. fd[s][g] = fd[s][k] /\ fd[s][g] # Nobody
    BY <1>1, <2>1, <2>3
  <2>5. g = k
    BY <1>1, <2>4 DEF OwnInv, Once, Owned, Single, HasOwn
  <2>6. QED
    BY <2>1, <2>3, <2>5
<1>7. \A r \in StrServer, g \in Slots : fd'[r][g] # Nobody => fd'[r][g] = fd[r][g]
  BY <1>4
<1>8. \A r \in StrServer, g \in Slots, d \in StrClient :
         fd'[r][g] = d => thr'[d] \in {"recv", "close"} /\ peer'[d] = r
  <2> SUFFICES ASSUME NEW r \in StrServer, NEW g \in Slots, NEW d \in StrClient, fd'[r][g] = d
               PROVE  thr'[d] \in {"recv", "close"} /\ peer'[d] = r
    OBVIOUS
  <2>1. d # c /\ d # Nobody
    BY <1>6, SocketAssumption DEF Client
  <2>2. fd[r][g] = d
    BY <1>7, <2>1
  <2>3. QED
    BY <1>2, <1>5, <2>1, <2>2 DEF OwnInv, Once, Owned, Single, HasOwn
<1>9. \A r \in StrServer : \A g, h \in Slots : fd'[r][g] = fd'[r][h] /\ fd'[r][g] # Nobody => g = h
  BY <1>7 DEF OwnInv, Once, Owned, Single, HasOwn
<1>10. \A d \in StrClient : thr'[d] \in {"recv", "close"} =>
          /\ peer'[d] \in StrServer
          /\ cell'[d] # 0 => cell'[d] \in Slots /\ fd'[peer'[d]][cell'[d]] = d
  <2> SUFFICES ASSUME NEW d \in StrClient, thr'[d] \in {"recv", "close"}
               PROVE  /\ peer'[d] \in StrServer
                      /\ cell'[d] # 0 => cell'[d] \in Slots /\ fd'[peer'[d]][cell'[d]] = d
    OBVIOUS
  <2>1. d # c
    BY <1>5
  <2>2. /\ peer[d] \in StrServer /\ cell'[d] = cell[d]
        /\ cell[d] # 0 => cell[d] \in Slots /\ fd[peer[d]][cell[d]] = d
    BY <1>5, <2>1 DEF OwnInv, Once, Owned, Single, HasOwn
  <2>3. QED
    BY <1>1, <1>2, <1>4, <2>1, <2>2
<1>11. \A d \in StrClient : thr'[d] = "close" => cell'[d] # 0
  BY <1>5 DEF OwnInv, Once, Owned, Single, HasOwn
<1>12. /\ \A r \in StrServer, d \in StrClient :
             Waits(r, d)' => thr'[d] = "none" /\ peer'[d] = r /\ cpc'[d] # "connect"
       /\ \A r \in StrServer : \A i, j \in 1..Len(waiting'[r]) : waiting'[r][i] = waiting'[r][j] => i = j
       /\ \A d \in StrClient : cpc'[d] = "connect" => thr'[d] = "none"
  <2>1. \A r \in StrServer, d \in StrClient : Waits(r, d)' <=> Waits(r, d)
    BY <1>2 DEF Waits
  <2>2. \A d \in StrClient : thr[d] = "none" => thr'[d] = "none"
    BY <1>1, <1>5
  <2>3. \A r \in StrServer, d \in StrClient :
             Waits(r, d)' => thr'[d] = "none" /\ peer'[d] = r /\ cpc'[d] # "connect"
    BY <1>2, <2>1, <2>2 DEF OwnInv, Once, Owned, Single, HasOwn
  <2>4. \A r \in StrServer : \A i, j \in 1..Len(waiting'[r]) : waiting'[r][i] = waiting'[r][j] => i = j
    BY <1>2 DEF OwnInv, Once, Owned, Single, HasOwn
  <2>5. QED
    BY <1>2, <2>2, <2>3, <2>4 DEF OwnInv, Once, Owned, Single, HasOwn
<1>13. QED
  BY <1>3, <1>4, <1>5, <1>8, <1>9, <1>10, <1>11, <1>12 DEF OwnInv, Once, Owned, Single, HasOwn

\* What the other steps change of all this: a thread gets to close(), with its
\* cell; a client goes on, or ends.
LEMMA RestStep ==
  ASSUME OwnInv, waiting' = waiting, fd' = fd, cell' = cell,
         \A c \in StrClient : cpc'[c] = "connect" => cpc[c] = "connect",
         \A c \in StrClient : peer'[c] = peer[c], DOMAIN peer' = Client, DOMAIN cpc' = Client,
         \/ thr' = thr
         \/ \E c \in StrClient : thr[c] = "recv" /\ cell[c] # 0 /\ thr' = [thr EXCEPT ![c] = "close"]
  PROVE  OwnInv'
<1>1. /\ DOMAIN thr' = StrClient
      /\ \A c \in StrClient : \/ thr'[c] = thr[c]
                              \/ thr[c] = "recv" /\ thr'[c] = "close" /\ cell[c] # 0
  BY DEF OwnInv, Once, Owned, Single, HasOwn
<1>2. /\ \A c \in StrClient : (thr'[c] \in {"recv", "close"}) <=> (thr[c] \in {"recv", "close"})
      /\ \A c \in StrClient : thr[c] = "none" => thr'[c] = "none"
      /\ \A c \in StrClient : thr'[c] = "close" => cell[c] # 0
  BY <1>1 DEF OwnInv, Once, Owned, Single, HasOwn
<1>3. \A r \in StrServer, d \in StrClient : Waits(r, d)' <=> Waits(r, d)
  BY DEF Waits
<1>4. /\ \A r \in StrServer, d \in StrClient :
            Waits(r, d)' => thr'[d] = "none" /\ peer'[d] = r /\ cpc'[d] # "connect"
      /\ \A r \in StrServer : \A i, j \in 1..Len(waiting'[r]) : waiting'[r][i] = waiting'[r][j] => i = j
      /\ \A d \in StrClient : cpc'[d] = "connect" => thr'[d] = "none"
  <2>1. \A r \in StrServer, d \in StrClient :
           Waits(r, d)' => thr'[d] = "none" /\ peer'[d] = r /\ cpc'[d] # "connect"
    BY <1>2, <1>3 DEF OwnInv
  <2>2. \A r \in StrServer : \A i, j \in 1..Len(waiting'[r]) : waiting'[r][i] = waiting'[r][j] => i = j
    BY DEF OwnInv, Once
  <2>3. \A d \in StrClient : cpc'[d] = "connect" => thr'[d] = "none"
    BY <1>2 DEF OwnInv
  <2>4. QED
    BY <2>1, <2>2, <2>3
<1>5. /\ \A r \in StrServer, g \in Slots, d \in StrClient :
            fd'[r][g] = d => thr'[d] \in {"recv", "close"} /\ peer'[d] = r
      /\ \A r \in StrServer : \A g, h \in Slots : fd'[r][g] = fd'[r][h] /\ fd'[r][g] # Nobody => g = h
  BY <1>2 DEF OwnInv, Once, Owned, Single, HasOwn
<1>6. \A d \in StrClient : thr'[d] \in {"recv", "close"} =>
         /\ peer'[d] \in StrServer
         /\ cell'[d] # 0 => cell'[d] \in Slots /\ fd'[peer'[d]][cell'[d]] = d
  BY <1>2 DEF OwnInv, Once, Owned, Single, HasOwn
<1>7. QED
  BY <1>1, <1>2, <1>4, <1>5, <1>6 DEF OwnInv, Once, Owned, Single, HasOwn

LEMMA ConnectStep ==
  ASSUME OwnInv, NEW c \in StrClient, CConnect(c)
  PROVE  OwnInv'
<1>1. cpc[c] = "connect" /\ thr[c] = "none" /\ fd' = fd /\ cell' = cell /\ thr' = thr
  BY DEF CConnect, CGoto, OwnInv, Owned, Single, HasOwn, tVars
<1>2. DOMAIN cpc' = Client /\ \A d \in StrClient : cpc'[d] = "connect" => cpc[d] = "connect" /\ d # c
  <2>1. cpc' = [cpc EXCEPT ![c] = "type"] \/ cpc' = [cpc EXCEPT ![c] = "failed"]
    BY DEF CConnect, CGoto
  <2>2. QED
    BY <2>1 DEF OwnInv, Once, Owned, Single, HasOwn, Client
<1>3. CASE waiting' = waiting /\ peer' = peer
  BY <1>1, <1>2, <1>3, RestStep DEF OwnInv, Once, Owned, Single, HasOwn
<1>4. CASE /\ path \in StrServer /\ waiting' = [waiting EXCEPT ![path] = Append(@, c)]
           /\ peer' = [peer EXCEPT ![c] = path]
  <2>1. /\ waiting[path] \in Seq(StrClient) /\ Len(waiting[path]) \in Nat /\ c \in Client
    BY <1>4 DEF OwnInv, Once, Owned, Single, HasOwn, Client
  <2>2. /\ waiting' \in [StrServer -> Seq(StrClient)]
        /\ Len(waiting'[path]) = Len(waiting[path]) + 1
        /\ waiting'[path][Len(waiting[path]) + 1] = c
        /\ \A i \in 1..Len(waiting[path]) : waiting'[path][i] = waiting[path][i]
        /\ \A r \in StrServer \ {path} : waiting'[r] = waiting[r]
    BY <1>4, <2>1 DEF OwnInv, Once, Owned, Single, HasOwn
  <2>3. DOMAIN peer' = Client /\ peer'[c] = path /\ \A d \in Client \ {c} : peer'[d] = peer[d]
    BY <1>4, <2>1 DEF OwnInv, Once, Owned, Single, HasOwn
  <2>4. \A r \in StrServer : ~Waits(r, c)
    BY <1>1 DEF OwnInv, Once, Owned, Single, HasOwn
  <2>5. \A r \in StrServer, d \in StrClient : Waits(r, d)' => Waits(r, d) \/ (r = path /\ d = c)
    <3> SUFFICES ASSUME NEW r \in StrServer, NEW d \in StrClient, Waits(r, d)', ~(r = path /\ d = c)
                 PROVE  Waits(r, d)
      OBVIOUS
    <3>1. PICK i \in 1..Len(waiting'[r]) : waiting'[r][i] = d
      BY DEF Waits
    <3>2. CASE r = path
      <4>1. i # Len(waiting[path]) + 1
        BY <2>2, <3>1, <3>2
      <4>2. i \in 1..Len(waiting[path])
        BY <2>1, <2>2, <3>2, <4>1
      <4>3. QED
        BY <2>2, <3>1, <3>2, <4>2 DEF Waits
    <3>3. CASE r # path
      BY <2>2, <3>1, <3>3 DEF Waits
    <3>4. QED
      BY <3>2, <3>3
  <2>6. \A r \in StrServer : \A i, j \in 1..Len(waiting'[r]) : waiting'[r][i] = waiting'[r][j] => i = j
    <3> SUFFICES ASSUME NEW r \in StrServer, NEW i \in 1..Len(waiting'[r]), NEW j \in 1..Len(waiting'[r]),
                        waiting'[r][i] = waiting'[r][j]
                 PROVE  i = j
      OBVIOUS
    <3>1. CASE r # path
      BY <2>2, <3>1 DEF OwnInv, Once, Owned, Single, HasOwn
    <3>2. CASE r = path
      <4>1. \A k \in 1..Len(waiting[path]) : waiting[path][k] # c
        BY <1>4, <2>4 DEF Waits
      <4>2. /\ i \in 1..Len(waiting[path]) \/ i = Len(waiting[path]) + 1
            /\ j \in 1..Len(waiting[path]) \/ j = Len(waiting[path]) + 1
        BY <2>1, <2>2, <3>2
      <4>3. CASE i \in 1..Len(waiting[path]) /\ j \in 1..Len(waiting[path])
        <5>1. waiting[path][i] = waiting[path][j]
          BY <2>2, <3>2, <4>3
        <5>2. QED
          BY <1>4, <4>3, <5>1 DEF OwnInv, Once, Owned, Single, HasOwn
      <4>4. QED
        BY <2>2, <3>2, <4>1, <4>2, <4>3
    <3>3. QED
      BY <3>1, <3>2
  <2>7. \A r \in StrServer, d \in StrClient :
           Waits(r, d)' => thr'[d] = "none" /\ peer'[d] = r /\ cpc'[d] # "connect"
    <3> SUFFICES ASSUME NEW r \in StrServer, NEW d \in StrClient, Waits(r, d)'
                 PROVE  thr'[d] = "none" /\ peer'[d] = r /\ cpc'[d] # "connect"
      OBVIOUS
    <3>1. CASE r = path /\ d = c
      BY <1>1, <1>2, <2>3, <3>1
    <3>2. CASE Waits(r, d)
      <4>1. thr[d] = "none" /\ peer[d] = r /\ cpc[d] # "connect" /\ d # c
        BY <2>4, <3>2 DEF OwnInv, Once, Owned, Single, HasOwn
      <4>2. QED
        BY <1>1, <1>2, <2>3, <4>1 DEF Client
    <3>3. QED
      BY <2>5, <3>1, <3>2
  <2>8. \A d \in StrClient : thr[d] \in {"recv", "close"} => d # c /\ peer'[d] = peer[d]
    BY <1>1, <2>3 DEF Client
  <2>9. \A d \in StrClient : cpc'[d] = "connect" => thr'[d] = "none"
    BY <1>1, <1>2 DEF OwnInv, Once, Owned, Single, HasOwn
  <2>10. /\ \A r \in StrServer, f \in Slots, d \in StrClient :
              fd'[r][f] = d => thr'[d] \in {"recv", "close"} /\ peer'[d] = r
         /\ \A d \in StrClient : thr'[d] \in {"recv", "close"} =>
              /\ peer'[d] \in StrServer
              /\ cell'[d] # 0 => cell'[d] \in Slots /\ fd'[peer'[d]][cell'[d]] = d
    <3>1. Owned /\ HasOwn
      BY DEF OwnInv
    <3>2. QED
      BY <1>1, <2>8, <3>1 DEF Owned, HasOwn
  <2>11. /\ fd' \in [StrServer -> [Slots -> StrClient \cup {Nobody}]] /\ cell' \in [StrClient -> Nat]
         /\ DOMAIN thr' = StrClient /\ Single' /\ \A d \in StrClient : thr'[d] = "close" => cell'[d] # 0
    BY <1>1 DEF OwnInv, Single
  <2>12. Owned' /\ HasOwn'
    BY <2>10 DEF Owned, HasOwn
  <2>13. QED
    BY <1>2, <2>2, <2>3, <2>6, <2>7, <2>9, <2>11, <2>12 DEF OwnInv, Once
<1>5. QED
  BY <1>3, <1>4 DEF CConnect, Listening

LEMMA OwnStep == OwnInv /\ [Next]_vars => OwnInv'
<1> SUFFICES ASSUME OwnInv, [Next]_vars PROVE OwnInv'
  OBVIOUS
<1>1. DOMAIN peer = Client /\ DOMAIN cpc = Client /\ StrClient \subseteq Client
  BY DEF OwnInv, Once, Owned, Single, HasOwn, Client
<1>2. CASE UNCHANGED vars
  BY <1>1, <1>2, RestStep DEF vars
<1>3. ASSUME NEW s \in Server, ServerStep(s) PROVE OwnInv'
  <2>1. CASE SAccept(s)
    BY <2>1, AcceptStep DEF SAccept
  <2>2. CASE SSocket(s) \/ SRemove(s) \/ SBind(s) \/ SListen(s) \/ SEnd(s) \/ DRecv(s)
    <3>1. /\ waiting' = waiting /\ fd' = fd /\ cell' = cell /\ cpc' = cpc /\ peer' = peer /\ thr' = thr
      BY <2>2 DEF SSocket, SRemove, SBind, SListen, SEnd, DRecv, tVars, cVars
    <3>2. QED
      BY <1>1, <3>1, RestStep
  <2>3. QED
    BY <1>3, <2>1, <2>2 DEF ServerStep
<1>4. ASSUME NEW c \in StrClient, Thread(c) PROVE OwnInv'
  <2>1. CASE TClose(c)
    BY <2>1, CloseStep
  <2>2. CASE TRecv(c)
    <3>1. waiting' = waiting /\ fd' = fd /\ cell' = cell /\ cpc' = cpc /\ peer' = peer
      BY <2>2 DEF TRecv, cVars
    <3>2. thr' = thr \/ (thr[c] = "recv" /\ cell[c] # 0 /\ thr' = [thr EXCEPT ![c] = "close"])
      BY <2>2 DEF TRecv, Cell
    <3>3. QED
      BY <1>1, <3>1, <3>2, RestStep
  <2>3. QED
    BY <1>4, <2>1, <2>2 DEF Thread
<1>5. ASSUME NEW c \in StrClient, StrStep(c) PROVE OwnInv'
  <2>1. CASE CConnect(c)
    BY <2>1, ConnectStep
  <2>2. CASE CSend(c) \/ CEof(c) \/ CKill(c)
    <3>1. waiting' = waiting /\ fd' = fd /\ cell' = cell /\ peer' = peer /\ thr' = thr
      BY <2>2 DEF CSend, CEof, CKill, tVars
    <3>2. cpc[c] = "type" /\ (cpc' = cpc \/ \E to \in Left \cup {"sigpipe"} : cpc' = [cpc EXCEPT ![c] = to])
      BY <2>2 DEF CSend, CEof, CKill, CGoto, Left
    <3>3. DOMAIN cpc' = Client /\ \A d \in StrClient : cpc'[d] = "connect" => cpc[d] = "connect"
      BY <1>1, <3>2 DEF Left
    <3>4. QED
      BY <1>1, <3>1, <3>3, RestStep
  <2>3. QED
    BY <1>5, <2>1, <2>2 DEF StrStep
<1>6. ASSUME NEW c \in DataClient, DataStep(c) PROVE OwnInv'
  <2>1. waiting' = waiting /\ fd' = fd /\ cell' = cell /\ thr' = thr
    BY <1>6 DEF DataStep, DLine, DDeliver, tVars
  <2>2. \E to \in {"type", "deliver"} : cpc' = [cpc EXCEPT ![c] = to]
    BY <1>6 DEF DataStep, DLine, DDeliver, CGoto
  <2>3. peer' = peer \/ peer' = [peer EXCEPT ![c] = Found]
    BY <1>6 DEF DataStep, DLine, DDeliver
  <2>4. \A d \in StrClient : d # c
    BY SocketAssumption
  <2>5. /\ \A d \in StrClient : cpc'[d] = "connect" => cpc[d] = "connect"
        /\ \A d \in StrClient : peer'[d] = peer[d]
        /\ DOMAIN peer' = Client /\ DOMAIN cpc' = Client
    BY <1>1, <2>2, <2>3, <2>4
  <2>6. QED
    BY <2>1, <2>5, RestStep
<1>7. QED
  BY <1>2, <1>3, <1>4, <1>5, <1>6 DEF Next

\* For any number of connections, and whatever fails: a thread uses the
\* descriptor of the connection that it was started for.
THEOREM OwnDescriptor == Spec => []OwnConnection
<1>1. Init => OwnInv
  <2> SUFFICES ASSUME Init PROVE OwnInv
    OBVIOUS
  <2>1. \A s \in StrServer, c \in StrClient : ~Waits(s, c)
    BY DEF Init, Waits
  <2>2. \A c \in StrClient : c # Nobody /\ c \in Client
    BY SocketAssumption DEF Client
  <2>3. QED
    BY <2>1, <2>2 DEF Init, OwnInv, Once, Owned, Single, HasOwn
<1>2. OwnInv => OwnConnection
  BY DEF OwnInv, Once, Owned, Single, HasOwn, OwnConnection, Cell
<1>3. QED
  BY <1>1, <1>2, OwnStep, PTL DEF Spec

-----------------------------------------------------------------------------
(* The lines of the datagram clients.                                      *)

Bound(c, d) == first[c] = d /\ spc[d] = "recv" /\ d \notin robbed

\* What is said of the lines of c, of which p are printed, q handed over, and
\* the others in the queue of d.
InLine(c, d, p, q) ==
  /\ p <= q
  /\ \A i, j \in 1..Len(dq[d]) : dq[d][i][1] = c /\ dq[d][j][1] = c /\ i < j => dq[d][i][2] < dq[d][j][2]
  /\ \A i \in 1..Len(dq[d]) : dq[d][i][1] = c => dq[d][i][2] \in (p + 1)..q
  /\ \A n \in (p + 1)..q : \E i \in 1..Len(dq[d]) : dq[d][i][1] = c /\ dq[d][i][2] = n

Up == {"listen", "ended"} \cup Serving

Absent(c, d) == \A i \in 1..Len(dq[d]) : dq[d][i][1] # c

\* A client that has sent nothing has nothing anywhere.  The lines of a client
\* that found d at its first line are all at d, as its path leads there.
LineOf(c) ==
  /\ sent[c] = 0 => /\ printed[c] = <<>> /\ cpc[c] # "deliver" /\ first[c] = Nobody
                    /\ \A e \in DataServer : Absent(c, e)
  /\ \A d \in DataServer : first[c] = d => spc[d] \in Up
  /\ \A d \in DataServer : Bound(c, d) =>
        /\ \A e \in DataServer : e # d => Absent(c, e)
        /\ cpc[c] = "deliver" => peer[c] = d
        /\ \A k \in 1..Len(printed[c]) : printed[c][k] = k
        /\ InLine(c, d, Len(printed[c]), HandedOver(c))

DataTypes ==
  /\ dq \in [DataServer -> Seq(DataClient \X Nat)] /\ sent \in [Client -> Nat]
  /\ buf \in [StrClient -> Seq(Nat)] /\ printed \in [Client -> Seq(Nat)]
  /\ first \in [DataClient -> Server \cup {Nobody}]
  /\ cpc \in [Client -> {"absent", "connect", "type", "deliver", "failed"} \cup Left]

\* The path of a datagram server leads there until somebody removes it.
Found1 == \A d \in DataServer : spc[d] = "recv" /\ d \notin robbed => path = d

DataInv == DataTypes /\ Found1 /\ \A c \in DataClient : LineOf(c)

LEMMA DataTypesStep == DataTypes /\ PathInv /\ OwnInv /\ [Next]_vars => DataTypes'
<1> SUFFICES ASSUME DataTypes, PathInv, OwnInv, [Next]_vars PROVE DataTypes'
  OBVIOUS
<1> USE DEF DataTypes
<1>1. CASE UNCHANGED vars
  BY <1>1 DEF vars
<1>2. ASSUME NEW s \in Server, ServerStep(s) PROVE DataTypes'
  <2>1. CASE DRecv(s)
    <3>1. /\ s \in DataServer /\ dq[s] \in Seq(DataClient \X Nat) /\ dq[s] # <<>>
      BY <2>1 DEF DRecv
    <3>2. Head(dq[s]) \in DataClient \X Nat /\ Tail(dq[s]) \in Seq(DataClient \X Nat)
      BY <3>1, HeadTailProperties
    <3>3. dq' = [dq EXCEPT ![s] = Tail(dq[s])]
          /\ printed' = [printed EXCEPT ![Head(dq[s])[1]] = Append(printed[Head(dq[s])[1]], Head(dq[s])[2])]
          /\ UNCHANGED <<buf, cpc, sent, first>>
      BY <2>1 DEF DRecv, cVars
    <3>4. dq' \in [DataServer -> Seq(DataClient \X Nat)]
      BY <3>1, <3>2, <3>3
    <3>5. Head(dq[s])[1] \in Client /\ Head(dq[s])[2] \in Nat
      BY <3>2 DEF Client
    <3>6. printed' \in [Client -> Seq(Nat)]
      BY <3>3, <3>5
    <3>7. QED
      BY <3>3, <3>4, <3>6
  <2>2. CASE SSocket(s) \/ SRemove(s) \/ SBind(s) \/ SListen(s) \/ SEnd(s) \/ SAccept(s)
    BY <2>2 DEF SSocket, SRemove, SBind, SListen, SEnd, SAccept, cVars
  <2>3. QED
    BY <1>2, <2>1, <2>2 DEF ServerStep
<1>3. ASSUME NEW c \in StrClient, Thread(c) PROVE DataTypes'
  <2>1. UNCHANGED <<dq, cpc, sent, first>>
    BY <1>3 DEF Thread, TRecv, TClose, cVars
  <2>2. CASE UNCHANGED <<buf, printed>>
    BY <2>1, <2>2
  <2>3. CASE ~UNCHANGED <<buf, printed>>
    <3> DEFINE d == fd[peer[c]][cell[c]]
    <3>1. TRecv(c) /\ cell[c] # 0 /\ thr[c] = "recv"
      BY <1>3, <2>3 DEF Thread, TRecv, TClose, Cell
    <3>2. d = c
      BY <3>1 DEF OwnInv, HasOwn
    <3>3. /\ printed' = [printed EXCEPT ![c] = Append(printed[c], Head(buf[c]))]
          /\ buf' = [buf EXCEPT ![c] = Tail(buf[c])] /\ buf[c] # <<>>
      BY <2>3, <3>1, <3>2 DEF TRecv, Cell
    <3>4. Head(buf[c]) \in Nat /\ Tail(buf[c]) \in Seq(Nat) /\ c \in Client
      BY <3>3 DEF Client
    <3>5. QED
      BY <2>1, <3>3, <3>4
  <2>4. QED
    BY <2>2, <2>3
<1>4. ASSUME NEW c \in StrClient, StrStep(c) PROVE DataTypes'
  <2>1. UNCHANGED <<dq, first, printed>>
    BY <1>4 DEF StrStep, CConnect, CSend, CEof, CKill
  <2>2. cpc' = cpc \/ \E to \in {"type", "failed"} \cup Left : cpc' = [cpc EXCEPT ![c] = to]
    BY <1>4 DEF StrStep, CConnect, CSend, CEof, CKill, CGoto, Left
  <2>3. \/ UNCHANGED <<sent, buf>>
        \/ sent' = [sent EXCEPT ![c] = sent[c] + 1] /\ buf' = [buf EXCEPT ![c] = Append(buf[c], sent[c] + 1)]
    BY <1>4 DEF StrStep, CConnect, CSend, CEof, CKill
  <2>4. c \in Client
    BY DEF Client
  <2>5. cpc' \in [Client -> {"absent", "connect", "type", "deliver", "failed"} \cup Left]
    BY <2>2, <2>4
  <2>6. sent' \in [Client -> Nat] /\ buf' \in [StrClient -> Seq(Nat)]
    <3>1. sent[c] + 1 \in Nat
      BY <2>4
    <3>2. Append(buf[c], sent[c] + 1) \in Seq(Nat)
      BY <3>1
    <3>3. QED
      BY <2>3, <3>1, <3>2
  <2>7. QED
    BY <2>1, <2>5, <2>6
<1>5. ASSUME NEW c \in DataClient, DataStep(c) PROVE DataTypes'
  <2>1. UNCHANGED <<buf, printed>> /\ c \in Client
    BY <1>5 DEF DataStep, DLine, DDeliver, Client
  <2>2. cpc' \in [Client -> {"absent", "connect", "type", "deliver", "failed"} \cup Left]
    BY <1>5, <2>1 DEF DataStep, DLine, DDeliver, CGoto
  <2>3. sent' \in [Client -> Nat] /\ first' \in [DataClient -> Server \cup {Nobody}]
    <3>1. sent' = sent \/ sent' = [sent EXCEPT ![c] = sent[c] + 1]
      BY <1>5 DEF DataStep, DLine, DDeliver
    <3>2. first' = first \/ first' = [first EXCEPT ![c] = path]
      BY <1>5 DEF DataStep, DLine, DDeliver
    <3>3. sent[c] + 1 \in Nat /\ path \in Server \cup {Nobody}
      BY <2>1 DEF PathInv
    <3>4. QED
      BY <3>1, <3>2, <3>3
  <2>4. dq' \in [DataServer -> Seq(DataClient \X Nat)]
    <3>1. dq' = dq \/ dq' = [dq EXCEPT ![peer[c]] = Append(dq[peer[c]], <<c, sent[c]>>)]
      BY <1>5 DEF DataStep, DLine, DDeliver
    <3>2. <<c, sent[c]>> \in DataClient \X Nat
      BY <2>1
    <3>3. \A d \in DataServer : Append(dq[d], <<c, sent[c]>>) \in Seq(DataClient \X Nat)
      BY <3>2
    <3> DEFINE L == Seq(DataClient \X Nat)  t == peer[c]  q == Append(dq[t], <<c, sent[c]>>)
    <3>4. dq \in [DataServer -> L] /\ (t \in DataServer => q \in L)
      BY <3>3
    <3>5. dq' = dq \/ dq' = [dq EXCEPT ![t] = q]
      BY <3>1
    <3> HIDE DEF L, t, q, DataTypes
    <3>6. dq' \in [DataServer -> L]
      BY <3>4, <3>5
    <3>7. QED
      BY <3>6 DEF L
  <2>5. QED
    BY <2>1, <2>2, <2>3, <2>4
<1>6. QED
  BY <1>1, <1>2, <1>3, <1>4, <1>5 DEF Next

\* A step that leaves alone what is said of c, its lines and the server it found.
LEMMA LineSame ==
  ASSUME NEW c \in DataClient, LineOf(c),
         sent'[c] = sent[c], printed'[c] = printed[c], cpc'[c] = cpc[c], peer'[c] = peer[c],
         first'[c] = first[c], dq' = dq, robbed \subseteq robbed',
         \A d \in DataServer : spc[d] \in Up =>
             spc'[d] \in Up /\ (spc'[d] = "recv" => spc[d] = "recv")
  PROVE  LineOf(c)'
<1>1. HandedOver(c)' = HandedOver(c)
  BY DEF HandedOver
<1>2. \A d \in DataServer : Bound(c, d)' => Bound(c, d)
  BY DEF Bound, LineOf
<1>3. \A d \in DataServer : Absent(c, d)' <=> Absent(c, d)
  BY DEF Absent
<1>4. \A d \in DataServer : InLine(c, d, Len(printed[c]), HandedOver(c))
                           => InLine(c, d, Len(printed[c]), HandedOver(c))'
  BY <1>1 DEF InLine
<1>5. QED
  BY <1>2, <1>3, <1>4 DEF LineOf

\* The head of a queue is received: it is the next line of its client.
LEMMA LineReceived ==
  ASSUME DataInv, NEW s \in DataServer, DRecv(s), NEW c \in DataClient
  PROVE  LineOf(c)'
<1> DEFINE m == dq[s][1]
<1>1. /\ dq[s] \in Seq(DataClient \X Nat) /\ dq[s] # <<>> /\ Len(dq[s]) \in Nat
      /\ UNCHANGED <<spc, robbed, cpc, sent, peer, first>>
  BY DEF DRecv, DataInv, DataTypes, sVars, cVars
<1>2. /\ 1 \in 1..Len(dq[s]) /\ m \in DataClient \X Nat /\ m[1] \in Client
      /\ dq' = [dq EXCEPT ![s] = Tail(dq[s])]
      /\ printed' = [printed EXCEPT ![m[1]] = Append(printed[m[1]], m[2])]
  BY <1>1 DEF DRecv, Client
<1> HIDE DEF m
<1>3. /\ Len(dq'[s]) = Len(dq[s]) - 1
      /\ \A i \in 1..Len(dq'[s]) : dq'[s][i] = dq[s][i + 1] /\ i + 1 \in 1..Len(dq[s])
      /\ \A d \in DataServer : d # s => dq'[d] = dq[d]
  BY <1>1, <1>2, HeadTailProperties DEF DataInv, DataTypes
<1>4. \A d \in DataServer : Absent(c, d) => Absent(c, d)'
  <2> SUFFICES ASSUME NEW d \in DataServer, Absent(c, d), NEW i \in 1..Len(dq'[d])
               PROVE  dq'[d][i][1] # c
    BY DEF Absent
  <2>1. CASE d = s
    <3>1. dq'[s][i] = dq[s][i + 1] /\ i + 1 \in 1..Len(dq[s])
      BY <1>3, <2>1
    <3>2. dq[s][i + 1][1] # c
      BY <2>1, <3>1 DEF Absent
    <3>3. QED
      BY <2>1, <3>1, <3>2
  <2>2. CASE d # s
    <3>1. dq'[d] = dq[d]
      BY <1>3, <2>2
    <3>2. QED
      BY <3>1 DEF Absent
  <2>3. QED
    BY <2>1, <2>2
<1>5. LineOf(c) /\ printed[c] \in Seq(Nat) /\ Len(printed[c]) \in Nat /\ sent[c] \in Nat
  BY DEF DataInv, DataTypes, Client
<1>6. ASSUME NEW p, NEW q, InLine(c, s, p, q)
      PROVE  \A i, j \in 1..Len(dq'[s]) : dq'[s][i][1] = c /\ dq'[s][j][1] = c /\ i < j
                                         => dq'[s][i][2] < dq'[s][j][2]
  <2> SUFFICES ASSUME NEW i \in 1..Len(dq'[s]), NEW j \in 1..Len(dq'[s]),
                      dq[s][i + 1][1] = c, dq[s][j + 1][1] = c, i < j
               PROVE  dq[s][i + 1][2] < dq[s][j + 1][2]
    BY <1>3
  <2>1. i + 1 < j + 1 /\ i + 1 \in 1..Len(dq[s]) /\ j + 1 \in 1..Len(dq[s])
    BY <1>1, <1>3
  <2>2. QED
    BY <1>6, <2>1 DEF InLine
<1>7. m[1] = c => sent[c] # 0
  BY <1>2, <1>5 DEF LineOf, Absent, m
<1>8. m[1] # c => printed'[c] = printed[c]
  BY <1>2 DEF DataInv, DataTypes, Client
<1>9. ASSUME NEW d \in DataServer, Bound(c, d)
      PROVE  /\ \A e \in DataServer : e # d => Absent(c, e)'
             /\ cpc[c] = "deliver" => peer[c] = d
             /\ \A k \in 1..Len(printed'[c]) : printed'[c][k] = k
             /\ InLine(c, d, Len(printed[c]), HandedOver(c))'
  <2>1. /\ \A e \in DataServer : e # d => Absent(c, e)
        /\ cpc[c] = "deliver" => peer[c] = d
        /\ \A k \in 1..Len(printed[c]) : printed[c][k] = k
        /\ InLine(c, d, Len(printed[c]), HandedOver(c))
    BY <1>5, <1>9 DEF LineOf
  <2>2. HandedOver(c)' = HandedOver(c) /\ HandedOver(c) \in Int
    BY <1>1, <1>5 DEF HandedOver
  <2>3. CASE d # s
    <3>1. m[1] # c
      BY <1>2, <2>1, <2>3 DEF Absent, m
    <3>2. printed'[c] = printed[c] /\ dq'[d] = dq[d]
      BY <1>3, <1>8, <2>3, <3>1
    <3>3. InLine(c, d, Len(printed[c]), HandedOver(c))'
      BY <2>1, <2>2, <3>2 DEF InLine
    <3>4. QED
      BY <1>4, <2>1, <3>2, <3>3
  <2>4. CASE d = s /\ m[1] # c
    <3>1. printed'[c] = printed[c]
      BY <1>8, <2>4
    <3>2. \A i \in 1..Len(dq[s]) : dq[s][i][1] = c => i # 1 /\ i - 1 \in 1..Len(dq'[s]) /\ dq'[s][i - 1] = dq[s][i]
      <4>1. \A i \in 1..Len(dq[s]) : i # 1 => i - 1 \in 1..Len(dq'[s]) /\ (i - 1) + 1 = i
        BY <1>1, <1>3
      <4>2. QED
        BY <1>3, <2>4, <4>1 DEF m
    <3>3. /\ \A i, j \in 1..Len(dq'[s]) : dq'[s][i][1] = c /\ dq'[s][j][1] = c /\ i < j
                                        => dq'[s][i][2] < dq'[s][j][2]
          /\ \A i \in 1..Len(dq'[s]) : dq'[s][i][1] = c => dq'[s][i][2] \in (Len(printed[c]) + 1)..HandedOver(c)
          /\ \A n \in (Len(printed[c]) + 1)..HandedOver(c) :
                \E i \in 1..Len(dq'[s]) : dq'[s][i][1] = c /\ dq'[s][i][2] = n
      <4>1. \A i \in 1..Len(dq[s]) : dq[s][i][1] = c =>
                dq[s][i][2] \in (Len(printed[c]) + 1)..HandedOver(c)
        BY <2>1, <2>4 DEF InLine
      <4>2. \A n \in (Len(printed[c]) + 1)..HandedOver(c) :
                \E i \in 1..Len(dq[s]) : dq[s][i][1] = c /\ dq[s][i][2] = n
        BY <2>1, <2>4 DEF InLine
      <4>3. \A n \in (Len(printed[c]) + 1)..HandedOver(c) :
                \E i \in 1..Len(dq'[s]) : dq'[s][i][1] = c /\ dq'[s][i][2] = n
        <5> SUFFICES ASSUME NEW n \in (Len(printed[c]) + 1)..HandedOver(c)
                     PROVE  \E i \in 1..Len(dq'[s]) : dq'[s][i][1] = c /\ dq'[s][i][2] = n
          OBVIOUS
        <5>1. PICK j \in 1..Len(dq[s]) : dq[s][j][1] = c /\ dq[s][j][2] = n
          BY <4>2
        <5>2. j - 1 \in 1..Len(dq'[s]) /\ dq'[s][j - 1] = dq[s][j]
          BY <3>2, <5>1
        <5>3. QED
          BY <5>1, <5>2
      <4>4. \A i \in 1..Len(dq'[s]) : dq'[s][i][1] = c => dq'[s][i][2] \in (Len(printed[c]) + 1)..HandedOver(c)
        BY <1>3, <4>1
      <4>5. QED
        BY <1>6, <2>1, <2>4, <4>3, <4>4
    <3>4. InLine(c, d, Len(printed[c]), HandedOver(c))'
      BY <2>1, <2>2, <2>4, <3>1, <3>3 DEF InLine
    <3>5. QED
      BY <1>4, <2>1, <3>1, <3>4
  <2>5. CASE d = s /\ m[1] = c
    <3> DEFINE p == Len(printed[c])  q == HandedOver(c)
    <3>1. m[2] = p + 1
      <4>1. m[2] \in (p + 1)..q
        BY <1>2, <2>1, <2>5 DEF InLine, m
      <4>2. p + 1 \in (p + 1)..q
        BY <1>5, <2>2, <4>1
      <4>3. PICK i \in 1..Len(dq[s]) : dq[s][i][1] = c /\ dq[s][i][2] = p + 1
        BY <2>1, <2>5, <4>2 DEF InLine
      <4>4. CASE i = 1
        BY <4>3, <4>4 DEF m
      <4>5. CASE 1 < i
        <5>1. m[2] < p + 1
          BY <1>2, <2>1, <2>5, <4>3, <4>5 DEF InLine, m
        <5>2. QED
          BY <1>5, <2>2, <4>1, <5>1
      <4>6. QED
        BY <1>1, <4>4, <4>5
    <3>2. /\ Len(printed'[c]) = p + 1 /\ printed'[c][p + 1] = p + 1
          /\ \A k \in 1..p : printed'[c][k] = printed[c][k]
      BY <1>2, <1>5, <2>5, <3>1 DEF DataInv, DataTypes
    <3>3. \A k \in 1..Len(printed'[c]) : k \in 1..p \/ k = p + 1
      BY <1>5, <3>2
    <3>4. \A k \in 1..Len(printed'[c]) : printed'[c][k] = k
      BY <2>1, <3>2, <3>3
    <3>5. \A i, j \in 1..Len(dq'[s]) : dq'[s][i][1] = c /\ dq'[s][j][1] = c /\ i < j => dq'[s][i][2] < dq'[s][j][2]
      BY <1>6, <2>1, <2>5
    <3>6. \A i \in 1..Len(dq'[s]) : dq'[s][i][1] = c => dq'[s][i][2] \in ((p + 1) + 1)..q
      <4> SUFFICES ASSUME NEW i \in 1..Len(dq'[s]), dq[s][i + 1][1] = c
                   PROVE  dq[s][i + 1][2] \in ((p + 1) + 1)..q
        BY <1>3
      <4>1. i + 1 \in 1..Len(dq[s]) /\ 1 < i + 1
        BY <1>1, <1>3
      <4>2. dq[s][i + 1][2] \in (p + 1)..q
        <5> DEFINE j == i + 1
        <5>1. j \in 1..Len(dq[s]) /\ dq[s][j][1] = c
          BY <4>1
        <5> HIDE DEF j
        <5>2. dq[s][j][2] \in (p + 1)..q
          BY <2>1, <2>5, <5>1 DEF InLine
        <5>3. QED
          BY <5>2 DEF j
      <4>4. p + 1 < dq[s][i + 1][2]
        <5> DEFINE j == i + 1
        <5>1. j \in 1..Len(dq[s]) /\ 1 < j /\ dq[s][j][1] = c
          BY <4>1
        <5>2. 1 \in 1..Len(dq[s]) /\ dq[s][1][1] = c /\ dq[s][1][2] = p + 1
          BY <1>1, <2>5, <3>1 DEF m
        <5> HIDE DEF j
        <5>3. dq[s][1][2] < dq[s][j][2]
          BY <2>1, <2>5, <5>1, <5>2 DEF InLine
        <5>4. QED
          BY <5>2, <5>3 DEF j
      <4>3. QED
        BY <1>5, <2>2, <4>2, <4>4
    <3>7. \A n \in ((p + 1) + 1)..q : \E i \in 1..Len(dq'[s]) : dq'[s][i][1] = c /\ dq'[s][i][2] = n
      <4> SUFFICES ASSUME NEW n \in ((p + 1) + 1)..q
                   PROVE  \E i \in 1..Len(dq'[s]) : dq'[s][i][1] = c /\ dq'[s][i][2] = n
        OBVIOUS
      <4>1. n \in (p + 1)..q /\ n # p + 1
        BY <1>5, <2>2
      <4>2. PICK j \in 1..Len(dq[s]) : dq[s][j][1] = c /\ dq[s][j][2] = n
        BY <2>1, <2>5, <4>1 DEF InLine
      <4>3. j # 1
        BY <3>1, <4>1, <4>2 DEF m
      <4>4. j - 1 \in 1..Len(dq'[s]) /\ (j - 1) + 1 = j
        BY <1>1, <1>3, <4>3
      <4>5. QED
        BY <1>3, <4>2, <4>4
    <3>8. InLine(c, d, Len(printed[c]), HandedOver(c))'
      <4>1. p + 1 <= q
        BY <1>2, <1>5, <2>1, <2>2, <2>5, <3>1 DEF InLine, m
      <4>2. QED
        BY <2>2, <2>5, <3>2, <3>5, <3>6, <3>7, <4>1 DEF InLine
    <3>9. QED
      BY <1>4, <2>1, <3>4, <3>8
  <2>6. QED
    BY <2>3, <2>4, <2>5
<1>10. \A d \in DataServer : Bound(c, d)' <=> Bound(c, d)
  BY <1>1 DEF Bound
<1>11. QED
  BY <1>1, <1>4, <1>5, <1>7, <1>8, <1>9, <1>10 DEF LineOf

\* A client types a line.
LEMMA LineTyped ==
  ASSUME PathInv, OwnInv, DataInv, NEW x \in DataClient, DLine(x), NEW c \in DataClient
  PROVE  LineOf(c)'
<1>1. /\ x \in Client /\ c \in Client /\ LineOf(c) /\ sent[x] \in Nat
      /\ UNCHANGED <<dq, printed, spc, robbed, path>>
      /\ sent' = [sent EXCEPT ![x] = sent[x] + 1] /\ peer' = [peer EXCEPT ![x] = Found]
      /\ cpc[x] = "type" /\ cpc' = [cpc EXCEPT ![x] = IF Found = Nobody THEN "type" ELSE "deliver"]
      /\ first' = IF sent[x] = 0 THEN [first EXCEPT ![x] = path] ELSE first
  BY DEF DLine, CGoto, DataInv, DataTypes, Client, sVars
<1>t. /\ sent \in [Client -> Nat] /\ first \in [DataClient -> Server \cup {Nobody}]
      /\ DOMAIN peer = Client /\ DOMAIN cpc = Client
  BY DEF DataInv, DataTypes, OwnInv
<1>2. CASE c # x
  <2>1. sent'[c] = sent[c] /\ peer'[c] = peer[c] /\ cpc'[c] = cpc[c] /\ first'[c] = first[c]
    BY <1>1, <1>t, <1>2
  <2>2. QED
    BY <1>1, <2>1, LineSame
<1>3. CASE c = x
  <2>1. /\ sent'[c] = sent[c] + 1 /\ sent[c] \in Nat /\ peer'[c] = Found
        /\ cpc'[c] = IF Found = Nobody THEN "type" ELSE "deliver"
        /\ first'[c] = IF sent[c] = 0 THEN path ELSE first[c]
    BY <1>1, <1>t, <1>3
  <2>2. \A d \in DataServer : spc[d] = "recv" /\ d \notin robbed => Found = d /\ Found # Nobody
    BY SocketAssumption DEF DataInv, Found1, Found, Server
  <2>3. ASSUME NEW d \in DataServer, Bound(c, d)' PROVE cpc'[c] = "deliver" /\ peer'[c] = d
    BY <1>1, <2>1, <2>2, <2>3 DEF Bound
  <2>4. ASSUME NEW d \in DataServer, first'[c] = d PROVE spc[d] \in Up
    BY <1>1, <2>1, <2>4 DEF LineOf, PathInv, Up, Server
  <2>5. ASSUME NEW d \in DataServer, Bound(c, d)'
        PROVE  /\ \A e \in DataServer : e # d => Absent(c, e)'
               /\ \A k \in 1..Len(printed[c]) : printed[c][k] = k
               /\ InLine(c, d, Len(printed[c]), HandedOver(c))'
    <3>1. HandedOver(c)' = sent[c]
      BY <2>1, <2>3, <2>5 DEF HandedOver
    <3>2. \A e : Absent(c, e)' <=> Absent(c, e)
      BY <1>1 DEF Absent
    <3>3. CASE sent[c] = 0
      <4>1. printed[c] = <<>> /\ \A e \in DataServer : Absent(c, e)
        BY <1>1, <3>3 DEF LineOf
      <4>2. InLine(c, d, Len(printed[c]), HandedOver(c))'
        BY <1>1, <3>1, <3>3, <4>1 DEF InLine, Absent
      <4>3. QED
        BY <3>2, <4>1, <4>2
    <3>4. CASE sent[c] # 0
      <4>1. Bound(c, d)
        BY <1>1, <2>1, <2>5, <3>4 DEF Bound
      <4>2. /\ \A e \in DataServer : e # d => Absent(c, e)
            /\ \A k \in 1..Len(printed[c]) : printed[c][k] = k
            /\ InLine(c, d, Len(printed[c]), HandedOver(c))
        BY <1>1, <4>1 DEF LineOf
      <4>3. HandedOver(c)' = HandedOver(c)
        BY <1>1, <1>3, <3>1 DEF HandedOver
      <4>4. InLine(c, d, Len(printed[c]), HandedOver(c))'
        BY <1>1, <4>2, <4>3 DEF InLine
      <4>5. QED
        BY <3>2, <4>2, <4>4
    <3>5. QED
      BY <3>3, <3>4
  <2>6. sent'[c] # 0
    BY <2>1
  <2>7. QED
    BY <1>1, <2>3, <2>4, <2>5, <2>6 DEF LineOf
<1>4. QED
  BY <1>2, <1>3

\* sendto() hands a line over, or looks the path up again.
LEMMA LineHandedOver ==
  ASSUME PathInv, OwnInv, DataInv, NEW x \in DataClient, DDeliver(x), NEW c \in DataClient
  PROVE  LineOf(c)'
<1> DEFINE t == peer[x]  n == sent[x]
<1>1. /\ x \in Client /\ c \in Client /\ LineOf(c) /\ LineOf(x) /\ n \in Nat /\ cpc[x] = "deliver"
      /\ UNCHANGED <<sent, first, printed, spc, robbed, path>>
  BY DEF DDeliver, DataInv, DataTypes, Client, sVars
<1>t. DOMAIN peer = Client /\ DOMAIN cpc = Client
  BY DEF OwnInv
<1>2. CASE ~Alive(t)
  <2>1. /\ dq' = dq /\ cpc' = [cpc EXCEPT ![x] = IF Found = Nobody THEN "type" ELSE "deliver"]
        /\ peer' = [peer EXCEPT ![x] = Found]
    BY <1>2 DEF DDeliver, CGoto
  <2>2. CASE c # x
    <3>1. cpc'[c] = cpc[c] /\ peer'[c] = peer[c]
      BY <1>1, <1>t, <2>1, <2>2
    <3>2. QED
      BY <1>1, <2>1, <3>1, LineSame
  <2>3. CASE c = x
    <3>1. \A d \in DataServer : ~Bound(c, d)
      BY <1>1, <1>2, <2>3 DEF LineOf, Bound, Alive, Server, Serving
    <3>2. \A d \in DataServer : ~Bound(c, d)'
      BY <1>1, <3>1 DEF Bound
    <3>3. sent[c] # 0
      BY <1>1, <2>3 DEF LineOf
    <3>4. QED
      BY <1>1, <3>2, <3>3 DEF LineOf
  <2>4. QED
    BY <2>2, <2>3
<1>3. CASE Alive(t)
  <2>1. /\ dq' = [dq EXCEPT ![t] = Append(dq[t], <<x, n>>)] /\ peer' = peer
        /\ cpc' = [cpc EXCEPT ![x] = "type"]
    BY <1>3 DEF DDeliver, CGoto
  <2>2. \A d \in DataServer : Bound(c, d)' <=> Bound(c, d)
    BY <1>1 DEF Bound
  <2>3. /\ \A d \in DataServer : d # t => dq'[d] = dq[d]
        /\ t \in DataServer => /\ Len(dq[t]) \in Nat /\ Len(dq'[t]) = Len(dq[t]) + 1
                               /\ dq'[t][Len(dq[t]) + 1] = <<x, n>>
                               /\ \A i \in 1..Len(dq[t]) : dq'[t][i] = dq[t][i]
    <3>1. \A d \in DataServer : dq[d] \in Seq(DataClient \X Nat)
      BY DEF DataInv, DataTypes
    <3>2. DOMAIN dq = DataServer
      BY DEF DataInv, DataTypes
    <3> HIDE DEF t, n
    <3>3. QED
      BY <2>1, <3>1, <3>2
  <2>4. \A d \in DataServer : \A i \in 1..Len(dq'[d]) :
           i \in 1..Len(dq[d]) \/ (d = t /\ i = Len(dq[d]) + 1)
    BY <2>3
  <2> HIDE DEF t, n
  <2>5. CASE c # x
    <3>1. cpc'[c] = cpc[c]
      BY <1>1, <1>t, <2>1, <2>5
    <3>2. HandedOver(c)' = HandedOver(c)
      BY <1>1, <3>1 DEF HandedOver
    <3>3. \A d \in DataServer : /\ Len(dq'[d]) \in Nat /\ \A i \in 1..Len(dq[d]) : i \in 1..Len(dq'[d]) /\ dq'[d][i] = dq[d][i]
                                /\ \A i \in 1..Len(dq'[d]) : dq'[d][i][1] = c => i \in 1..Len(dq[d])
      <4>1. \A d \in DataServer : Len(dq[d]) \in Nat
        BY DEF DataInv, DataTypes
      <4>2. <<x, n>>[1] # c
        BY <2>5
      <4>3. QED
        BY <2>3, <2>4, <4>1, <4>2
    <3>4. \A d \in DataServer : Absent(c, d) => Absent(c, d)'
      BY <3>3 DEF Absent
    <3>5. ASSUME NEW d \in DataServer, InLine(c, d, Len(printed[c]), HandedOver(c))
          PROVE  InLine(c, d, Len(printed[c]), HandedOver(c))'
      <4> DEFINE p == Len(printed[c])  q == HandedOver(c)
      <4>1. \A i, j \in 1..Len(dq'[d]) : dq'[d][i][1] = c /\ dq'[d][j][1] = c /\ i < j => dq'[d][i][2] < dq'[d][j][2]
        BY <3>3, <3>5 DEF InLine
      <4>2. \A i \in 1..Len(dq'[d]) : dq'[d][i][1] = c => dq'[d][i][2] \in (p + 1)..q
        BY <3>3, <3>5 DEF InLine
      <4>3. \A k \in (p + 1)..q : \E i \in 1..Len(dq'[d]) : dq'[d][i][1] = c /\ dq'[d][i][2] = k
        <5> SUFFICES ASSUME NEW k \in (p + 1)..q
                     PROVE  \E i \in 1..Len(dq'[d]) : dq'[d][i][1] = c /\ dq'[d][i][2] = k
          OBVIOUS
        <5>1. PICK i \in 1..Len(dq[d]) : dq[d][i][1] = c /\ dq[d][i][2] = k
          BY <3>5 DEF InLine
        <5>2. i \in 1..Len(dq'[d]) /\ dq'[d][i] = dq[d][i]
          BY <3>3
        <5>3. QED
          BY <5>1, <5>2
      <4>4. p <= q /\ p' = p /\ q' = q
        BY <1>1, <3>2, <3>5 DEF InLine
      <4>5. QED
        BY <4>1, <4>2, <4>3, <4>4 DEF InLine
    <3>6. QED
      BY <1>1, <2>1, <2>2, <3>1, <3>4, <3>5 DEF LineOf
  <2>6. CASE c = x
    <3>1. cpc'[c] = "type" /\ sent[c] # 0
      BY <1>1, <1>t, <2>1, <2>6 DEF LineOf
    <3>2. ASSUME NEW d \in DataServer, Bound(c, d)
          PROVE  /\ \A e \in DataServer : e # d => Absent(c, e)'
                 /\ \A k \in 1..Len(printed[c]) : printed[c][k] = k
                 /\ InLine(c, d, Len(printed[c]), HandedOver(c))'
      <4> DEFINE p == Len(printed[c])
      <4>1. /\ \A e \in DataServer : e # d => Absent(c, e)
            /\ d = t
            /\ \A k \in 1..Len(printed[c]) : printed[c][k] = k
            /\ InLine(c, d, p, n - 1)
        BY <1>1, <2>6, <3>2 DEF LineOf, HandedOver, t, n
      <4>2. \A e \in DataServer : e # d => Absent(c, e)'
        BY <2>3, <4>1 DEF Absent
      <4>3. HandedOver(c)' = n /\ printed'[c] = printed[c] /\ p \in Nat /\ n \in Nat
        BY <1>1, <2>6, <3>1 DEF HandedOver, n, DataInv, DataTypes
      <4>9. p + 1 <= n
        BY <4>1, <4>3 DEF InLine
      <4>4. \A i, j \in 1..Len(dq'[d]) : dq'[d][i][1] = c /\ dq'[d][j][1] = c /\ i < j => dq'[d][i][2] < dq'[d][j][2]
        <5> SUFFICES ASSUME NEW i \in 1..Len(dq'[d]), NEW j \in 1..Len(dq'[d]),
                            dq'[d][i][1] = c, dq'[d][j][1] = c, i < j
                     PROVE  dq'[d][i][2] < dq'[d][j][2]
          OBVIOUS
        <5>1. i \in 1..Len(dq[d])
          BY <2>3, <4>1
        <5>2. dq'[d][i] = dq[d][i] /\ dq[d][i][2] \in (p + 1)..(n - 1)
          BY <2>3, <4>1, <5>1 DEF InLine
        <5>3. CASE j \in 1..Len(dq[d])
          <6>1. dq'[d][j] = dq[d][j] /\ dq[d][i][1] = c /\ dq[d][j][1] = c
            BY <2>3, <4>1, <5>2, <5>3
          <6>2. QED
            BY <4>1, <5>1, <5>2, <5>3, <6>1 DEF InLine
        <5>4. CASE j = Len(dq[d]) + 1
          <6>1. dq'[d][j][2] = n
            BY <2>3, <4>1, <5>4
          <6>2. QED
            BY <4>3, <5>2, <6>1
        <5>5. QED
          BY <2>4, <5>3, <5>4
      <4>5. \A i \in 1..Len(dq'[d]) : dq'[d][i][1] = c => dq'[d][i][2] \in (p + 1)..n
        <5> SUFFICES ASSUME NEW i \in 1..Len(dq'[d]), dq'[d][i][1] = c
                     PROVE  dq'[d][i][2] \in (p + 1)..n
          OBVIOUS
        <5>1. CASE i \in 1..Len(dq[d])
          <6>1. dq'[d][i] = dq[d][i] /\ dq[d][i][2] \in (p + 1)..(n - 1)
            BY <2>3, <4>1, <5>1 DEF InLine
          <6>2. QED
            BY <4>3, <6>1
        <5>2. CASE i = Len(dq[d]) + 1
          <6>1. dq'[d][i][2] = n
            BY <2>3, <4>1, <5>2
          <6>2. QED
            BY <4>3, <4>9, <6>1
        <5>3. QED
          BY <2>4, <5>1, <5>2
      <4>6. \A k \in (p + 1)..n : \E i \in 1..Len(dq'[d]) : dq'[d][i][1] = c /\ dq'[d][i][2] = k
        <5> SUFFICES ASSUME NEW k \in (p + 1)..n
                     PROVE  \E i \in 1..Len(dq'[d]) : dq'[d][i][1] = c /\ dq'[d][i][2] = k
          OBVIOUS
        <5>1. CASE k = n
          <6>1. /\ Len(dq[d]) + 1 \in 1..Len(dq'[d])
                /\ dq'[d][Len(dq[d]) + 1][1] = c /\ dq'[d][Len(dq[d]) + 1][2] = k
            BY <2>3, <2>6, <4>1, <5>1
          <6>2. QED
            BY <6>1
        <5>2. CASE k # n
          <6>1. k \in (p + 1)..(n - 1)
            BY <4>3, <5>2
          <6>2. PICK i \in 1..Len(dq[d]) : dq[d][i][1] = c /\ dq[d][i][2] = k
            BY <4>1, <6>1 DEF InLine
          <6>3. i \in 1..Len(dq'[d]) /\ dq'[d][i] = dq[d][i]
            BY <2>3, <4>1
          <6>4. QED
            BY <6>2, <6>3
        <5>3. QED
          BY <5>1, <5>2
      <4>7. InLine(c, d, Len(printed[c]), HandedOver(c))'
        <5>1. p <= n
          BY <4>3, <4>9
        <5>2. QED
          BY <4>3, <4>4, <4>5, <4>6, <5>1 DEF InLine
      <4>8. QED
        BY <4>1, <4>2, <4>7
    <3>3. QED
      BY <1>1, <2>1, <2>2, <3>1, <3>2 DEF LineOf
  <2>7. QED
    BY <2>5, <2>6
<1>4. QED
  BY <1>2, <1>3

LEMMA Found1Step == PathInv /\ OwnInv /\ Found1 /\ [Next]_vars => Found1'
<1> SUFFICES ASSUME PathInv, OwnInv, Found1, [Next]_vars PROVE Found1'
  OBVIOUS
<1>t. spc \in [Server -> {"absent", "off", "failed", "ended"} \cup Starting \cup Serving]
      /\ \A d \in DataServer : d \in Server /\ d # Nobody
  BY SocketAssumption DEF PathInv, Server
<1>1. CASE UNCHANGED <<path, spc, robbed>>
  BY <1>1 DEF Found1
<1>2. ASSUME path' = path, robbed' = robbed, \A d \in DataServer : spc'[d] = "recv" => spc[d] = "recv"
      PROVE  Found1'
  BY <1>2 DEF Found1
<1>3. ASSUME NEW s \in Server, ServerStep(s) PROVE Found1'
  <2>1. CASE SRemove(s)
    <3>1. /\ path' = Nobody /\ robbed' = robbed \cup {u \in Server : u = path /\ Alive(u)}
          /\ \A d \in DataServer : spc'[d] = "recv" => spc[d] = "recv"
      BY <1>t, <2>1 DEF SRemove, SGoto
    <3>2. ASSUME NEW d \in DataServer, spc'[d] = "recv", d \notin robbed' PROVE FALSE
      <4>1. spc[d] = "recv" /\ d \notin robbed
        BY <3>1, <3>2
      <4>2. path = d
        BY <4>1 DEF Found1
      <4>3. Alive(d)
        BY <1>t, <4>1 DEF Alive, Serving
      <4>4. QED
        BY <1>t, <3>1, <3>2, <4>2, <4>3
    <3>3. QED
      BY <3>2 DEF Found1
  <2>2. CASE SBind(s)
    <3>1. robbed' = robbed /\ \A d \in Server : d # s => spc'[d] = spc[d]
      BY <1>t, <2>2 DEF SBind, SGoto
    <3>2. CASE path = Nobody
      <4>1. path' = s
        BY <2>2, <3>2 DEF SBind
      <4>2. QED
        BY <1>t, <3>1, <3>2, <4>1 DEF Found1
    <3>3. CASE path # Nobody
      <4>1. path' = path /\ spc'[s] = "failed"
        BY <1>t, <2>2, <3>3 DEF SBind, SGoto
      <4>2. QED
        BY <1>t, <3>1, <4>1 DEF Found1
    <3>4. QED
      BY <3>2, <3>3
  <2>3. CASE SSocket(s) \/ SListen(s) \/ SEnd(s)
    <3>1. path' = path /\ robbed' = robbed /\ \A d \in DataServer : spc'[d] = "recv" => spc[d] = "recv"
      BY <1>t, <2>3 DEF SSocket, SListen, SEnd, SGoto
    <3>2. QED
      BY <1>2, <3>1
  <2>4. CASE SAccept(s) \/ DRecv(s)
    BY <1>1, <2>4 DEF SAccept, DRecv, sVars
  <2>5. QED
    BY <1>3, <2>1, <2>2, <2>3, <2>4 DEF ServerStep
<1>4. ASSUME NEW c \in StrClient, Thread(c) PROVE Found1'
  <2>1. path' = path /\ robbed' = robbed /\ (spc' = spc \/ spc' = [spc EXCEPT ![peer[c]] = "ended"])
    BY <1>4 DEF Thread, TRecv, TClose, sVars
  <2>2. \A d \in DataServer : spc'[d] = "recv" => spc[d] = "recv"
    BY <1>t, <2>1
  <2>3. QED
    BY <1>2, <2>1, <2>2
<1>5. ASSUME NEW c \in StrClient, StrStep(c) PROVE Found1'
  BY <1>1, <1>5 DEF StrStep, CConnect, CSend, CEof, CKill, sVars
<1>6. ASSUME NEW c \in DataClient, DataStep(c) PROVE Found1'
  BY <1>1, <1>6 DEF DataStep, DLine, DDeliver, sVars
<1>7. CASE UNCHANGED vars
  BY <1>1, <1>7 DEF vars
<1>8. QED
  BY <1>3, <1>4, <1>5, <1>6, <1>7 DEF Next

LEMMA DataStepAll == PathInv /\ OwnInv /\ DataInv /\ [Next]_vars => DataInv'
<1> SUFFICES ASSUME PathInv, OwnInv, DataInv, [Next]_vars PROVE DataInv'
  OBVIOUS
<1>0. DataTypes' /\ Found1'
  BY DataTypesStep, Found1Step DEF DataInv
<1>t. /\ spc \in [Server -> {"absent", "off", "failed", "ended"} \cup Starting \cup Serving]
      /\ DataServer \subseteq Server /\ DataClient \subseteq Client /\ DOMAIN peer = Client
      /\ DataTypes /\ \A c \in DataClient : LineOf(c)
      /\ \A c \in DataClient : c \notin StrClient
  BY SocketAssumption DEF PathInv, OwnInv, DataInv, Server, Client
<1> SUFFICES ASSUME NEW c \in DataClient PROVE LineOf(c)'
  BY <1>0 DEF DataInv
<1>1. CASE UNCHANGED vars
  BY <1>1, <1>t, LineSame DEF vars
<1>2. ASSUME NEW s \in Server, ServerStep(s) PROVE LineOf(c)'
  <2>1. CASE DRecv(s)
    BY <2>1, LineReceived DEF DRecv
  <2>2. CASE SSocket(s) \/ SRemove(s) \/ SBind(s) \/ SListen(s) \/ SEnd(s) \/ SAccept(s)
    <3>1. UNCHANGED <<sent, printed, cpc, peer, first, dq>> /\ robbed \subseteq robbed'
      BY <2>2 DEF SSocket, SRemove, SBind, SListen, SEnd, SAccept, cVars, sVars
    <3>2. \A d \in DataServer : spc[d] \in Up => spc'[d] \in Up /\ (spc'[d] = "recv" => spc[d] = "recv")
      BY <1>t, <2>2 DEF SSocket, SRemove, SBind, SListen, SEnd, SAccept, sVars, SGoto, Up, Serving
    <3>3. QED
      BY <1>t, <3>1, <3>2, LineSame
  <2>3. QED
    BY <1>2, <2>1, <2>2 DEF ServerStep
<1>3. ASSUME NEW x \in StrClient, Thread(x) PROVE LineOf(c)'
  <2>1. /\ UNCHANGED <<sent, cpc, peer, first, dq, robbed>>
        /\ spc' = spc \/ spc' = [spc EXCEPT ![peer[x]] = "ended"]
    BY <1>3 DEF Thread, TRecv, TClose, cVars, sVars
  <2>2. printed' = printed \/ \E y \in StrClient : printed' = [printed EXCEPT ![y] = Append(printed[y], Head(buf[y]))]
    <3>1. CASE printed' = printed
      BY <3>1
    <3>2. CASE printed' # printed
      <4>1. TRecv(x) /\ thr[x] = "recv" /\ cell[x] # 0
        BY <1>3, <3>2 DEF Thread, TRecv, TClose, Cell
      <4>2. fd[peer[x]][cell[x]] = x
        BY <4>1 DEF OwnInv, HasOwn
      <4>3. QED
        BY <3>2, <4>1, <4>2 DEF TRecv, Cell
    <3>3. QED
      BY <3>1, <3>2
  <2>3. printed'[c] = printed[c]
    BY <1>t, <2>2 DEF DataTypes
  <2>4. \A d \in DataServer : spc[d] \in Up => spc'[d] \in Up /\ (spc'[d] = "recv" => spc[d] = "recv")
    BY <1>t, <2>1 DEF Up
  <2>5. QED
    BY <1>t, <2>1, <2>3, <2>4, LineSame
<1>4. ASSUME NEW x \in StrClient, StrStep(x) PROVE LineOf(c)'
  <2>1. /\ UNCHANGED <<printed, first, dq, robbed, spc>> /\ c # x
        /\ cpc' = cpc \/ \E to \in {"type", "failed"} \cup Left : cpc' = [cpc EXCEPT ![x] = to]
        /\ peer' = peer \/ peer' = [peer EXCEPT ![x] = path]
        /\ sent' = sent \/ sent' = [sent EXCEPT ![x] = sent[x] + 1]
    BY <1>4, <1>t DEF StrStep, CConnect, CSend, CEof, CKill, CGoto, Left, sVars
  <2>2. sent'[c] = sent[c] /\ cpc'[c] = cpc[c] /\ peer'[c] = peer[c]
    BY <1>t, <2>1 DEF DataTypes
  <2>3. QED
    BY <1>t, <2>1, <2>2, LineSame
<1>5. ASSUME NEW x \in DataClient, DataStep(x) PROVE LineOf(c)'
  BY <1>5, LineTyped, LineHandedOver DEF DataStep
<1>6. QED
  BY <1>1, <1>2, <1>3, <1>4, <1>5 DEF Next

LEMMA InvInit == Init => PathInv /\ OwnInv /\ DataInv
<1> SUFFICES ASSUME Init PROVE PathInv /\ OwnInv /\ DataInv
  OBVIOUS
<1>1. PathInv
  BY SocketAssumption DEF Init, PathInv, Starting, Serving
<1>2. OwnInv
  <2>1. \A s \in StrServer, c \in StrClient : ~Waits(s, c)
    BY DEF Init, Waits
  <2>2. \A c \in StrClient : c # Nobody /\ c \in Client
    BY SocketAssumption DEF Client
  <2>3. QED
    BY <2>1, <2>2 DEF Init, OwnInv, Once, Owned, Single, HasOwn
<1>3. DataTypes
  <2>1. /\ dq = [s \in DataServer |-> <<>>] /\ sent = [c \in Client |-> 0]
        /\ buf = [c \in StrClient |-> <<>>] /\ printed = [c \in Client |-> <<>>]
        /\ first = [c \in DataClient |-> Nobody]
    BY DEF Init
  <2>2. cpc \in [Client -> {"absent", "connect", "type", "deliver", "failed"} \cup Left]
    BY DEF Init
  <2>3. QED
    BY <2>1, <2>2 DEF DataTypes
<1>4. Found1
  BY DEF Init, Found1, Server
<1>5. ASSUME NEW c \in DataClient PROVE LineOf(c)
  <2>1. c \in Client /\ sent[c] = 0 /\ printed[c] = <<>> /\ first[c] = Nobody /\ cpc[c] # "deliver"
        /\ \A e \in DataServer : dq[e] = <<>>
    BY DEF Init, Client
  <2>2. \A e \in DataServer : Absent(c, e) /\ e # Nobody
    BY <2>1, SocketAssumption DEF Absent, Server
  <2>3. QED
    BY <2>1, <2>2 DEF LineOf, Bound
<1>6. QED
  BY <1>1, <1>2, <1>3, <1>4, <1>5 DEF DataInv

\* For any servers, clients, lines and places in the queues: while a datagram
\* server runs and has its path, no line of a client that found it is lost,
\* doubled or out of order, though nobody looks at the result of sendto().
THEOREM LinesWhole == Spec => []DataWhole
<1> DEFINE Inv == PathInv /\ OwnInv /\ DataInv
<1>1. Init => Inv
  BY InvInit
<1>2. Inv /\ [Next]_vars => Inv'
  BY PathStep, OwnStep, DataStepAll
<1>3. Inv => DataWhole
  <2> SUFFICES ASSUME DataInv, NEW c \in DataClient, NEW d \in DataServer, Bound(c, d)
               PROVE  /\ \A k \in 1..Len(printed[c]) : printed[c][k] = k
                      /\ \A i, j \in Places(c, d) : i < j => dq[d][i][2] < dq[d][j][2]
                      /\ {dq[d][i][2] : i \in Places(c, d)} = (Len(printed[c]) + 1)..HandedOver(c)
    BY DEF DataWhole, Bound
  <2>1. /\ \A k \in 1..Len(printed[c]) : printed[c][k] = k
        /\ InLine(c, d, Len(printed[c]), HandedOver(c))
    BY DEF DataInv, LineOf
  <2>2. \A i \in Places(c, d) : i \in 1..Len(dq[d]) /\ dq[d][i][1] = c
    BY DEF Places
  <2>3. \A n \in (Len(printed[c]) + 1)..HandedOver(c) : \E i \in Places(c, d) : dq[d][i][2] = n
    BY <2>1 DEF InLine, Places
  <2>4. {dq[d][i][2] : i \in Places(c, d)} = (Len(printed[c]) + 1)..HandedOver(c)
    <3> DEFINE P == Places(c, d)
               R == (Len(printed[c]) + 1)..HandedOver(c)
               Num(i) == dq[d][i][2]
    <3>1. \A i \in P : Num(i) \in R
      BY <2>1, <2>2 DEF InLine
    <3>2. \A n \in R : \E i \in P : Num(i) = n
      BY <2>3
    <3> HIDE DEF P, R, Num
    <3>3. {Num(i) : i \in P} = R
      BY <3>1, <3>2, Zenon
    <3>4. QED
      BY <3>3 DEF P, R, Num
  <2>5. QED
    BY <2>1, <2>2, <2>4 DEF InLine
<1>4. QED
  BY <1>1, <1>2, <1>3, PTL DEF Spec

-----------------------------------------------------------------------------
(* Types.                                                                  *)

\* What the invariants leave out of the types.
OtherTypes ==
  /\ robbed \subseteq Server /\ cfd \in [StrServer -> Nat]
  /\ thr \in [StrClient -> {"none", "recv", "close", "gone", "refused"}]
  /\ \A c \in Client : sent[c] <= Lines
  /\ peer \in [Client -> Server \cup {Nobody}]

LEMMA OtherTypesStep ==
  PathInv /\ OwnInv /\ DataTypes /\ OtherTypes /\ [Next]_vars => OtherTypes'
<1> SUFFICES ASSUME PathInv, OwnInv, DataTypes, OtherTypes, [Next]_vars PROVE OtherTypes'
  OBVIOUS
<1> USE DEF OtherTypes
<1>1. CASE UNCHANGED vars
  BY <1>1 DEF vars
<1>2. ASSUME NEW s \in Server, ServerStep(s) PROVE OtherTypes'
  <2>1. UNCHANGED <<sent, peer>>
    BY <1>2 DEF ServerStep, SSocket, SRemove, SBind, SListen, SEnd, SAccept, DRecv, cVars
  <2>2. CASE SAccept(s)
    <3> DEFINE c == Head(waiting[s])
    <3>1. s \in StrServer /\ waiting[s] # <<>> /\ waiting[s] \in Seq(StrClient) /\ robbed' = robbed
      BY <2>2 DEF SAccept, sVars, OwnInv
    <3>2. c \in StrClient /\ c = waiting[s][1] /\ 1 \in 1..Len(waiting[s])
      BY <3>1, HeadTailProperties
    <3>3. thr[c] = "none"
      <4>1. Waits(s, c)
        BY <3>2 DEF Waits
      <4>2. \A d \in StrClient : Waits(s, d) => thr[d] = "none"
        BY <3>1 DEF OwnInv
      <4>3. QED
        BY <3>2, <4>1, <4>2
    <3>4. FreeSlot(s) \in Nat
      BY <3>1, <3>2, <3>3, SlotFree DEF Slots
    <3>5. cfd' = [cfd EXCEPT ![s] = FreeSlot(s)]
          /\ (thr' = [thr EXCEPT ![c] = "recv"] \/ thr' = [thr EXCEPT ![c] = "refused"])
      BY <2>2 DEF SAccept, Handed, Refused
    <3> HIDE DEF c
    <3>6. QED
      BY <2>1, <3>1, <3>2, <3>4, <3>5
  <2>3. CASE SSocket(s) \/ SRemove(s) \/ SBind(s) \/ SListen(s) \/ SEnd(s) \/ DRecv(s)
    BY <2>1, <2>3 DEF SSocket, SRemove, SBind, SListen, SEnd, DRecv, tVars, sVars
  <2>4. QED
    BY <1>2, <2>2, <2>3 DEF ServerStep
<1>3. ASSUME NEW c \in StrClient, Thread(c) PROVE OtherTypes'
  <2>1. /\ UNCHANGED <<robbed, cfd, sent, peer>>
        /\ thr' = thr \/ \E to \in {"close", "gone"} : thr' = [thr EXCEPT ![c] = to]
    BY <1>3 DEF Thread, TRecv, TClose, cVars, sVars
  <2>2. QED
    BY <2>1
<1>4. ASSUME NEW c \in Client, sent' = [sent EXCEPT ![c] = sent[c] + 1], sent[c] < Lines
      PROVE  \A d \in Client : sent'[d] <= Lines
  BY <1>4, SocketAssumption DEF DataTypes
<1>5. ASSUME NEW c \in StrClient, StrStep(c) PROVE OtherTypes'
  <2>1. UNCHANGED <<robbed, cfd, thr>> /\ c \in Client
    BY <1>5 DEF StrStep, CConnect, CSend, CEof, CKill, sVars, tVars, Client
  <2>2. peer' = peer \/ peer' = [peer EXCEPT ![c] = path]
    BY <1>5 DEF StrStep, CConnect, CSend, CEof, CKill
  <2>3. sent' = sent \/ (sent[c] < Lines /\ sent' = [sent EXCEPT ![c] = sent[c] + 1])
    BY <1>5 DEF StrStep, CConnect, CSend, CEof, CKill
  <2>4. peer' \in [Client -> Server \cup {Nobody}]
    BY <2>1, <2>2 DEF PathInv
  <2>5. \A d \in Client : sent'[d] <= Lines
    BY <1>4, <2>1, <2>3
  <2>6. QED
    BY <2>1, <2>4, <2>5
<1>6. ASSUME NEW c \in DataClient, DataStep(c) PROVE OtherTypes'
  <2>1. UNCHANGED <<robbed, cfd, thr>> /\ c \in Client
    BY <1>6 DEF DataStep, DLine, DDeliver, sVars, tVars, Client
  <2>2. peer' = peer \/ peer' = [peer EXCEPT ![c] = Found]
    BY <1>6 DEF DataStep, DLine, DDeliver
  <2>3. sent' = sent \/ (sent[c] < Lines /\ sent' = [sent EXCEPT ![c] = sent[c] + 1])
    BY <1>6 DEF DataStep, DLine, DDeliver
  <2>4. Found \in Server \cup {Nobody}
    BY DEF Found, PathInv
  <2>5. peer' \in [Client -> Server \cup {Nobody}]
    BY <2>1, <2>2, <2>4
  <2>6. \A d \in Client : sent'[d] <= Lines
    BY <1>4, <2>1, <2>3
  <2>7. QED
    BY <2>1, <2>5, <2>6
<1>7. QED
  BY <1>1, <1>2, <1>3, <1>5, <1>6 DEF Next

\* For any servers and clients: the types; the accept loop always finds a free
\* descriptor, and a client sends no more than its lines.
THEOREM SocketTypes == Spec => []TypeOK
<1>1. Init => OtherTypes
  BY SocketAssumption DEF Init, OtherTypes
<1>2. PathInv /\ OwnInv /\ DataInv => DataTypes
  BY DEF DataInv
<1>3. PathInv /\ OwnInv /\ DataTypes /\ OtherTypes => TypeOK
  BY SocketAssumption DEF PathInv, OwnInv, DataTypes, OtherTypes, TypeOK
<1>4. QED
  BY <1>1, <1>2, <1>3, InvInit, PathStep, OwnStep, DataStepAll, OtherTypesStep, PTL DEF Spec
=============================================================================
