--------------------------- MODULE PosixShmProofs ---------------------------
(***************************************************************************)
(* posix_shm_demo hands out at most one permit for each start of a server, *)
(* for any clients and servers, however their steps interleave and whoever *)
(* is killed while it holds one; and until the semaphores of an object are *)
(* initialised again, what passes through it passes as through one slot.   *)
(***************************************************************************)
EXTENDS PosixShm, FiniteSetTheorems, TLAPS

\* What counting the permits rests on.
PermType ==
  /\ named \in 0..MaxObjects /\ made \in 0..MaxObjects
  /\ read \in [Object -> Nat] /\ write \in [Object -> Nat] /\ inits \in [Object -> Nat]
  /\ pc \in [Proc -> {"open", "initR", "initW", "wait", "fill", "print", "post", "ended"}]
  /\ shmp \in [Proc -> Object]

PermInv == PermType /\ PermitsBounded

LEMMA InsideFinite == ASSUME NEW o PROVE IsFiniteSet(Inside(o)) /\ Cardinality(Inside(o)) \in Nat
<1>1. IsFiniteSet(Proc)
  BY ShmAssumption, FS_Union DEF Proc
<1>2. Inside(o) \subseteq Proc
  BY DEF Inside
<1>3. QED
  BY <1>1, <1>2, FS_Subset, FS_CardinalityType

LEMMA InsideFiniteNext ==
  ASSUME NEW o
  PROVE  IsFiniteSet(Inside(o)') /\ Cardinality(Inside(o))' \in Nat
<1>1. IsFiniteSet(Proc)
  BY ShmAssumption, FS_Union DEF Proc
<1>2. Inside(o)' \subseteq Proc
  BY DEF Inside
<1>3. QED
  BY <1>1, <1>2, FS_Subset, FS_CardinalityType

\* A step of p that begins to hold a permit, holds it still, or no longer.
LEMMA Enters ==
  ASSUME PermType, NEW p \in Proc, pc[p] \notin {"fill", "print", "post"},
         pc' = [pc EXCEPT ![p] = "fill"] \/ pc' = [pc EXCEPT ![p] = "print"], shmp' = shmp,
         NEW o \in Object
  PROVE  Cardinality(Inside(o))' = IF shmp[p] = o THEN Cardinality(Inside(o)) + 1
                                                  ELSE Cardinality(Inside(o))
<1>1. CASE shmp[p] = o
  <2>1. Inside(o)' = Inside(o) \cup {p} /\ p \notin Inside(o)
    BY <1>1 DEF Inside, PermType
  <2>2. QED
    BY <1>1, <2>1, InsideFinite, FS_AddElement
<1>2. CASE shmp[p] # o
  <2>1. Inside(o)' = Inside(o)
    BY <1>2 DEF Inside, PermType
  <2>2. QED
    BY <1>2, <2>1
<1>3. QED
  BY <1>1, <1>2

LEMMA Stays ==
  ASSUME PermType, NEW p \in Proc, NEW next, shmp' = shmp, pc' = [pc EXCEPT ![p] = next],
         pc[p] \in {"fill", "print", "post"} <=> next \in {"fill", "print", "post"},
         NEW o \in Object
  PROVE  Cardinality(Inside(o))' = Cardinality(Inside(o))
<1>1. Inside(o)' = Inside(o)
  BY DEF Inside, PermType
<1>2. QED
  BY <1>1

LEMMA Leaves ==
  ASSUME PermType, NEW p \in Proc, pc[p] \in {"fill", "print", "post"}, NEW next,
         next \notin {"fill", "print", "post"}, shmp' = shmp, pc' = [pc EXCEPT ![p] = next],
         NEW o \in Object
  PROVE  Cardinality(Inside(o))' = IF shmp[p] = o THEN Cardinality(Inside(o)) - 1
                                                  ELSE Cardinality(Inside(o))
<1>1. CASE shmp[p] = o
  <2>1. Inside(o)' = Inside(o) \ {p} /\ p \in Inside(o)
    BY <1>1 DEF Inside, PermType
  <2>2. QED
    BY <1>1, <2>1, InsideFinite, FS_RemoveElement
<1>2. CASE shmp[p] # o
  <2>1. Inside(o)' = Inside(o)
    BY <1>2 DEF Inside, PermType
  <2>2. QED
    BY <1>2, <2>1
<1>3. QED
  BY <1>1, <1>2

LEMMA PermTypeStep == PermType /\ [Next]_vars => PermType'
<1> SUFFICES ASSUME PermType, [Next]_vars PROVE PermType'
  OBVIOUS
<1> DEFINE States == {"open", "initR", "initW", "wait", "fill", "print", "post", "ended"}
<1>0. /\ named \in 0..MaxObjects /\ made \in 0..MaxObjects
      /\ read \in [Object -> Nat] /\ write \in [Object -> Nat] /\ inits \in [Object -> Nat]
      /\ pc \in [Proc -> States] /\ shmp \in [Proc -> Object]
  BY DEF PermType
<1>p. /\ \A s \in Server : s \in Proc /\ shmp[s] \in Object
      /\ \A c \in Client : c \in Proc /\ shmp[c] \in Object
  BY <1>0 DEF Proc
<1>a. ASSUME NEW p \in Proc, NEW at, NEW next \in States, Goto(p, at, next)
      PROVE  pc' \in [Proc -> States]
  BY <1>0, <1>a DEF Goto
<1> HIDE DEF States
<1>s. \A x : x \in States <=>
        x \in {"open", "initR", "initW", "wait", "fill", "print", "post", "ended"}
  BY DEF States
<1>t. ASSUME made' \in 0..MaxObjects, named' \in 0..MaxObjects, pc' \in [Proc -> States],
             read' \in [Object -> Nat], write' \in [Object -> Nat],
             inits' \in [Object -> Nat], shmp' \in [Proc -> Object]
      PROVE  PermType'
  BY <1>t DEF PermType, States
<1>1. CASE ShmOpen \/ Ftruncate \/ Unlink
  BY <1>1, <1>0, <1>t, ShmAssumption DEF ShmOpen, Ftruncate, Unlink, object
<1>2. ASSUME NEW p \in Proc, NEW next \in States, Attach(p, next), made' = made
      PROVE  PermType'
  <2>1. named \in Object
    BY <1>2, <1>0, ShmAssumption DEF Attach, Object
  <2>2. shmp' \in [Proc -> Object]
    BY <1>2, <1>0, <2>1 DEF Attach
  <2>3. QED
    BY <1>0, <1>2, <1>a, <1>t, <2>2 DEF Attach, names, object
<1>b. ASSUME NEW p \in Proc, NEW at, Bus(p, at) PROVE PermType'
  BY <1>0, <1>a, <1>b, <1>t, <1>s DEF Bus, names, object
<1>3. ASSUME NEW s \in Server, SInitRead(s) PROVE PermType'
  BY <1>0, <1>p, <1>a, <1>b, <1>3, <1>t, <1>s DEF SInitRead, names
<1>4. ASSUME NEW s \in Server, SInitWrite(s) PROVE PermType'
  BY <1>0, <1>p, <1>a, <1>4, <1>t, <1>s DEF SInitWrite, names
<1>5. ASSUME NEW s \in Server, SWait(s) \/ SPrint(s) \/ SPost(s) PROVE PermType'
  <2>1. CASE SWait(s)
    BY <1>0, <1>p, <1>a, <2>1, <1>t, <1>s DEF SWait, names
  <2>2. CASE SPrint(s)
    BY <1>0, <1>p, <1>a, <2>2, <1>t, <1>s DEF SPrint, names, object
  <2>3. CASE SPost(s)
    BY <1>0, <1>p, <1>a, <2>3, <1>t, <1>s DEF SPost, names
  <2>4. QED
    BY <1>5, <2>1, <2>2, <2>3
<1>6. ASSUME NEW c \in Client, COpen(c) \/ CWait(c) PROVE PermType'
  <2>1. CASE COpen(c)
    BY <1>p, <1>2, <2>1, <1>s DEF COpen, Attach, names
  <2>2. CASE CWait(c)
    BY <1>0, <1>p, <1>a, <1>b, <2>2, <1>t, <1>s DEF CWait, names
  <2>3. QED
    BY <1>6, <2>1, <2>2
<1>7. ASSUME NEW c \in Client, CFill(c) \/ CPost(c) PROVE PermType'
  <2>1. CASE CFill(c)
    BY <1>0, <1>p, <1>a, <2>1, <1>t, <1>s DEF CFill, names, object
  <2>2. CASE CPost(c)
    BY <1>0, <1>p, <1>a, <2>2, <1>t, <1>s DEF CPost, names
  <2>3. QED
    BY <1>7, <2>1, <2>2
<1>8. ASSUME NEW p \in Proc, Wake(p) \/ Kill(p) \/ Rerun(p) PROVE PermType'
  BY <1>0, <1>8, <1>t, <1>s DEF Wake, Kill, Rerun, Goto, names, object
<1>9. CASE UNCHANGED vars
  BY <1>0, <1>9, <1>t DEF vars, names, object
<1>10. ASSUME NEW s \in Server, SOpen(s) PROVE PermType'
  BY <1>p, <1>2, <1>10, <1>s DEF SOpen, Attach, names
<1>11. QED
  BY <1>1, <1>3, <1>4, <1>5, <1>6, <1>7, <1>8, <1>9, <1>10 DEF Next, ServerStep, ClientStep

\* A step bounds the permits of each object if, for each of them, what it adds
\* to their number is at most what it adds to the initialisations.
LEMMA PermitStep == PermInv /\ [Next]_vars => PermitsBounded'
<1> SUFFICES ASSUME PermInv, [Next]_vars, NEW o \in Object PROVE (Permits(o) <= inits[o])'
  BY DEF PermitsBounded
<1> DEFINE n == Cardinality(Inside(o))
<1>0. /\ PermType /\ Permits(o) <= inits[o]
      /\ n \in Nat /\ n' \in Nat
  BY InsideFinite, InsideFiniteNext DEF PermInv, PermitsBounded
<1> HIDE DEF n
<1> USE <1>0 DEF Permits
<1>a. Permits(o) = read[o] + write[o] + n /\ Permits(o)' = read'[o] + write'[o] + n'
  BY DEF n
<1>1. CASE UNCHANGED <<object, pc, shmp, inits>>
  BY <1>1, <1>a DEF object, n, Inside
<1>2. ASSUME NEW p \in Proc, NEW next, Attach(p, next), next \in {"initR", "wait"}
      PROVE  (Permits(o) <= inits[o])'
  <2>1. Inside(o)' = Inside(o)
    BY <1>2 DEF Inside, Attach, Goto, PermType
  <2>2. n' = n
    BY <2>1 DEF n
  <2>3. QED
    BY <1>2, <1>a, <2>2 DEF Attach, object
<1>3. ASSUME NEW p \in Proc, NEW next, Goto(p, pc[p], next), shmp' = shmp,
             pc[p] \in {"fill", "print", "post"} <=> next \in {"fill", "print", "post"}
      PROVE  n' = n
  BY <1>3, Stays DEF n, Goto
<1>4. ASSUME NEW s \in Server, SInitRead(s) PROVE (Permits(o) <= inits[o])'
  <2>1. n' = n
    BY <1>3, <1>4 DEF SInitRead, Bus, Goto, Proc
  <2>2. read'[o] \in Nat /\ read'[o] <= read[o] /\ write' = write /\ inits' = inits
    BY <1>4 DEF SInitRead, Bus, object, PermType
  <2>3. QED
    BY <1>a, <2>1, <2>2 DEF PermType
<1>5. ASSUME NEW s \in Server, SInitWrite(s) PROVE (Permits(o) <= inits[o])'
  <2>1. n' = n
    BY <1>3, <1>5 DEF SInitWrite, Goto, Proc
  <2>2. CASE shmp[s] = o
    <3>1. read'[o] = read[o] /\ write'[o] = 1 /\ inits'[o] = inits[o] + 1
      BY <1>5, <2>2 DEF SInitWrite, PermType
    <3>2. QED
      BY <1>a, <2>1, <3>1 DEF PermType
  <2>3. CASE shmp[s] # o
    <3>1. read'[o] = read[o] /\ write'[o] = write[o] /\ inits'[o] = inits[o]
      BY <1>5, <2>3 DEF SInitWrite, PermType
    <3>2. QED
      BY <1>a, <2>1, <3>1 DEF PermType
  <2>4. QED
    BY <2>2, <2>3
<1>6. ASSUME NEW s \in Server, SWait(s) PROVE (Permits(o) <= inits[o])'
  <2>1. n' = IF shmp[s] = o THEN n + 1 ELSE n
    BY <1>6, Enters DEF SWait, Goto, Proc, n
  <2>2. /\ read'[o] = IF shmp[s] = o THEN read[o] - 1 ELSE read[o]
        /\ write' = write /\ inits' = inits
    BY <1>6 DEF SWait, PermType
  <2>3. QED
    BY <1>a, <2>1, <2>2 DEF PermType
<1>7. ASSUME NEW s \in Server, SPrint(s) PROVE (Permits(o) <= inits[o])'
  <2>1. n' = n
    BY <1>3, <1>7 DEF SPrint, Goto, Proc
  <2>2. QED
    BY <1>7, <1>a, <2>1 DEF SPrint, object
<1>8. ASSUME NEW p \in Proc, SPost(p) \/ CPost(p) PROVE (Permits(o) <= inits[o])'
  <2>1. n' = IF shmp[p] = o THEN n - 1 ELSE n
    BY <1>8, Leaves DEF SPost, CPost, Goto, n
  <2>2. CASE shmp[p] # o
    <3>1. read'[o] = read[o] /\ write'[o] = write[o] /\ inits' = inits
      BY <1>8, <2>2 DEF SPost, CPost, PermType
    <3>2. QED
      BY <1>a, <2>1, <2>2, <3>1 DEF PermType
  <2>3. CASE shmp[p] = o
    <3>1. read'[o] + write'[o] = read[o] + write[o] + 1 /\ inits' = inits
      BY <1>8, <2>3 DEF SPost, CPost, PermType
    <3>2. read'[o] \in Nat /\ write'[o] \in Nat
      BY <1>8, <2>3 DEF SPost, CPost, PermType
    <3>3. QED
      BY <1>a, <2>1, <2>3, <3>1, <3>2 DEF PermType
  <2>4. QED
    BY <2>2, <2>3
<1>9. ASSUME NEW c \in Client, CWait(c) PROVE (Permits(o) <= inits[o])'
  <2>1. CASE Bus(c, "wait")
    <3>1. n' = n
      BY <1>3, <2>1 DEF Bus, Goto, Proc
    <3>2. QED
      BY <2>1, <1>a, <3>1 DEF Bus, object
  <2>2. CASE ~Bus(c, "wait")
    <3>1. n' = IF shmp[c] = o THEN n + 1 ELSE n
      BY <1>9, <2>2, Enters DEF CWait, Goto, Proc, n
    <3>2. /\ write'[o] = IF shmp[c] = o THEN write[o] - 1 ELSE write[o]
          /\ read' = read /\ inits' = inits
      BY <1>9, <2>2 DEF CWait, PermType
    <3>3. QED
      BY <1>a, <3>1, <3>2 DEF PermType
  <2>3. QED
    BY <2>1, <2>2
<1>10. ASSUME NEW p \in Proc, read' = read, write' = write, inits' = inits, shmp' = shmp,
              pc' = [pc EXCEPT ![p] = "ended"]
       PROVE  (Permits(o) <= inits[o])'
  <2>1. n' <= n
    <3>1. CASE pc[p] \in {"fill", "print", "post"}
      <4>1. Cardinality(Inside(o))' = IF shmp[p] = o THEN Cardinality(Inside(o)) - 1
                                                     ELSE Cardinality(Inside(o))
        BY <1>10, <3>1, Leaves
      <4>2. QED
        BY <4>1 DEF n
    <3>2. CASE pc[p] \notin {"fill", "print", "post"}
      <4>1. Cardinality(Inside(o))' = Cardinality(Inside(o))
        BY <1>10, <3>2, Stays
      <4>2. QED
        BY <4>1 DEF n
    <3>3. QED
      BY <3>1, <3>2
  <2>2. QED
    BY <1>10, <1>a, <2>1 DEF PermType
<1>11. ASSUME NEW c \in Client, CFill(c) PROVE (Permits(o) <= inits[o])'
  <2>1. CASE Goto(c, "fill", "ended")
    BY <1>10, <1>11, <2>1 DEF CFill, Goto, object, Proc
  <2>2. CASE Goto(c, "fill", "post")
    <3>1. n' = n
      BY <1>3, <1>11, <2>2 DEF CFill, Goto, object, Proc
    <3>2. QED
      BY <1>11, <1>a, <3>1 DEF CFill, object
  <2>3. QED
    BY <1>11, <2>1, <2>2 DEF CFill
<1>12. ASSUME NEW p \in Proc, Wake(p) \/ Kill(p) \/ Rerun(p) PROVE (Permits(o) <= inits[o])'
  <2>1. CASE Wake(p)
    BY <1>1, <2>1 DEF Wake
  <2>2. CASE Kill(p)
    BY <1>10, <2>2 DEF Kill, object
  <2>3. CASE Rerun(p)
    <3>1. n' = n
      BY <1>3, <2>3 DEF Rerun, Goto
    <3>2. QED
      BY <2>3, <1>a, <3>1 DEF Rerun, object
  <2>4. QED
    BY <1>12, <2>1, <2>2, <2>3
<1>13. CASE ShmOpen \/ Ftruncate \/ Unlink
  BY <1>1, <1>13 DEF ShmOpen, Ftruncate, Unlink
<1>14. CASE UNCHANGED vars
  BY <1>1, <1>14 DEF vars
<1>15. ASSUME NEW s \in Server, SOpen(s) PROVE (Permits(o) <= inits[o])'
  BY <1>2, <1>15 DEF SOpen, Proc
<1>16. ASSUME NEW c \in Client, COpen(c) PROVE (Permits(o) <= inits[o])'
  BY <1>2, <1>16 DEF COpen, Proc
<1>17. ASSUME NEW s \in Server, ServerStep(s) PROVE (Permits(o) <= inits[o])'
  BY <1>4, <1>5, <1>6, <1>7, <1>8, <1>17 DEF ServerStep, Proc
<1>18. ASSUME NEW c \in Client, ClientStep(c) PROVE (Permits(o) <= inits[o])'
  BY <1>8, <1>9, <1>11, <1>16, <1>18 DEF ClientStep, Proc
<1>19. QED
  BY <1>12, <1>13, <1>14, <1>15, <1>17, <1>18 DEF Next

LEMMA PermInit == Init => PermInv
<1> SUFFICES ASSUME Init PROVE PermInv
  OBVIOUS
<1>1. PermType
  BY ShmAssumption DEF Init, PermType, Zero, Object, Proc
<1>2. ASSUME NEW o \in Object PROVE Permits(o) <= inits[o]
  <2>1. Inside(o) = {}
    BY DEF Init, Inside
  <2>2. Cardinality(Inside(o)) = 0
    BY <2>1, FS_EmptySet
  <2>3. read[o] = 0 /\ write[o] = 0 /\ inits[o] = 0
    BY DEF Init, Zero
  <2>4. QED
    BY <2>2, <2>3 DEF Permits
<1>3. QED
  BY <1>1, <1>2 DEF PermInv, PermitsBounded

\* Each start of a server adds at most one permit to touch the data of its
\* object, whoever holds one then and whoever is killed with it.
THEOREM PermitBound == Spec => []PermitsBounded
<1>1. Init => PermInv
  BY PermInit
<1>2. PermInv /\ [Next]_vars => PermInv'
  BY PermTypeStep, PermitStep DEF PermInv
<1>3. PermInv => PermitsBounded
  BY DEF PermInv
<1>4. QED
  BY <1>1, <1>2, <1>3, PTL DEF Spec

-----------------------------------------------------------------------------
(* From it: the demo implements the one-slot buffer of OneSlot.            *)

\* Somebody may fill the slot of o, or has a printed line to account for.
Free(o) == \/ write[o] > 0
           \/ \E p \in Proc : shmp[p] = o /\ (pc[p] = "fill" \/ (pc[p] = "post" /\ p \in Server))
\* The slot of o holds a line that is not printed yet, and somebody may print it.
Full(o) == \/ read[o] > 0
           \/ \E p \in Proc : shmp[p] = o /\ (pc[p] = "print" \/ (pc[p] = "post" /\ p \in Client))

\* What holds of an object until its semaphores are initialised again.
One(o) ==
  /\ inits[o] = 0 => sent[o] = 0 /\ printed[o] = <<>>
  /\ Free(o) => Len(printed[o]) = sent[o]
  /\ Full(o) => Len(printed[o]) + 1 = sent[o] /\ data[o] = sent[o]

LineType ==
  /\ sent \in [Object -> 0..MaxLines] /\ data \in [Object -> 0..MaxLines]
  /\ printed \in [Object -> Seq(0..MaxLines)]

SlotInv == PermInv /\ LineType /\ \A o \in Object : inits[o] <= 1 => One(o)

LEMMA Alone ==
  ASSUME PermInv, NEW o \in Object, inits[o] <= 1, NEW p \in Inside(o)
  PROVE  read[o] = 0 /\ write[o] = 0 /\ inits[o] = 1 /\ Inside(o) = {p}
<1>1. IsFiniteSet(Inside(o)) /\ Cardinality(Inside(o)) \in Nat
  BY InsideFinite
<1>2. IsFiniteSet(Inside(o) \ {p}) /\ Cardinality(Inside(o) \ {p}) = Cardinality(Inside(o)) - 1
  BY <1>1, FS_RemoveElement
<1>3. Cardinality(Inside(o) \ {p}) \in Nat
  BY <1>2, FS_CardinalityType
<1>4. read[o] \in Nat /\ write[o] \in Nat /\ inits[o] \in Nat
  BY DEF PermInv, PermType
<1>5. read[o] + write[o] + Cardinality(Inside(o)) <= inits[o]
  BY DEF PermInv, PermitsBounded, Permits
<1>6. read[o] = 0 /\ write[o] = 0 /\ inits[o] = 1 /\ Cardinality(Inside(o) \ {p}) = 0
  BY <1>1, <1>2, <1>3, <1>4, <1>5
<1>7. Inside(o) \ {p} = {}
  BY <1>2, <1>6, FS_EmptySet
<1>8. QED
  BY <1>6, <1>7

LEMMA Unused ==
  ASSUME PermInv, NEW o \in Object, inits[o] = 0
  PROVE  read[o] = 0 /\ Inside(o) = {}
<1>1. IsFiniteSet(Inside(o)) /\ Cardinality(Inside(o)) \in Nat
  BY InsideFinite
<1>2. read[o] \in Nat /\ write[o] \in Nat
  BY DEF PermInv, PermType
<1>3. read[o] + write[o] + Cardinality(Inside(o)) <= 0
  BY DEF PermInv, PermitsBounded, Permits
<1>4. read[o] = 0 /\ Cardinality(Inside(o)) = 0
  BY <1>1, <1>2, <1>3
<1>5. QED
  BY <1>1, <1>4, FS_EmptySet

LEMMA LineTypeStep == LineType /\ PermType /\ [Next]_vars => LineType'
<1> SUFFICES ASSUME LineType, PermType, [Next]_vars PROVE LineType'
  OBVIOUS
<1>1. CASE UNCHANGED <<sent, data, printed>>
  BY <1>1 DEF LineType
<1>2. ASSUME NEW c \in Client, CFill(c) PROVE LineType'
  <2>1. shmp[c] \in Object
    BY DEF PermType, Proc
  <2>2. CASE UNCHANGED <<sent, data, printed>>
    BY <1>1, <2>2
  <2>3. CASE ~UNCHANGED <<sent, data, printed>>
    <3>1. /\ sent[shmp[c]] < MaxLines /\ printed' = printed
          /\ sent' = [sent EXCEPT ![shmp[c]] = sent[shmp[c]] + 1]
          /\ data' = [data EXCEPT ![shmp[c]] = sent[shmp[c]] + 1]
      BY <1>2, <2>3 DEF CFill, object
    <3>2. sent[shmp[c]] + 1 \in 0..MaxLines
      BY <2>1, <3>1, ShmAssumption DEF LineType
    <3>3. QED
      BY <2>1, <3>1, <3>2 DEF LineType
  <2>4. QED
    BY <2>2, <2>3
<1>3. ASSUME NEW s \in Server, SPrint(s) PROVE LineType'
  <2>1. shmp[s] \in Object /\ data[shmp[s]] \in 0..MaxLines /\ printed[shmp[s]] \in Seq(0..MaxLines)
    BY DEF PermType, Proc, LineType
  <2>2. Append(printed[shmp[s]], data[shmp[s]]) \in Seq(0..MaxLines)
    BY <2>1
  <2>3. QED
    BY <1>3, <2>1, <2>2 DEF LineType, SPrint, object
<1>4. ASSUME NEW s \in Server, SOpen(s) \/ SInitRead(s) \/ SInitWrite(s) \/ SWait(s) \/ SPost(s)
      PROVE  UNCHANGED <<sent, data, printed>>
  BY <1>4 DEF SOpen, Attach, SInitRead, Bus, SInitWrite, SWait, SPost, object
<1>5. ASSUME NEW c \in Client, COpen(c) \/ CWait(c) \/ CPost(c)
      PROVE  UNCHANGED <<sent, data, printed>>
  BY <1>5 DEF COpen, Attach, CWait, Bus, CPost, object
<1>6. ASSUME NEW p \in Proc, Wake(p) \/ Kill(p) \/ Rerun(p)
      PROVE  UNCHANGED <<sent, data, printed>>
  BY <1>6 DEF Wake, Kill, Rerun, object
<1>7. CASE ShmOpen \/ Ftruncate \/ Unlink \/ UNCHANGED vars
  BY <1>1, <1>7 DEF ShmOpen, Ftruncate, Unlink, object, vars
<1>8. QED
  BY <1>1, <1>2, <1>3, <1>4, <1>5, <1>6, <1>7 DEF Next, ServerStep, ClientStep

\* What each step does with object o: all but two leave its lines alone, and
\* make it neither free nor full; clients fill it, servers print it.
Quiet(o) == /\ inits[o]' = inits[o] /\ UNCHANGED <<sent[o], printed[o], data[o]>>
            /\ Free(o)' => Free(o)
            /\ Full(o)' => Full(o)
Renewed(o) == inits'[o] = inits[o] + 1 /\ UNCHANGED <<sent[o], printed[o], data[o], read[o]>>
              /\ Inside(o)' = Inside(o)
Filled(o) ==
  \E c \in Client :
    /\ c \in Inside(o) /\ pc[c] = "fill" /\ pc' = [pc EXCEPT ![c] = "post"] /\ shmp' = shmp
    /\ sent[o] < MaxLines /\ sent'[o] = sent[o] + 1 /\ data'[o] = sent[o] + 1
    /\ UNCHANGED <<printed[o], inits[o], read[o], write[o]>>
Printed(o) ==
  \E s \in Server :
    /\ s \in Inside(o) /\ pc[s] = "print" /\ pc' = [pc EXCEPT ![s] = "post"] /\ shmp' = shmp
    /\ printed'[o] = Append(printed[o], data[o])
    /\ UNCHANGED <<sent[o], data[o], inits[o], read[o], write[o]>>

LEMMA ObjectStep ==
  ASSUME PermType, LineType, [Next]_vars, NEW o \in Object
  PROVE  Quiet(o) \/ Renewed(o) \/ Filled(o) \/ Printed(o)
<1>p. /\ \A s \in Server : s \in Proc /\ shmp[s] \in Object /\ s \notin Client
      /\ \A c \in Client : c \in Proc /\ shmp[c] \in Object /\ c \notin Server
  BY ShmAssumption DEF PermType, Proc
<1>1. ASSUME UNCHANGED <<object, pc, shmp, inits, sent, printed>> PROVE Quiet(o)
  BY <1>1 DEF Quiet, object, Free, Full
<1>2. ASSUME NEW p \in Proc, NEW next \in {"initR", "wait"}, Attach(p, next) PROVE Quiet(o)
  BY <1>2 DEF Attach, Goto, PermType, Quiet, Free, Full, object
<1>3. ASSUME NEW p \in Proc, NEW next \in {"ended", "open"}, pc' = [pc EXCEPT ![p] = next],
             UNCHANGED <<object, shmp, inits, sent, printed>>
      PROVE  Quiet(o)
  BY <1>3 DEF PermType, Quiet, Free, Full, object
<1>b. ASSUME NEW p \in Proc, NEW at, Bus(p, at) PROVE Quiet(o)
  BY <1>3, <1>b DEF Bus, Goto
<1>4. ASSUME NEW s \in Server, SInitRead(s) PROVE Quiet(o)
  <2>1. CASE Bus(s, "initR")
    BY <1>b, <1>p, <2>1
  <2>2. CASE ~Bus(s, "initR")
    <3>1. /\ pc' = [pc EXCEPT ![s] = "initW"] /\ read' = [read EXCEPT ![shmp[s]] = 0]
          /\ UNCHANGED <<write, data, shmp, inits, sent, printed>>
      BY <1>4, <2>2 DEF SInitRead, Goto
    <3>2. QED
      BY <1>p, <3>1 DEF PermType, Quiet, Free, Full
  <2>3. QED
    BY <2>1, <2>2
<1>5. ASSUME NEW s \in Server, SInitWrite(s) PROVE Quiet(o) \/ Renewed(o)
  <2>1. CASE shmp[s] = o
    BY <1>p, <1>5, <2>1 DEF PermType, SInitWrite, Goto, Renewed, Inside
  <2>2. CASE shmp[s] # o
    BY <1>p, <1>5, <2>2 DEF PermType, SInitWrite, Goto, Quiet, Free, Full
  <2>3. QED
    BY <2>1, <2>2
<1>6. ASSUME NEW s \in Server, SWait(s) PROVE Quiet(o)
  <2>1. CASE shmp[s] = o
    BY <1>p, <1>6, <2>1 DEF PermType, SWait, Goto, Quiet, Free, Full
  <2>2. CASE shmp[s] # o
    BY <1>p, <1>6, <2>2 DEF PermType, SWait, Goto, Quiet, Free, Full
  <2>3. QED
    BY <2>1, <2>2
<1>7. ASSUME NEW s \in Server, SPrint(s) PROVE Quiet(o) \/ Printed(o)
  <2>1. CASE shmp[s] = o
    BY <1>p, <1>7, <2>1 DEF PermType, LineType, SPrint, Goto, Printed, Inside, object
  <2>2. CASE shmp[s] # o
    BY <1>p, <1>7, <2>2 DEF PermType, LineType, SPrint, Goto, Quiet, Free, Full, object
  <2>3. QED
    BY <2>1, <2>2
<1>8. ASSUME NEW s \in Server, SPost(s) PROVE Quiet(o)
  <2>1. CASE shmp[s] = o
    BY <1>p, <1>8, <2>1 DEF PermType, SPost, Goto, Quiet, Free, Full
  <2>2. CASE shmp[s] # o
    BY <1>p, <1>8, <2>2 DEF PermType, SPost, Goto, Quiet, Free, Full
  <2>3. QED
    BY <2>1, <2>2
<1>9. ASSUME NEW c \in Client, CWait(c) PROVE Quiet(o)
  <2>1. CASE Bus(c, "wait")
    BY <1>b, <1>p, <2>1
  <2>2. CASE ~Bus(c, "wait")
    <3>1. /\ pc' = [pc EXCEPT ![c] = "fill"] /\ write' = [write EXCEPT ![shmp[c]] = @ - 1]
          /\ write[shmp[c]] > 0 /\ UNCHANGED <<read, data, shmp, inits, sent, printed>>
      BY <1>9, <2>2 DEF CWait, Goto
    <3>2. CASE shmp[c] = o
      BY <1>p, <3>1, <3>2 DEF PermType, Quiet, Free, Full
    <3>3. CASE shmp[c] # o
      BY <1>p, <3>1, <3>3 DEF PermType, Quiet, Free, Full
    <3>4. QED
      BY <3>2, <3>3
  <2>3. QED
    BY <2>1, <2>2
<1>10. ASSUME NEW c \in Client, CFill(c) PROVE Quiet(o) \/ Filled(o)
  <2>1. CASE Goto(c, "fill", "ended")
    <3>1. UNCHANGED <<object, shmp, inits, sent, printed>>
      BY <1>10, <1>p, <2>1 DEF CFill, Goto, object, PermType
    <3>2. QED
      BY <1>3, <1>p, <2>1, <3>1 DEF Goto
  <2>2. CASE ~Goto(c, "fill", "ended")
    <3>1. /\ sent[shmp[c]] < MaxLines /\ pc[c] = "fill" /\ pc' = [pc EXCEPT ![c] = "post"]
          /\ sent' = [sent EXCEPT ![shmp[c]] = @ + 1]
          /\ data' = [data EXCEPT ![shmp[c]] = sent[shmp[c]] + 1]
          /\ UNCHANGED <<read, write, shmp, inits, printed>>
      BY <1>10, <2>2 DEF CFill, Goto
    <3>2. CASE shmp[c] = o
      BY <1>p, <3>1, <3>2 DEF PermType, LineType, Filled, Inside
    <3>3. CASE shmp[c] # o
      BY <1>p, <3>1, <3>3 DEF PermType, LineType, Quiet, Free, Full
    <3>4. QED
      BY <3>2, <3>3
  <2>3. QED
    BY <2>1, <2>2
<1>11. ASSUME NEW c \in Client, CPost(c) PROVE Quiet(o)
  <2>1. CASE shmp[c] = o
    BY <1>p, <1>11, <2>1 DEF PermType, CPost, Goto, Quiet, Free, Full
  <2>2. CASE shmp[c] # o
    BY <1>p, <1>11, <2>2 DEF PermType, CPost, Goto, Quiet, Free, Full
  <2>3. QED
    BY <2>1, <2>2
<1>12. ASSUME NEW p \in Proc, Wake(p) \/ Kill(p) \/ Rerun(p) PROVE Quiet(o)
  <2>1. CASE Wake(p)
    BY <1>1, <2>1 DEF Wake
  <2>2. CASE Kill(p)
    BY <1>3, <2>2 DEF Kill
  <2>3. CASE Rerun(p)
    BY <1>3, <2>3 DEF Rerun, Goto
  <2>4. QED
    BY <1>12, <2>1, <2>2, <2>3
<1>13. CASE ShmOpen \/ Ftruncate \/ Unlink \/ UNCHANGED vars
  BY <1>1, <1>13 DEF ShmOpen, Ftruncate, Unlink, vars
<1>14. ASSUME NEW s \in Server, SOpen(s) PROVE Quiet(o)
  BY <1>2, <1>14, <1>p DEF SOpen
<1>15. ASSUME NEW c \in Client, COpen(c) PROVE Quiet(o)
  BY <1>2, <1>15, <1>p DEF COpen
<1>16. QED
  BY <1>4, <1>5, <1>6, <1>7, <1>8, <1>9, <1>10, <1>11, <1>12, <1>13, <1>14, <1>15
     DEF Next, ServerStep, ClientStep

LEMMA OneStep ==
  ASSUME PermInv, LineType, NEW o \in Object, inits[o] <= 1 => One(o), inits'[o] <= 1,
         Quiet(o) \/ Renewed(o) \/ Filled(o) \/ Printed(o)
  PROVE  One(o)'
<1>t. /\ inits[o] \in Nat /\ sent[o] \in 0..MaxLines /\ printed[o] \in Seq(0..MaxLines)
      /\ Len(printed[o]) \in Nat /\ pc \in [Proc -> {"open", "initR", "initW", "wait",
                                         "fill", "print", "post", "ended"}]
  BY DEF PermInv, PermType, LineType
<1>1. CASE Quiet(o)
  BY <1>1 DEF Quiet, One
<1>2. CASE Renewed(o)
  <2>1. inits[o] = 0
    BY <1>t, <1>2 DEF Renewed
  <2>2. read[o] = 0 /\ Inside(o) = {} /\ sent[o] = 0 /\ printed[o] = <<>>
    BY <2>1, Unused DEF One
  <2>3. ~Full(o)'
    BY <1>2, <2>2 DEF Renewed, Full, Inside
  <2>4. inits'[o] = 1 /\ sent'[o] = 0 /\ printed'[o] = <<>>
    BY <1>2, <2>1, <2>2 DEF Renewed
  <2>5. QED
    BY <2>3, <2>4 DEF One
<1>3. CASE Filled(o)
  <2>1. PICK c \in Client :
          /\ c \in Inside(o) /\ pc[c] = "fill" /\ pc' = [pc EXCEPT ![c] = "post"] /\ shmp' = shmp
          /\ sent[o] < MaxLines /\ sent'[o] = sent[o] + 1 /\ data'[o] = sent[o] + 1
          /\ UNCHANGED <<printed[o], inits[o], read[o], write[o]>>
    BY <1>3 DEF Filled
  <2>2. read[o] = 0 /\ write[o] = 0 /\ inits[o] = 1 /\ Inside(o) = {c}
    BY <2>1, Alone
  <2>3. Len(printed[o]) = sent[o]
    BY <2>1, <2>2 DEF One, Free, Inside
  <2>4. ~Free(o)'
    <3>1. c \in Proc /\ c \notin Server
      BY ShmAssumption DEF Proc
    <3>2. \A p \in Proc : shmp'[p] = o /\ pc'[p] \in {"fill", "post"} => p = c
      BY <1>t, <2>1, <2>2 DEF Inside
    <3>3. pc'[c] = "post" /\ write'[o] = 0
      BY <1>t, <2>1, <2>2, <3>1
    <3>4. QED
      BY <3>1, <3>2, <3>3 DEF Free
  <2>5. QED
    BY <1>t, <2>1, <2>2, <2>3, <2>4 DEF One
<1>4. CASE Printed(o)
  <2>1. PICK s \in Server :
          /\ s \in Inside(o) /\ pc[s] = "print" /\ pc' = [pc EXCEPT ![s] = "post"] /\ shmp' = shmp
          /\ printed'[o] = Append(printed[o], data[o])
          /\ UNCHANGED <<sent[o], data[o], inits[o], read[o], write[o]>>
    BY <1>4 DEF Printed
  <2>2. read[o] = 0 /\ write[o] = 0 /\ inits[o] = 1 /\ Inside(o) = {s}
    BY <2>1, Alone
  <2>3. Len(printed[o]) + 1 = sent[o]
    BY <2>1, <2>2 DEF One, Full, Inside
  <2>4. ~Full(o)'
    <3>1. s \in Proc /\ s \notin Client
      BY ShmAssumption DEF Proc
    <3>2. \A p \in Proc : shmp'[p] = o /\ pc'[p] \in {"print", "post"} => p = s
      BY <1>t, <2>1, <2>2 DEF Inside
    <3>3. pc'[s] = "post" /\ read'[o] = 0
      BY <1>t, <2>1, <2>2, <3>1
    <3>4. QED
      BY <3>1, <3>2, <3>3 DEF Full
  <2>5. Len(printed'[o]) = Len(printed[o]) + 1
    BY <1>t, <2>1 DEF LineType
  <2>6. QED
    BY <2>1, <2>2, <2>3, <2>4, <2>5 DEF One
<1>5. QED
  BY <1>1, <1>2, <1>3, <1>4

LEMMA SlotInductive == Spec => []SlotInv
<1>1. Init => SlotInv
  <2> SUFFICES ASSUME Init PROVE SlotInv
    OBVIOUS
  <2>1. PermInv
    BY PermInit
  <2>2. LineType
    BY ShmAssumption DEF Init, LineType, Zero
  <2>3. ASSUME NEW o \in Object PROVE One(o)
    <3>1. /\ sent[o] = 0 /\ printed[o] = <<>> /\ read[o] = 0
          /\ \A p \in Proc : pc[p] = "open"
      BY DEF Init, Zero
    <3>2. QED
      BY <3>1 DEF One, Full
  <2>4. QED
    BY <2>1, <2>2, <2>3 DEF SlotInv
<1>2. SlotInv /\ [Next]_vars => SlotInv'
  <2> SUFFICES ASSUME SlotInv, [Next]_vars PROVE SlotInv'
    OBVIOUS
  <2>1. PermInv' /\ LineType'
    BY PermTypeStep, PermitStep, LineTypeStep DEF SlotInv, PermInv
  <2>2. ASSUME NEW o \in Object, inits'[o] <= 1 PROVE One(o)'
    <3>1. Quiet(o) \/ Renewed(o) \/ Filled(o) \/ Printed(o)
      BY ObjectStep DEF SlotInv, PermInv
    <3>2. QED
      BY <2>2, <3>1, OneStep DEF SlotInv
  <2>3. QED
    BY <2>1, <2>2 DEF SlotInv
<1>3. QED
  BY <1>1, <1>2, PTL DEF Spec

\* The demo implements the one-slot buffer of OneSlot on each object, for any
\* clients, until the semaphores of the object are initialised again.
THEOREM Implements == Spec => Transfer
<1>1. Init => \A o \in Object : Slot(o)!Init
  BY DEF Init, Zero, Slot!Init
<1>2. ASSUME SlotInv, [Next]_vars, NEW o \in Object, inits'[o] <= 1
      PROVE  Slot(o)!Next \/ UNCHANGED <<sent[o], printed[o]>>
  <2>1. Quiet(o) \/ Renewed(o) \/ Filled(o) \/ Printed(o)
    BY <1>2, ObjectStep DEF SlotInv, PermInv
  <2>2. CASE Quiet(o) \/ Renewed(o)
    BY <2>2 DEF Quiet, Renewed
  <2>3. CASE Filled(o)
    <3>1. PICK c \in Client : c \in Inside(o) /\ pc[c] = "fill" /\ inits'[o] = inits[o]
                              /\ sent[o] < MaxLines /\ sent'[o] = sent[o] + 1
                              /\ printed'[o] = printed[o]
      BY <2>3 DEF Filled
    <3>2. Free(o) /\ inits[o] <= 1
      BY <1>2, <3>1 DEF Free, Inside
    <3>3. sent[o] = Len(printed[o])
      BY <1>2, <3>2 DEF SlotInv, One
    <3>4. Len([i \in 1..MaxLines |-> i]) = MaxLines
      BY ShmAssumption
    <3>5. QED
      BY <3>1, <3>3, <3>4 DEF Slot!Next, Slot!Put
  <2>4. CASE Printed(o)
    <3>1. PICK s \in Server : s \in Inside(o) /\ pc[s] = "print" /\ inits'[o] = inits[o]
                              /\ printed'[o] = Append(printed[o], data[o])
                              /\ sent'[o] = sent[o]
      BY <2>4 DEF Printed
    <3>2. Full(o) /\ inits[o] <= 1
      BY <1>2, <3>1 DEF Full, Inside
    <3>3. Len(printed[o]) + 1 = sent[o] /\ data[o] = sent[o]
      BY <1>2, <3>2 DEF SlotInv, One
    <3>4. sent[o] \in 1..MaxLines /\ Len(printed[o]) \in Nat
      BY <1>2, <3>3 DEF SlotInv, LineType
    <3>5. [i \in 1..MaxLines |-> i][Len(printed[o]) + 1] = data[o]
      BY <3>3, <3>4
    <3>6. Len(printed[o]) < sent[o]
      BY <3>3, <3>4
    <3>7. QED
      BY <3>1, <3>5, <3>6 DEF Slot!Next, Slot!Take
  <2>5. QED
    BY <2>1, <2>2, <2>3, <2>4
<1>3. SlotInv /\ [Next]_vars =>
        [\A o \in Object : inits'[o] <= 1 => Slot(o)!Next
                              \/ UNCHANGED <<sent[o], printed[o]>>]_<<sent, printed>>
  BY <1>2
<1>4. QED
  BY <1>1, <1>3, SlotInductive, PTL DEF Spec, Transfer

-----------------------------------------------------------------------------
(* Types, and how often the semaphores of an object are initialised.       *)

\* The servers that have yet to initialise the semaphores of o.
Owing(o) == {s \in Server : pc[s] \in {"initR", "initW"} /\ shmp[s] = o}

\* A start of a server is one initialisation, of one object, at most.
StartInv ==
  /\ sizing \in 0..MaxObjects /\ sized \subseteq Object
  /\ forgotten \subseteq Proc /\ starts \in 0..MaxStarts
  /\ \A o \in Object : inits[o] + Cardinality(Owing(o)) <= starts

LEMMA OwingFinite ==
  ASSUME NEW o
  PROVE  /\ IsFiniteSet(Owing(o)) /\ Cardinality(Owing(o)) \in Nat
         /\ IsFiniteSet(Owing(o)') /\ Cardinality(Owing(o)') \in Nat
<1>1. IsFiniteSet(Server) /\ Owing(o) \subseteq Server /\ Owing(o)' \subseteq Server
  BY ShmAssumption DEF Owing
<1>2. QED
  BY <1>1, FS_Subset, FS_CardinalityType

LEMMA OwingStep ==
  ASSUME PermType, StartInv, [Next]_vars, NEW o \in Object
  PROVE  (inits[o] + Cardinality(Owing(o)) <= starts)'
<1>0. /\ inits[o] \in Nat /\ starts \in Nat /\ inits[o] + Cardinality(Owing(o)) <= starts
      /\ IsFiniteSet(Owing(o)) /\ Cardinality(Owing(o)) \in Nat
      /\ IsFiniteSet(Owing(o)') /\ Cardinality(Owing(o)') \in Nat
  BY OwingFinite, ShmAssumption DEF PermType, StartInv
<1>1. ASSUME Owing(o)' \subseteq Owing(o), inits'[o] = inits[o], starts' = starts
      PROVE  inits'[o] + Cardinality(Owing(o)') <= starts'
  <2>1. Cardinality(Owing(o)') <= Cardinality(Owing(o))
    BY <1>0, <1>1, FS_Subset
  <2>2. QED
    BY <1>0, <1>1, <2>1
<1>2. ASSUME NEW s \in Server, SOpen(s) PROVE inits'[o] + Cardinality(Owing(o)') <= starts'
  <2>1. inits' = inits /\ starts' = starts + 1 /\ Owing(o)' \subseteq Owing(o) \cup {s}
    BY <1>2 DEF SOpen, Attach, Goto, Owing, PermType, Proc
  <2>2. /\ IsFiniteSet(Owing(o) \cup {s})
        /\ Cardinality(Owing(o) \cup {s}) \in {Cardinality(Owing(o)), Cardinality(Owing(o)) + 1}
    BY <1>0, FS_AddElement
  <2>3. Cardinality(Owing(o)') <= Cardinality(Owing(o) \cup {s})
    BY <2>1, <2>2, FS_Subset
  <2>4. QED
    BY <1>0, <2>1, <2>2, <2>3
<1>3. ASSUME NEW s \in Server, SInitWrite(s) PROVE inits'[o] + Cardinality(Owing(o)') <= starts'
  <2>1. /\ pc[s] = "initW" /\ pc' = [pc EXCEPT ![s] = "wait"] /\ shmp' = shmp /\ starts' = starts
        /\ inits' = [inits EXCEPT ![shmp[s]] = inits[shmp[s]] + 1] /\ s \in Proc
    BY <1>3 DEF SInitWrite, Goto, Proc
  <2>2. CASE shmp[s] # o
    <3>1. inits'[o] = inits[o] /\ Owing(o)' \subseteq Owing(o)
      BY <2>1, <2>2 DEF PermType, Owing, Proc
    <3>2. QED
      BY <1>1, <2>1, <3>1
  <2>3. CASE shmp[s] = o
    <3>1. inits'[o] = inits[o] + 1
      BY <2>1, <2>3 DEF PermType
    <3>2. Owing(o)' = Owing(o) \ {s} /\ s \in Owing(o)
      BY <2>1, <2>3 DEF PermType, Owing, Proc
    <3>3. Cardinality(Owing(o)') = Cardinality(Owing(o)) - 1
      BY <1>0, <3>2, FS_RemoveElement
    <3>4. QED
      BY <1>0, <2>1, <3>1, <3>3
  <2>4. QED
    BY <2>2, <2>3
<1>4. CASE ShmOpen \/ Ftruncate \/ Unlink \/ UNCHANGED vars
  BY <1>1, <1>4 DEF ShmOpen, Ftruncate, Unlink, Owing, vars
<1>5. ASSUME NEW p \in Proc, NEW at, NEW next, next \notin {"initR", "initW"} \/ at = "initR",
             Goto(p, at, next), shmp' = shmp, inits' = inits, starts' = starts
      PROVE  inits'[o] + Cardinality(Owing(o)') <= starts'
  <2>1. Owing(o)' \subseteq Owing(o)
    BY <1>5 DEF Goto, Owing, PermType, Proc
  <2>2. QED
    BY <1>1, <1>5, <2>1
<1>6. ASSUME NEW s \in Server, SInitRead(s) \/ SWait(s) \/ SPrint(s) \/ SPost(s)
      PROVE  inits'[o] + Cardinality(Owing(o)') <= starts'
  BY <1>5, <1>6 DEF SInitRead, Bus, SWait, SPrint, SPost, Proc
<1>7. ASSUME NEW c \in Client, CWait(c) \/ CFill(c) \/ CPost(c)
      PROVE  inits'[o] + Cardinality(Owing(o)') <= starts'
  BY <1>5, <1>7 DEF CWait, Bus, CFill, CPost, Proc
<1>8. ASSUME NEW c \in Client, COpen(c) PROVE inits'[o] + Cardinality(Owing(o)') <= starts'
  <2>1. inits' = inits /\ starts' = starts /\ Owing(o)' \subseteq Owing(o)
    BY <1>8 DEF COpen, Attach, Goto, Owing, PermType, Proc
  <2>2. QED
    BY <1>1, <2>1
<1>9. ASSUME NEW p \in Proc, Wake(p) \/ Kill(p) \/ Rerun(p)
      PROVE  inits'[o] + Cardinality(Owing(o)') <= starts'
  <2>1. inits' = inits /\ starts' = starts /\ Owing(o)' \subseteq Owing(o)
    BY <1>9 DEF Wake, Kill, Rerun, Goto, Owing, PermType, Proc
  <2>2. QED
    BY <1>1, <2>1
<1>10. QED
  BY <1>2, <1>3, <1>4, <1>6, <1>7, <1>8, <1>9 DEF Next, ServerStep, ClientStep

LEMMA StartStep == PermType /\ StartInv /\ [Next]_vars => StartInv'
<1> SUFFICES ASSUME PermType, StartInv, [Next]_vars PROVE StartInv'
  OBVIOUS
<1>0. Server \subseteq Proc /\ Client \subseteq Proc
  BY DEF Proc
<1>1. sizing' \in 0..MaxObjects /\ sized' \subseteq Object
  <2>1. CASE ShmOpen
    BY <2>1, ShmAssumption DEF ShmOpen, PermType, StartInv
  <2>2. CASE Ftruncate
    BY <2>2, ShmAssumption DEF Ftruncate, StartInv, Object
  <2>3. UNCHANGED vars \/ Unlink => UNCHANGED <<sizing, sized>>
    BY DEF vars, names, Unlink
  <2>4. \A s \in Server : SOpen(s) \/ ServerStep(s) => UNCHANGED <<sizing, sized>>
    BY DEF SOpen, Attach, ServerStep, SInitRead, Bus, SInitWrite, SWait, SPrint, SPost, names
  <2>5. \A c \in Client : ClientStep(c) => UNCHANGED <<sizing, sized>>
    BY DEF ClientStep, COpen, Attach, CWait, Bus, CFill, CPost, names
  <2>6. \A p \in Proc : Wake(p) \/ Kill(p) \/ Rerun(p) => UNCHANGED <<sizing, sized>>
    BY DEF Wake, Kill, Rerun, names
  <2>7. QED
    BY <2>1, <2>2, <2>3, <2>4, <2>5, <2>6 DEF Next, StartInv
<1>2. forgotten' \subseteq Proc /\ starts' \in 0..MaxStarts
  <2>1. UNCHANGED vars \/ ShmOpen \/ Ftruncate \/ Unlink => UNCHANGED <<forgotten, starts>>
    BY DEF vars, ShmOpen, Ftruncate, Unlink
  <2>2. ASSUME NEW s \in Server, SOpen(s) PROVE forgotten' = forgotten /\ starts' \in 0..MaxStarts
    BY <2>2, ShmAssumption DEF SOpen, Attach, StartInv
  <2>3. ASSUME NEW s \in Server, ServerStep(s) PROVE forgotten' \subseteq Proc /\ starts' = starts
    <3>1. CASE SInitRead(s) \/ SInitWrite(s)
      BY <1>0, <3>1 DEF SInitRead, SInitWrite, Bus, StartInv
    <3>2. CASE SWait(s) \/ SPrint(s) \/ SPost(s)
      BY <3>2 DEF SWait, SPrint, SPost, StartInv
    <3>3. QED
      BY <2>3, <3>1, <3>2 DEF ServerStep
  <2>4. \A c \in Client : ClientStep(c) => UNCHANGED <<forgotten, starts>>
    BY DEF ClientStep, COpen, Attach, CWait, Bus, CFill, CPost
  <2>5. \A p \in Proc : Wake(p) \/ Kill(p) \/ Rerun(p) => forgotten' \subseteq forgotten /\ starts' = starts
    BY DEF Wake, Kill, Rerun
  <2>6. QED
    BY <2>1, <2>2, <2>3, <2>4, <2>5 DEF Next, StartInv
<1>3. QED
  BY <1>1, <1>2, OwingStep DEF StartInv

\* For any clients and servers: the types, and that the semaphores of an object
\* are initialised no more often than servers are started.
THEOREM ShmTypes == Spec => []TypeOK
<1>1. Init => StartInv
  <2> SUFFICES ASSUME Init PROVE StartInv
    OBVIOUS
  <2>1. ASSUME NEW o \in Object PROVE inits[o] + Cardinality(Owing(o)) <= starts
    <3>1. inits[o] = 0 /\ starts = 0 /\ Owing(o) = {}
      BY DEF Init, Zero, Owing, Proc
    <3>2. QED
      BY <3>1, FS_EmptySet
  <2>2. QED
    BY <2>1, ShmAssumption DEF Init, StartInv
<1>2. SlotInv /\ StartInv => TypeOK
  <2> SUFFICES ASSUME PermType, LineType, StartInv PROVE TypeOK
    BY DEF SlotInv, PermInv
  <2>1. ASSUME NEW o \in Object PROVE inits[o] \in 0..MaxStarts
    <3>1. Cardinality(Owing(o)) \in Nat /\ inits[o] \in Nat /\ starts \in 0..MaxStarts
      BY OwingFinite DEF PermType, StartInv
    <3>2. inits[o] + Cardinality(Owing(o)) <= starts
      BY DEF StartInv
    <3>3. QED
      BY <3>1, <3>2, ShmAssumption
  <2>2. QED
    BY <2>1 DEF PermType, LineType, StartInv, TypeOK
<1>3. SlotInv => PermType
  BY DEF SlotInv, PermInv
<1>4. QED
  BY <1>1, <1>2, <1>3, SlotInductive, StartStep, PTL DEF Spec
=============================================================================
