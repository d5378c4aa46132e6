--------------------------- MODULE Egress_proofs ----------------------------
(* Proofs about Egress, for any number of mbufs and miovs: the reference     *)
(* counts that the two threads share without a lock are exact, and with them *)
(* no buffer is overwritten while in use, freed twice, or lost.              *)
EXTENDS Egress, FiniteSetTheorems, TLAPS

-----------------------------------------------------------------------------
\* The inductive invariant, in parts.

\* Every miov is in one place, and the free ones refer to nothing.
Places ==
    /\ iovfreeq \cap outq = {}
    /\ m \notin iovfreeq /\ m \notin outq
    /\ w \notin iovfreeq /\ w \notin outq
    /\ m = w => m = NULL
    /\ \A i \in Miov : i \in iovfreeq \/ i \in outq \/ i = m \/ i = w
    /\ \A i \in iovfreeq : refs[i] = {}

\* Nobody refers to the receive buffer before add_to_inner_packet takes it apart,
\* and no inner packet gets two pieces of it.
Receiving ==
    /\ rpc \in {"store", "recv", "reset", "free"} => Users(tbuf) = {}
    /\ rpc = "add" /\ m # NULL => tbuf \notin refs[m]
    /\ rpc = "deref" => refcnt[tbuf] > 0

\* A buffer whose count was never set is referred to by nobody; it is still on
\* freeq, or is the receive buffer, or is the one that was lost at the start.
Uninitialised ==
    /\ \A b \in junk : Users(b) = {} /\ b # rfree /\ b # wfree
    /\ tbuf \in junk => rpc \in {"deref", "pop", "store"}
    /\ rpc = "start" => junk = Mbuf /\ freeq = Mbuf
    /\ rpc \in {"deref", "pop"} /\ tbuf \in junk => junk \subseteq freeq \cup {tbuf}
    /\ \A x, y \in junk : x \in freeq \/ x = tbuf \/ y \in freeq \/ y = tbuf \/ x = y

\* The first part of NoLeak.
Accounted ==
    \A b \in Mbuf \ junk :
        \/ b \in freeq \/ b = rfree \/ b = wfree
        \/ Users(b) # {}
        \/ b = tbuf /\ rpc \notin {"start", "pop"}

IInv == /\ TypeOK /\ Places /\ Receiving /\ Uninitialised
        /\ FreedOnce /\ RefcntExact /\ Accounted

-----------------------------------------------------------------------------
\* Counting the inner packets that refer to a buffer.

LEMMA UsersCounted ==
    ASSUME NEW b
    PROVE  /\ Users(b) \subseteq Miov
           /\ IsFiniteSet(Users(b))
           /\ Cardinality(Users(b)) \in Nat
           /\ Cardinality(Users(b)) = 0 <=> Users(b) = {}
<1>1. Users(b) \in SUBSET Miov
  BY DEF Users
<1>2. IsFiniteSet(Users(b))
  BY <1>1, PoolAssumption, FS_Subset
<1> QED
  BY <1>1, <1>2, FS_CardinalityType, FS_EmptySet

LEMMA UsersKept ==
    ASSUME refs' = refs
    PROVE  \A b : Users(b)' = Users(b)
BY DEF Users

\* miov_addmbuf: one more.
LEMMA UserAdded ==
    ASSUME TypeOK, NEW i \in Miov, NEW b \in Mbuf, b \notin refs[i],
           refs' = [refs EXCEPT ![i] = @ \cup {b}]
    PROVE  /\ Users(b)' # {}
           /\ Cardinality(Users(b)') = Cardinality(Users(b)) + 1
           /\ \A c : c # b => Users(c)' = Users(c)
<1>1. Users(b)' = Users(b) \cup {i} /\ i \notin Users(b)
  BY DEF Users, TypeOK
<1>2. \A c : c # b => Users(c)' = Users(c)
  BY DEF Users, TypeOK
<1> QED
  BY <1>1, <1>2, UsersCounted, FS_AddElement

\* mbuf_deref: one less, and none if there was only one.
LEMMA UserDropped ==
    ASSUME TypeOK, NEW i \in Miov, NEW b \in refs[i],
           refs' = [refs EXCEPT ![i] = @ \ {b}]
    PROVE  /\ b \in Mbuf
           /\ Users(b) # {}
           /\ Cardinality(Users(b)) > 0
           /\ Cardinality(Users(b)') = Cardinality(Users(b)) - 1
           /\ Users(b)' = {} <=> Cardinality(Users(b)) = 1
           /\ \A c : c # b => Users(c)' = Users(c)
<1>1. Users(b)' = Users(b) \ {i} /\ i \in Users(b) /\ b \in Mbuf
  BY DEF Users, TypeOK
<1>2. \A c : c # b => Users(c)' = Users(c)
  BY DEF Users, TypeOK
<1>3. /\ IsFiniteSet(Users(b)) /\ Cardinality(Users(b)) \in Nat
      /\ Cardinality(Users(b)) = 0 <=> Users(b) = {}
  BY UsersCounted
<1>4. /\ IsFiniteSet(Users(b)')
      /\ Cardinality(Users(b)') = Cardinality(Users(b)) - 1
  BY <1>1, <1>3, FS_RemoveElement
<1>5. Cardinality(Users(b)') = 0 <=> Users(b)' = {}
  BY <1>4, FS_EmptySet
<1> QED
  BY <1>1, <1>2, <1>3, <1>4, <1>5

-----------------------------------------------------------------------------
\* The steps of the reader and of the writer keep the invariant.

LEMMA InitInv == Init => IInv
<1> SUFFICES ASSUME Init PROVE IInv
  OBVIOUS
<1> USE PoolAssumption, BoundAssumption, RefcntAssumption, NullAssumption DEF Init
<1>1. TypeOK
  <2>1. refcnt \in [Mbuf -> Nat]
    OBVIOUS
  <2>2. refs \in [Miov -> SUBSET Mbuf]
    OBVIOUS
  <2> QED
    BY <2>1, <2>2 DEF TypeOK
<1>2. \A b : Users(b) = {}
  BY DEF Users
<1>3. Places
  BY DEF Places
<1>4. Receiving /\ Uninitialised /\ Accounted
  BY <1>2 DEF Receiving, Uninitialised, Accounted
<1>5. FreedOnce /\ RefcntExact
  BY <1>2 DEF FreedOnce, RefcntExact
<1> QED
  BY <1>1, <1>3, <1>4, <1>5 DEF IInv

LEMMA RStartInv == IInv /\ RStart => IInv'
<1> SUFFICES ASSUME IInv, RStart PROVE IInv'
  OBVIOUS
<1> USE NullAssumption, BoundAssumption DEF IInv
<1>1. PICK b \in freeq : /\ freeq' = freeq \ {b} /\ tbuf' = b
                         /\ refcnt' = [refcnt EXCEPT ![b] = @ + 1]
  BY DEF RStart
<1>2. /\ rpc = "start" /\ rpc' = "deref" /\ b \in Mbuf /\ b \in junk
      /\ UNCHANGED <<refs, iovfreeq, outq, m, rfree, wpc, w, wfree, tlen, junk>>
      /\ \A c : Users(c)' = Users(c)
  BY <1>1, UsersKept DEF RStart, TypeOK, Uninitialised
<1>3. TypeOK'
  BY <1>1, <1>2 DEF TypeOK
<1>4. Places'
  BY <1>1, <1>2 DEF Places, TypeOK
<1>5. Receiving'
  BY <1>1, <1>2 DEF Receiving, TypeOK, Places
<1>6. Uninitialised'
  BY <1>1, <1>2 DEF Uninitialised, TypeOK
<1>7. FreedOnce'
  BY <1>1, <1>2 DEF FreedOnce, TypeOK, Receiving
<1>8. RefcntExact'
  BY <1>1, <1>2 DEF RefcntExact, ReaderHolds, TypeOK
<1>9. Accounted'
  BY <1>1, <1>2 DEF Accounted, TypeOK
<1> QED
  BY <1>3, <1>4, <1>5, <1>6, <1>7, <1>8, <1>9

\* If the reader's reference was the only one, the count says so.
LEMMA RDerefInv == IInv /\ RDeref => IInv'
<1> SUFFICES ASSUME IInv, RDeref PROVE IInv'
  OBVIOUS
<1> USE NullAssumption, BoundAssumption DEF IInv
<1>1. /\ rpc = "deref" /\ tbuf \in Mbuf /\ refcnt[tbuf] \in Nat /\ refcnt[tbuf] > 0
      /\ refcnt' = [refcnt EXCEPT ![tbuf] = @ - 1]
      /\ rpc' = IF refcnt[tbuf] = 1 THEN "store" ELSE "pop"
      /\ UNCHANGED <<refs, freeq, iovfreeq, outq, tbuf, m, rfree, wpc, w, wfree, tlen, junk>>
      /\ \A c : Users(c)' = Users(c)
  BY UsersKept DEF RDeref, TypeOK, Receiving
<1>2. /\ refcnt[tbuf] = 1 => Users(tbuf) = {}
      /\ refcnt[tbuf] # 1 => Users(tbuf) # {} \/ tbuf \in junk
  BY <1>1, UsersCounted DEF RefcntExact, ReaderHolds, Uninitialised
<1>3. TypeOK'
  BY <1>1, <1>2 DEF TypeOK
<1>4. Places'
  BY <1>1, <1>2 DEF Places, TypeOK
<1>5. Receiving'
  BY <1>1, <1>2 DEF Receiving, TypeOK, Places
<1>6. Uninitialised'
  BY <1>1, <1>2 DEF Uninitialised, TypeOK
<1>7. FreedOnce'
  BY <1>1, <1>2 DEF FreedOnce, TypeOK, Receiving
<1>8. RefcntExact'
  BY <1>1, UsersCounted DEF RefcntExact, ReaderHolds, TypeOK
<1>9. Accounted'
  BY <1>1, <1>2 DEF Accounted, TypeOK
<1> QED
  BY <1>3, <1>4, <1>5, <1>6, <1>7, <1>8, <1>9

LEMMA RPopInv == IInv /\ RPop => IInv'
<1> SUFFICES ASSUME IInv, RPop PROVE IInv'
  OBVIOUS
<1> USE NullAssumption, BoundAssumption DEF IInv
<1>1. PICK b \in freeq : freeq' = freeq \ {b} /\ tbuf' = b
  BY DEF RPop
<1>2. /\ rpc = "pop" /\ rpc' = "store" /\ b \in Mbuf
      /\ UNCHANGED <<refcnt, refs, iovfreeq, outq, m, rfree, wpc, w, wfree, tlen, junk>>
      /\ \A c : Users(c)' = Users(c)
      /\ Users(b) = {} /\ b # rfree /\ b # wfree
  BY <1>1, UsersKept DEF RPop, TypeOK, FreedOnce
<1>3. TypeOK'
  BY <1>1, <1>2 DEF TypeOK
<1>4. Places'
  BY <1>1, <1>2 DEF Places, TypeOK
<1>5. Receiving'
  BY <1>1, <1>2 DEF Receiving, TypeOK, Places
<1>6. Uninitialised'
  BY <1>1, <1>2 DEF Uninitialised, TypeOK
<1>7. FreedOnce'
  BY <1>1, <1>2 DEF FreedOnce, TypeOK, Receiving
<1>8. RefcntExact'
  BY <1>1, <1>2 DEF RefcntExact, ReaderHolds, TypeOK
<1>9. Accounted'
  BY <1>1, <1>2 DEF Accounted, TypeOK
<1> QED
  BY <1>3, <1>4, <1>5, <1>6, <1>7, <1>8, <1>9

LEMMA RStoreInv == IInv /\ RStore => IInv'
<1> SUFFICES ASSUME IInv, RStore PROVE IInv'
  OBVIOUS
<1> USE NullAssumption, BoundAssumption DEF IInv
<1>1. /\ rpc = "store" /\ rpc' = "recv" /\ tbuf \in Mbuf /\ Users(tbuf) = {}
      /\ refcnt' = [refcnt EXCEPT ![tbuf] = 1]
      /\ junk' = junk \ {tbuf}
      /\ UNCHANGED <<refs, freeq, iovfreeq, outq, tbuf, m, rfree, wpc, w, wfree, tlen>>
  BY DEF RStore, TypeOK, Receiving
<1>2. \A c : Users(c)' = Users(c)
  BY <1>1, UsersKept
<1>3. TypeOK'
  BY <1>1, <1>2 DEF TypeOK
<1>4. Places'
  BY <1>1, <1>2 DEF Places, TypeOK
<1>5. Receiving'
  BY <1>1, <1>2 DEF Receiving, TypeOK, Places
<1>6. Uninitialised'
  BY <1>1, <1>2 DEF Uninitialised, TypeOK
<1>7. FreedOnce'
  BY <1>1, <1>2 DEF FreedOnce, TypeOK, Receiving
<1>8. RefcntExact'
  BY <1>1, <1>2, UsersCounted DEF RefcntExact, ReaderHolds, TypeOK
<1>9. Accounted'
  BY <1>1, <1>2 DEF Accounted, TypeOK
<1> QED
  BY <1>3, <1>4, <1>5, <1>6, <1>7, <1>8, <1>9

LEMMA RRecvInv == IInv /\ RRecv => IInv'
<1> SUFFICES ASSUME IInv, RRecv PROVE IInv'
  OBVIOUS
<1> USE NullAssumption, BoundAssumption DEF IInv
<1>1. /\ rpc = "recv" /\ rpc' \in {"deref", "add", "reset"} /\ tbuf \in Mbuf
      /\ rpc' = "reset" => m # NULL
      /\ tlen' \in 0 .. MaxInner /\ (rpc' # "deref" => tlen' > 0)
      /\ Users(tbuf) = {} /\ tbuf \notin junk
      /\ UNCHANGED <<refcnt, refs, freeq, iovfreeq, outq, tbuf, m, rfree, wpc, w, wfree, junk>>
  BY DEF RRecv, TypeOK, Receiving, Uninitialised
<1>a. m # NULL => tbuf \notin refs[m]
  BY <1>1 DEF Users, TypeOK
<1>2. /\ \A c : Users(c)' = Users(c)
      /\ refcnt[tbuf] = 1
      /\ m # NULL => tbuf \notin refs[m]
  BY <1>1, <1>a, UsersKept, UsersCounted DEF RefcntExact, ReaderHolds
<1>3. TypeOK'
  BY <1>1, <1>2 DEF TypeOK
<1>4. Places'
  BY <1>1, <1>2 DEF Places, TypeOK
<1>5. Receiving'
  BY <1>1, <1>2 DEF Receiving, TypeOK, Places
<1>6. Uninitialised'
  BY <1>1, <1>2 DEF Uninitialised, TypeOK
<1>7. FreedOnce'
  BY <1>1, <1>2 DEF FreedOnce, TypeOK, Receiving
<1>8. RefcntExact'
  BY <1>1, <1>2 DEF RefcntExact, ReaderHolds, TypeOK
<1>9. Accounted'
  BY <1>1, <1>2 DEF Accounted, TypeOK
<1> QED
  BY <1>3, <1>4, <1>5, <1>6, <1>7, <1>8, <1>9

\* miov_reset meets only buffers that it has a reference to.
LEMMA RResetInv == IInv /\ RReset => IInv'
<1> SUFFICES ASSUME IInv, RReset PROVE IInv'
  OBVIOUS
<1> USE NullAssumption, BoundAssumption DEF IInv
<1>1. PICK b \in refs[m] :
        /\ refcnt' = [refcnt EXCEPT ![b] = @ - 1]
        /\ refs' = [refs EXCEPT ![m] = @ \ {b}]
        /\ IF refcnt[b] = 1 THEN rfree' = b /\ rpc' = "free" ELSE UNCHANGED <<rfree, rpc>>
  BY DEF RReset
<1>2. /\ rpc = "reset" /\ m \in Miov /\ b \in Mbuf /\ rfree = NULL
      /\ Users(tbuf) = {} /\ tbuf \in Mbuf
      /\ UNCHANGED <<freeq, iovfreeq, outq, tbuf, m, wpc, w, wfree, tlen, junk>>
  BY <1>1 DEF RReset, TypeOK, Receiving
<1>a. /\ Users(b) # {} /\ Cardinality(Users(b)) \in Nat \ {0}
      /\ Cardinality(Users(b)') = Cardinality(Users(b)) - 1
      /\ Users(b)' = {} <=> Cardinality(Users(b)) = 1
      /\ \A c : c # b => Users(c)' = Users(c)
  BY <1>1, <1>2, UserDropped, UsersCounted
<1>b. /\ b # tbuf /\ b \notin junk /\ b \notin freeq /\ b # wfree
      /\ refcnt[b] = Cardinality(Users(b))
  BY <1>2, <1>a DEF Uninitialised, FreedOnce, RefcntExact, ReaderHolds, TypeOK
<1>3. TypeOK'
  BY <1>1, <1>2, <1>a, <1>b DEF TypeOK
<1>4. Places'
  BY <1>1, <1>2, <1>a, <1>b DEF Places, TypeOK
<1>5. Receiving'
  BY <1>1, <1>2, <1>a, <1>b DEF Receiving, TypeOK, Places
<1>6. Uninitialised'
  BY <1>1, <1>2, <1>a, <1>b DEF Uninitialised, TypeOK
<1>7. FreedOnce'
  BY <1>1, <1>2, <1>a, <1>b DEF FreedOnce, TypeOK, Receiving
<1>8. RefcntExact'
  BY <1>1, <1>2, <1>a, <1>b DEF RefcntExact, ReaderHolds, TypeOK
<1>9. Accounted'
  BY <1>1, <1>2, <1>a, <1>b DEF Accounted, TypeOK
<1> QED
  BY <1>3, <1>4, <1>5, <1>6, <1>7, <1>8, <1>9

LEMMA RFreeInv == IInv /\ RFree => IInv'
<1> SUFFICES ASSUME IInv, RFree PROVE IInv'
  OBVIOUS
<1> USE NullAssumption, BoundAssumption DEF IInv
<1>1. /\ rpc = "free" /\ rpc' = "reset" /\ rfree \in Mbuf /\ rfree' = NULL
      /\ freeq' = freeq \cup {rfree}
      /\ UNCHANGED <<refcnt, refs, iovfreeq, outq, tbuf, m, wpc, w, wfree, tlen, junk>>
  BY DEF RFree, TypeOK
<1>2. /\ \A c : Users(c)' = Users(c)
      /\ Users(rfree) = {} /\ rfree # wfree /\ rfree # tbuf /\ rfree \notin junk
  BY <1>1, UsersKept DEF FreedOnce, TypeOK, Uninitialised
<1>3. TypeOK'
  BY <1>1, <1>2 DEF TypeOK
<1>4. Places'
  BY <1>1, <1>2 DEF Places, TypeOK
<1>5. Receiving'
  BY <1>1, <1>2 DEF Receiving, TypeOK, Places
<1>6. Uninitialised'
  BY <1>1, <1>2 DEF Uninitialised, TypeOK
<1>7. FreedOnce'
  BY <1>1, <1>2 DEF FreedOnce, TypeOK, Receiving
<1>8. RefcntExact'
  BY <1>1, <1>2 DEF RefcntExact, ReaderHolds, TypeOK
<1>9. Accounted'
  BY <1>1, <1>2 DEF Accounted, TypeOK
<1> QED
  BY <1>3, <1>4, <1>5, <1>6, <1>7, <1>8, <1>9

LEMMA RResetDoneInv == IInv /\ RResetDone => IInv'
<1> SUFFICES ASSUME IInv, RResetDone PROVE IInv'
  OBVIOUS
<1> USE NullAssumption, BoundAssumption DEF IInv
<1>1. /\ rpc = "reset" /\ rpc' = "add" /\ refs[m] = {} /\ m \in Miov /\ tbuf \in Mbuf
      /\ UNCHANGED <<refcnt, refs, freeq, iovfreeq, outq, tbuf, m, rfree, wpc, w,
                     wfree, tlen, junk>>
  BY DEF RResetDone, TypeOK
<1>2. \A c : Users(c)' = Users(c)
  BY <1>1, UsersKept
<1>3. TypeOK'
  BY <1>1, <1>2 DEF TypeOK
<1>4. Places'
  BY <1>1, <1>2 DEF Places, TypeOK
<1>5. Receiving'
  BY <1>1, <1>2 DEF Receiving, TypeOK, Places
<1>6. Uninitialised'
  BY <1>1, <1>2 DEF Uninitialised, TypeOK
<1>7. FreedOnce'
  BY <1>1, <1>2 DEF FreedOnce, TypeOK, Receiving
<1>8. RefcntExact'
  BY <1>1, <1>2 DEF RefcntExact, ReaderHolds, TypeOK
<1>9. Accounted'
  BY <1>1, <1>2 DEF Accounted, TypeOK
<1> QED
  BY <1>3, <1>4, <1>5, <1>6, <1>7, <1>8, <1>9

\* A free miov refers to nothing.
LEMMA RAddPopInv == IInv /\ RAddPop => IInv'
<1> SUFFICES ASSUME IInv, RAddPop PROVE IInv'
  OBVIOUS
<1> USE NullAssumption, BoundAssumption DEF IInv
<1>1. PICK i \in iovfreeq : iovfreeq' = iovfreeq \ {i} /\ m' = i
  BY DEF RAddPop
<1>2. /\ rpc = "add" /\ m = NULL /\ i \in Miov /\ refs[i] = {} /\ tbuf \in Mbuf
      /\ UNCHANGED <<refcnt, refs, freeq, outq, rpc, tbuf, rfree, wpc, w, wfree, tlen, junk>>
      /\ \A c : Users(c)' = Users(c)
  BY <1>1, UsersKept DEF RAddPop, TypeOK, Places
<1>3. TypeOK'
  BY <1>1, <1>2 DEF TypeOK
<1>4. Places'
  BY <1>1, <1>2 DEF Places, TypeOK
<1>5. Receiving'
  BY <1>1, <1>2 DEF Receiving, TypeOK, Places
<1>6. Uninitialised'
  BY <1>1, <1>2 DEF Uninitialised, TypeOK
<1>7. FreedOnce'
  BY <1>1, <1>2 DEF FreedOnce, TypeOK, Receiving
<1>8. RefcntExact'
  BY <1>1, <1>2 DEF RefcntExact, ReaderHolds, TypeOK
<1>9. Accounted'
  BY <1>1, <1>2 DEF Accounted, TypeOK
<1> QED
  BY <1>3, <1>4, <1>5, <1>6, <1>7, <1>8, <1>9

LEMMA RAddNothingInv == IInv /\ RAddNothing => IInv'
<1> SUFFICES ASSUME IInv, RAddNothing PROVE IInv'
  OBVIOUS
<1> USE NullAssumption, BoundAssumption DEF IInv
<1>1. /\ rpc = "add" /\ rpc' = "deref" /\ tlen' = 0 /\ tbuf \in Mbuf /\ tbuf \notin junk
      /\ UNCHANGED <<refcnt, refs, freeq, iovfreeq, outq, tbuf, m, rfree, wpc, w, wfree, junk>>
  BY DEF RAddNothing, TypeOK, Uninitialised
<1>2. /\ \A c : Users(c)' = Users(c)
      /\ refcnt[tbuf] > 0
  BY <1>1, UsersKept, UsersCounted DEF RefcntExact, ReaderHolds
<1>3. TypeOK'
  BY <1>1, <1>2 DEF TypeOK
<1>4. Places'
  BY <1>1, <1>2 DEF Places, TypeOK
<1>5. Receiving'
  BY <1>1, <1>2 DEF Receiving, TypeOK, Places
<1>6. Uninitialised'
  BY <1>1, <1>2 DEF Uninitialised, TypeOK
<1>7. FreedOnce'
  BY <1>1, <1>2 DEF FreedOnce, TypeOK, Receiving
<1>8. RefcntExact'
  BY <1>1, <1>2 DEF RefcntExact, ReaderHolds, TypeOK
<1>9. Accounted'
  BY <1>1, <1>2 DEF Accounted, TypeOK
<1> QED
  BY <1>3, <1>4, <1>5, <1>6, <1>7, <1>8, <1>9

\* The piece is the inner packet's first of this buffer: one more user, one more counted.
LEMMA RAddPartInv == IInv /\ RAddPart => IInv'
<1> SUFFICES ASSUME IInv, RAddPart PROVE IInv'
  OBVIOUS
<1> USE NullAssumption, BoundAssumption DEF IInv
<1>1. /\ rpc = "add" /\ rpc' = "deref" /\ tlen' = 0 /\ tlen > 0 /\ m \in Miov
      /\ tbuf \in Mbuf /\ tbuf \notin junk /\ tbuf \notin refs[m] /\ tbuf \notin freeq
      /\ refs' = [refs EXCEPT ![m] = @ \cup {tbuf}]
      /\ refcnt' = [refcnt EXCEPT ![tbuf] = @ + 1]
      /\ UNCHANGED <<freeq, iovfreeq, outq, tbuf, m, rfree, wpc, w, wfree, junk>>
  BY DEF RAddPart, AddMbuf, TypeOK, Receiving, Uninitialised, FreedOnce
<1>2. /\ Users(tbuf)' # {} /\ Cardinality(Users(tbuf)') = Cardinality(Users(tbuf)) + 1
      /\ \A c : c # tbuf => Users(c)' = Users(c)
  BY <1>1, UserAdded
<1>a. Cardinality(Users(tbuf)) \in Nat
  BY UsersCounted
<1>3. TypeOK'
  BY <1>1, <1>2 DEF TypeOK
<1>4. Places'
  BY <1>1, <1>2 DEF Places, TypeOK
<1>5. Receiving'
  BY <1>1, <1>2, <1>a DEF Receiving, TypeOK, Places, RefcntExact, ReaderHolds
<1>6. Uninitialised'
  BY <1>1, <1>2 DEF Uninitialised, TypeOK
<1>7. FreedOnce'
  BY <1>1, <1>2 DEF FreedOnce, TypeOK, Receiving
<1>8. RefcntExact'
  BY <1>1, <1>2, <1>a DEF RefcntExact, ReaderHolds, TypeOK
<1>9. Accounted'
  BY <1>1, <1>2 DEF Accounted, TypeOK
<1> QED
  BY <1>3, <1>4, <1>5, <1>6, <1>7, <1>8, <1>9

LEMMA RAddLastInv == IInv /\ RAddLast => IInv'
<1> SUFFICES ASSUME IInv, RAddLast PROVE IInv'
  OBVIOUS
<1> USE NullAssumption, BoundAssumption DEF IInv
<1>1. /\ rpc = "add" /\ rpc' = "push" /\ tlen' = tlen - 1 /\ tlen > 0 /\ m \in Miov
      /\ tbuf \in Mbuf /\ tbuf \notin junk /\ tbuf \notin refs[m] /\ tbuf \notin freeq
      /\ refs' = [refs EXCEPT ![m] = @ \cup {tbuf}]
      /\ refcnt' = [refcnt EXCEPT ![tbuf] = @ + 1]
      /\ UNCHANGED <<freeq, iovfreeq, outq, tbuf, m, rfree, wpc, w, wfree, junk>>
  BY DEF RAddLast, AddMbuf, TypeOK, Receiving, Uninitialised, FreedOnce
<1>2. /\ Users(tbuf)' # {} /\ Cardinality(Users(tbuf)') = Cardinality(Users(tbuf)) + 1
      /\ \A c : c # tbuf => Users(c)' = Users(c)
  BY <1>1, UserAdded
<1>a. Cardinality(Users(tbuf)) \in Nat
  BY UsersCounted
<1>3. TypeOK'
  BY <1>1, <1>2 DEF TypeOK
<1>4. Places'
  BY <1>1, <1>2 DEF Places, TypeOK
<1>5. Receiving'
  BY <1>1, <1>2, <1>a DEF Receiving, TypeOK, Places, RefcntExact, ReaderHolds
<1>6. Uninitialised'
  BY <1>1, <1>2 DEF Uninitialised, TypeOK
<1>7. FreedOnce'
  BY <1>1, <1>2 DEF FreedOnce, TypeOK, Receiving
<1>8. RefcntExact'
  BY <1>1, <1>2, <1>a DEF RefcntExact, ReaderHolds, TypeOK
<1>9. Accounted'
  BY <1>1, <1>2 DEF Accounted, TypeOK
<1> QED
  BY <1>3, <1>4, <1>5, <1>6, <1>7, <1>8, <1>9

LEMMA RPushInv == IInv /\ RPush => IInv'
<1> SUFFICES ASSUME IInv, RPush PROVE IInv'
  OBVIOUS
<1> USE NullAssumption, BoundAssumption DEF IInv
<1>1. /\ rpc = "push" /\ outq' = outq \cup {m} /\ m' = NULL /\ m \in Miov
      /\ rpc' = IF tlen = 0 THEN "deref" ELSE "add"
      /\ tbuf \in Mbuf /\ tbuf \notin junk
      /\ UNCHANGED <<refcnt, refs, freeq, iovfreeq, tbuf, rfree, wpc, w, wfree, tlen, junk>>
  BY DEF RPush, TypeOK, Uninitialised
<1>2. /\ \A c : Users(c)' = Users(c)
      /\ refcnt[tbuf] > 0
  BY <1>1, UsersKept, UsersCounted DEF RefcntExact, ReaderHolds
<1>3. TypeOK'
  BY <1>1, <1>2 DEF TypeOK
<1>4. Places'
  BY <1>1, <1>2 DEF Places, TypeOK
<1>5. Receiving'
  BY <1>1, <1>2 DEF Receiving, TypeOK, Places
<1>6. Uninitialised'
  BY <1>1, <1>2 DEF Uninitialised, TypeOK
<1>7. FreedOnce'
  BY <1>1, <1>2 DEF FreedOnce, TypeOK, Receiving
<1>8. RefcntExact'
  BY <1>1, <1>2 DEF RefcntExact, ReaderHolds, TypeOK
<1>9. Accounted'
  BY <1>1, <1>2 DEF Accounted, TypeOK
<1> QED
  BY <1>3, <1>4, <1>5, <1>6, <1>7, <1>8, <1>9

LEMMA WPopInv == IInv /\ WPop => IInv'
<1> SUFFICES ASSUME IInv, WPop PROVE IInv'
  OBVIOUS
<1> USE NullAssumption, BoundAssumption DEF IInv
<1>1. PICK i \in outq : outq' = outq \ {i} /\ w' = i
  BY DEF WPop
<1>2. /\ wpc = "pop" /\ wpc' = "write" /\ i \in Miov /\ w = NULL
      /\ UNCHANGED <<refcnt, refs, freeq, iovfreeq, rpc, tbuf, m, rfree, wfree, tlen, junk>>
      /\ \A c : Users(c)' = Users(c)
  BY <1>1, UsersKept DEF WPop, TypeOK
<1>3. TypeOK'
  BY <1>1, <1>2 DEF TypeOK
<1>4. Places'
  BY <1>1, <1>2 DEF Places, TypeOK
<1>5. Receiving'
  BY <1>1, <1>2 DEF Receiving, TypeOK, Places
<1>6. Uninitialised'
  BY <1>1, <1>2 DEF Uninitialised, TypeOK
<1>7. FreedOnce'
  BY <1>1, <1>2 DEF FreedOnce, TypeOK, Receiving
<1>8. RefcntExact'
  BY <1>1, <1>2 DEF RefcntExact, ReaderHolds, TypeOK
<1>9. Accounted'
  BY <1>1, <1>2 DEF Accounted, TypeOK
<1> QED
  BY <1>3, <1>4, <1>5, <1>6, <1>7, <1>8, <1>9

LEMMA WWriteInv == IInv /\ WWrite => IInv'
<1> SUFFICES ASSUME IInv, WWrite PROVE IInv'
  OBVIOUS
<1> USE NullAssumption, BoundAssumption DEF IInv
<1>1. /\ wpc = "write" /\ wpc' = "deref"
      /\ UNCHANGED <<refcnt, refs, freeq, iovfreeq, outq, rpc, tbuf, m, rfree, w,
                     wfree, tlen, junk>>
  BY DEF WWrite
<1>2. \A c : Users(c)' = Users(c)
  BY <1>1, UsersKept
<1>3. TypeOK'
  BY <1>1, <1>2 DEF TypeOK
<1>4. Places'
  BY <1>1, <1>2 DEF Places, TypeOK
<1>5. Receiving'
  BY <1>1, <1>2 DEF Receiving, TypeOK, Places
<1>6. Uninitialised'
  BY <1>1, <1>2 DEF Uninitialised, TypeOK
<1>7. FreedOnce'
  BY <1>1, <1>2 DEF FreedOnce, TypeOK, Receiving
<1>8. RefcntExact'
  BY <1>1, <1>2 DEF RefcntExact, ReaderHolds, TypeOK
<1>9. Accounted'
  BY <1>1, <1>2 DEF Accounted, TypeOK
<1> QED
  BY <1>3, <1>4, <1>5, <1>6, <1>7, <1>8, <1>9

\* The writer drops a reference while the reader may be anywhere: the count reaches zero
\* only if the reader does not hold the buffer.
LEMMA WDerefInv == IInv /\ WDeref => IInv'
<1> SUFFICES ASSUME IInv, WDeref PROVE IInv'
  OBVIOUS
<1> USE NullAssumption, BoundAssumption DEF IInv
<1>1. PICK b \in refs[w] :
        /\ refcnt' = [refcnt EXCEPT ![b] = @ - 1]
        /\ refs' = [refs EXCEPT ![w] = @ \ {b}]
        /\ IF refcnt[b] = 1 THEN wfree' = b /\ wpc' = "free" ELSE UNCHANGED <<wfree, wpc>>
  BY DEF WDeref
<1>2. /\ wpc = "deref" /\ w \in Miov /\ b \in Mbuf /\ wfree = NULL
      /\ UNCHANGED <<freeq, iovfreeq, outq, rpc, tbuf, m, rfree, w, tlen, junk>>
  BY <1>1 DEF WDeref, TypeOK
<1>a. /\ Users(b) # {} /\ Cardinality(Users(b)) \in Nat \ {0}
      /\ Cardinality(Users(b)') = Cardinality(Users(b)) - 1
      /\ Users(b)' = {} <=> Cardinality(Users(b)) = 1
      /\ \A c : c # b => Users(c)' = Users(c)
  BY <1>1, <1>2, UserDropped, UsersCounted
<1>b. /\ b \notin junk /\ b \notin freeq /\ b # rfree
      /\ refcnt[b] = Cardinality(Users(b)) + (IF ReaderHolds(b) THEN 1 ELSE 0)
      /\ refcnt[b] \in Nat
  BY <1>2, <1>a DEF Uninitialised, FreedOnce, RefcntExact, TypeOK
<1>c. /\ refcnt[b] = 1 => Users(b)' = {} /\ ~ReaderHolds(b)
      /\ refcnt[b] # 1 => Users(b)' # {} \/ ReaderHolds(b)
  BY <1>a, <1>b
<1>3. TypeOK'
  BY <1>1, <1>2, <1>a, <1>b, <1>c DEF TypeOK
<1>4. Places'
  BY <1>1, <1>2, <1>a, <1>b, <1>c DEF Places, TypeOK
<1>5. Receiving'
  BY <1>1, <1>2, <1>a, <1>b, <1>c DEF Receiving, TypeOK, Places, ReaderHolds
<1>6. Uninitialised'
  BY <1>1, <1>2, <1>a, <1>b, <1>c DEF Uninitialised, TypeOK
<1>7. FreedOnce'
  BY <1>1, <1>2, <1>a, <1>b, <1>c DEF FreedOnce, TypeOK, Receiving, ReaderHolds
<1>8. RefcntExact'
  BY <1>1, <1>2, <1>a, <1>b, <1>c DEF RefcntExact, ReaderHolds, TypeOK
<1>9. Accounted'
  BY <1>1, <1>2, <1>a, <1>b, <1>c DEF Accounted, TypeOK, ReaderHolds
<1> QED
  BY <1>3, <1>4, <1>5, <1>6, <1>7, <1>8, <1>9

LEMMA WFreeInv == IInv /\ WFree => IInv'
<1> SUFFICES ASSUME IInv, WFree PROVE IInv'
  OBVIOUS
<1> USE NullAssumption, BoundAssumption DEF IInv
<1>1. /\ wpc = "free" /\ wpc' = "deref" /\ wfree \in Mbuf /\ wfree' = NULL
      /\ freeq' = freeq \cup {wfree}
      /\ UNCHANGED <<refcnt, refs, iovfreeq, outq, rpc, tbuf, m, rfree, w, tlen, junk>>
  BY DEF WFree, TypeOK
<1>2. /\ \A c : Users(c)' = Users(c)
      /\ Users(wfree) = {} /\ wfree # rfree /\ wfree \notin junk
      /\ rpc # "pop" => wfree # tbuf
  BY <1>1, UsersKept DEF FreedOnce, TypeOK, Uninitialised
<1>3. TypeOK'
  BY <1>1, <1>2 DEF TypeOK
<1>4. Places'
  BY <1>1, <1>2 DEF Places, TypeOK
<1>5. Receiving'
  BY <1>1, <1>2 DEF Receiving, TypeOK, Places
<1>6. Uninitialised'
  BY <1>1, <1>2 DEF Uninitialised, TypeOK
<1>7. FreedOnce'
  BY <1>1, <1>2 DEF FreedOnce, TypeOK, Receiving
<1>8. RefcntExact'
  BY <1>1, <1>2 DEF RefcntExact, ReaderHolds, TypeOK
<1>9. Accounted'
  BY <1>1, <1>2 DEF Accounted, TypeOK
<1> QED
  BY <1>3, <1>4, <1>5, <1>6, <1>7, <1>8, <1>9

LEMMA WPushInv == IInv /\ WPush => IInv'
<1> SUFFICES ASSUME IInv, WPush PROVE IInv'
  OBVIOUS
<1> USE NullAssumption, BoundAssumption DEF IInv
<1>1. /\ wpc = "deref" /\ wpc' = "pop" /\ refs[w] = {} /\ w \in Miov /\ w' = NULL
      /\ iovfreeq' = iovfreeq \cup {w}
      /\ UNCHANGED <<refcnt, refs, freeq, outq, rpc, tbuf, m, rfree, wfree, tlen, junk>>
  BY DEF WPush, TypeOK
<1>2. \A c : Users(c)' = Users(c)
  BY <1>1, UsersKept
<1>3. TypeOK'
  BY <1>1, <1>2 DEF TypeOK
<1>4. Places'
  BY <1>1, <1>2 DEF Places, TypeOK
<1>5. Receiving'
  BY <1>1, <1>2 DEF Receiving, TypeOK, Places
<1>6. Uninitialised'
  BY <1>1, <1>2 DEF Uninitialised, TypeOK
<1>7. FreedOnce'
  BY <1>1, <1>2 DEF FreedOnce, TypeOK, Receiving
<1>8. RefcntExact'
  BY <1>1, <1>2 DEF RefcntExact, ReaderHolds, TypeOK
<1>9. Accounted'
  BY <1>1, <1>2 DEF Accounted, TypeOK
<1> QED
  BY <1>3, <1>4, <1>5, <1>6, <1>7, <1>8, <1>9

LEMMA Invariance == Spec => []IInv
<1>1. IInv /\ [Next]_vars => IInv'
  <2> SUFFICES ASSUME IInv, [Next]_vars PROVE IInv'
    OBVIOUS
  <2>1. CASE UNCHANGED vars
    <3>1. \A b : Users(b)' = Users(b)
      BY <2>1, UsersKept DEF vars
    <3> QED
      BY <2>1, <3>1 DEF vars, IInv, TypeOK, Places, Receiving, Uninitialised, FreedOnce,
                       RefcntExact, ReaderHolds, Accounted
  <2> QED
    BY <2>1, RStartInv, RDerefInv, RPopInv, RStoreInv, RRecvInv, RResetInv, RFreeInv,
       RResetDoneInv, RAddPopInv, RAddNothingInv, RAddPartInv, RAddLastInv, RPushInv,
       WPopInv, WWriteInv, WDerefInv, WFreeInv, WPushInv DEF Next, ReaderStep, Writer
<1> QED
  BY InitInv, <1>1, PTL DEF Spec

-----------------------------------------------------------------------------
\* The fields that the two threads share have the values that their types and
\* the positions of the threads allow; no count ever falls below zero.
THEOREM TypeCorrect == Spec => []TypeOK
<1>1. IInv => TypeOK
  BY DEF IInv
<1> QED
  BY Invariance, <1>1, PTL

\* mbuf.refcnt is exactly the number of references, in every interleaving of
\* miov_addmbuf, miov_reset and the loop of read_tfs_pkts with write_intf_pkts.
THEOREM CountsExact == Spec => []RefcntExact
<1>1. IInv => RefcntExact
  BY DEF IInv
<1> QED
  BY Invariance, <1>1, PTL

\* read_tfs_pkts never receives into a buffer that an inner packet refers to.
THEOREM NeverOverwritten == Spec => []NoOverwrite
<1>1. IInv => NoOverwrite
  BY DEF IInv, Receiving, NoOverwrite
<1> QED
  BY Invariance, <1>1, PTL

\* A buffer is put on freeq by one thread, once, and when nobody refers to it.
THEOREM FreedExactlyOnce == Spec => []FreedOnce
<1>1. IInv => FreedOnce
  BY DEF IInv
<1> QED
  BY Invariance, <1>1, PTL

\* No buffer is lost but the one whose first reference was added to a count that
\* nobody had initialised.
THEOREM NeverLost == Spec => []NoLeak
<1>1. IInv => NoLeak
  <2> SUFFICES ASSUME IInv PROVE NoLeak
    OBVIOUS
  <2> DEFINE gone == junk \ (freeq \cup {tbuf})
  <2>1. Cardinality(gone) <= 1
    <3>1. CASE gone = {}
      BY <3>1, FS_EmptySet
    <3>2. CASE gone # {}
      <4>1. PICK x : x \in gone
        BY <3>2
      <4>2. gone = {x}
        BY <4>1 DEF IInv, Uninitialised
      <4> HIDE DEF gone
      <4> QED
        BY <4>2, FS_Singleton
    <3> QED
      BY <3>1, <3>2
  <2> QED
    BY <2>1 DEF IInv, Accounted, NoLeak
<1> QED
  BY Invariance, <1>1, PTL

\* Each miov is on one of the two queues or in the hands of one of the threads.
THEOREM MiovsOwned == Spec => []MiovOwnedOnce
<1>1. IInv => MiovOwnedOnce
  <2> SUFFICES ASSUME IInv, NEW i \in Miov
               PROVE  Cardinality({p \in {"free", "out", "reader", "writer"} :
                          \/ p = "free" /\ i \in iovfreeq
                          \/ p = "out" /\ i \in outq
                          \/ p = "reader" /\ i = m
                          \/ p = "writer" /\ i = w}) = 1
    BY DEF MiovOwnedOnce
  <2> DEFINE at == {p \in {"free", "out", "reader", "writer"} :
                       \/ p = "free" /\ i \in iovfreeq
                       \/ p = "out" /\ i \in outq
                       \/ p = "reader" /\ i = m
                       \/ p = "writer" /\ i = w}
  <2>1. \E p : at = {p}
    <3> USE NullAssumption DEF IInv, Places
    <3>1. CASE i \in iovfreeq
      <4>1. at = {"free"}
        BY <3>1
      <4> QED
        BY <4>1
    <3>2. CASE i \in outq
      <4>1. at = {"out"}
        BY <3>2
      <4> QED
        BY <4>1
    <3>3. CASE i = m
      <4>1. at = {"reader"}
        BY <3>3
      <4> QED
        BY <4>1
    <3>4. CASE i = w
      <4>1. at = {"writer"}
        BY <3>4
      <4> QED
        BY <4>1
    <3> QED
      BY <3>1, <3>2, <3>3, <3>4
  <2> HIDE DEF at
  <2>2. Cardinality(at) = 1
    BY <2>1, FS_Singleton
  <2> QED
    BY <2>2 DEF at
<1> QED
  BY Invariance, <1>1, PTL
=============================================================================
