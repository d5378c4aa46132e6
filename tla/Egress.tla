------------------------------- MODULE Egress -------------------------------
(* Buffer management on the egress side: the two threads of                  *)
(* tfs_tunnel_egress share reference-counted mbufs without a lock.           *)
(*                                                                           *)
(* The reader (read_tfs_pkts, add_to_inner_packet) receives one outer packet *)
(* into tbuf and hangs pieces of it on inner packets (miov); a finished      *)
(* inner packet goes to the writer (write_intf_pkts), which writes it and    *)
(* drops its references.  Whoever drops the last reference to a buffer puts  *)
(* it back on freeq.  One step is one atomic operation on a refcnt or one    *)
(* queue operation.  What the packets contain is left to Reassembly: here    *)
(* any outcome of a receive may happen.                                      *)
(*                                                                           *)
(* The queues are sets: each has room for every element that can be pushed   *)
(* (freeq and iovfreeq are as large as their pools), so a push never blocks  *)
(* and a pop blocks exactly when the set is empty; MQueue treats the rest.   *)
EXTENDS Naturals, FiniteSets

CONSTANTS Mbuf,       \* the outer packet buffers, OUTERQSZ of them
          Miov,       \* the inner packet descriptors, OUTERQSZ of them
          MaxIov,     \* m->maxiov: outer packets one inner packet can span
          InitRefcnt, \* what malloc may leave in mbuf.refcnt
          MaxInner,   \* inner packets one outer packet can have data for
          NULL        \* the C null pointer

ASSUME PoolAssumption == IsFiniteSet(Mbuf) /\ IsFiniteSet(Miov)
ASSUME BoundAssumption == MaxIov \in Nat \ {0} /\ MaxInner \in Nat \ {0}
ASSUME RefcntAssumption == InitRefcnt \subseteq Nat
ASSUME NullAssumption == NULL \notin Mbuf /\ NULL \notin Miov

VARIABLES
    refcnt,    \* mbuf.refcnt
    refs,      \* miov.mbufs[0 .. niov-1], as a set
    freeq,     \* free mbufs
    iovfreeq,  \* free miovs
    outq,      \* finished inner packets, waiting for the writer
    rpc,       \* the reader's next operation
    tbuf,      \* the reader's receive buffer
    m,         \* the reader's inner packet under construction, or NULL
    rfree,     \* the mbuf the reader is about to push on freeq, or NULL
    wpc,       \* the writer's next operation
    w,         \* the writer's inner packet, or NULL
    wfree,     \* the mbuf the writer is about to push on freeq, or NULL
    tlen,      \* inner packets the rest of tbuf still has data for, at most
    junk       \* mbufs whose refcnt nobody has set yet (history)

vars == <<refcnt, refs, freeq, iovfreeq, outq, rpc, tbuf, m, rfree, wpc, w,
          wfree, tlen, junk>>

\* Neither mqueue_new_freeq nor miovq_new_freeq clears what malloc returns.  Any
\* refcnt is taken into account; niov is taken to be zero, as in fresh pages,
\* because with another one the first miov_addmbuf writes out of bounds.
Init ==
    /\ refcnt \in [Mbuf -> InitRefcnt]
    /\ refs = [i \in Miov |-> {}]
    /\ freeq = Mbuf
    /\ iovfreeq = Miov
    /\ outq = {}
    /\ rpc = "start" /\ tbuf = NULL /\ m = NULL /\ rfree = NULL
    /\ wpc = "pop" /\ w = NULL /\ wfree = NULL
    /\ tlen = 0
    /\ junk = Mbuf

-----------------------------------------------------------------------------
\* The reader.

\* Before the loop: pop a buffer and add a reference to whatever count it has.
RStart ==
    /\ rpc = "start"
    /\ \E b \in freeq :
         /\ freeq' = freeq \ {b}
         /\ refcnt' = [refcnt EXCEPT ![b] = @ + 1]
         /\ tbuf' = b
    /\ rpc' = "deref"
    /\ UNCHANGED <<refs, iovfreeq, outq, m, rfree, wpc, w, wfree, tlen, junk>>

\* Variant of RDeref that reuses the buffer whoever else refers to it.
RDerefAlwaysReuse ==
    /\ rpc = "deref"
    /\ refcnt' = [refcnt EXCEPT ![tbuf] = @ - 1]
    /\ rpc' = "store"
    /\ UNCHANGED <<refs, freeq, iovfreeq, outq, tbuf, m, rfree, wpc, w, wfree, tlen, junk>>

\* Top of the loop: drop the reader's own reference; if it was the last, keep
\* the buffer, else leave it to the writer and pop another.
RDeref ==
    /\ rpc = "deref"
    /\ refcnt' = [refcnt EXCEPT ![tbuf] = @ - 1]
    /\ rpc' = IF refcnt[tbuf] = 1 THEN "store" ELSE "pop"
    /\ UNCHANGED <<refs, freeq, iovfreeq, outq, tbuf, m, rfree, wpc, w, wfree, tlen, junk>>

RPop ==
    /\ rpc = "pop"
    /\ \E b \in freeq : freeq' = freeq \ {b} /\ tbuf' = b
    /\ rpc' = "store"
    /\ UNCHANGED <<refcnt, refs, iovfreeq, outq, m, rfree, wpc, w, wfree, tlen, junk>>

\* atomic_store(&tbuf->refcnt, 1)
RStore ==
    /\ rpc = "store"
    /\ refcnt' = [refcnt EXCEPT ![tbuf] = 1]
    /\ junk' = junk \ {tbuf}
    /\ rpc' = "recv"
    /\ UNCHANGED <<refs, freeq, iovfreeq, outq, tbuf, m, rfree, wpc, w, wfree, tlen>>

\* recvfrom fills tbuf.  An error, a short read, a rate-limited packet, an ACK,
\* a bad version or an old sequence number goes back to the top of the loop; a
\* gap in the sequence first resets the inner packet in progress; otherwise the
\* packet is taken apart.
RRecv ==
    /\ rpc = "recv"
    /\ rpc' \in {"deref", "add"} \cup (IF m # NULL THEN {"reset"} ELSE {})
    /\ tlen' \in IF rpc' = "deref" THEN {0} ELSE 1 .. MaxInner
    /\ UNCHANGED <<refcnt, refs, freeq, iovfreeq, outq, tbuf, m, rfree, wpc, w,
                   wfree, junk>>

\* miov_reset: mbuf_deref each buffer of m; the last reference frees it.
RReset ==
    /\ rpc = "reset"
    /\ \E b \in refs[m] :
         /\ refcnt' = [refcnt EXCEPT ![b] = @ - 1]
         /\ refs' = [refs EXCEPT ![m] = @ \ {b}]
         /\ IF refcnt[b] = 1
            THEN rfree' = b /\ rpc' = "free"
            ELSE UNCHANGED <<rfree, rpc>>
    /\ UNCHANGED <<freeq, iovfreeq, outq, tbuf, m, wpc, w, wfree, tlen, junk>>

RFree ==
    /\ rpc = "free"
    /\ freeq' = freeq \cup {rfree}
    /\ rfree' = NULL
    /\ rpc' = "reset"
    /\ UNCHANGED <<refcnt, refs, iovfreeq, outq, tbuf, m, wpc, w, wfree, tlen, junk>>

RResetDone ==
    /\ rpc = "reset"
    /\ refs[m] = {}
    /\ rpc' = "add"
    /\ UNCHANGED <<refcnt, refs, freeq, iovfreeq, outq, tbuf, m, rfree, wpc, w,
                   wfree, tlen, junk>>

\* add_to_inner_packet: get an inner packet if there is none in progress.
RAddPop ==
    /\ rpc = "add" /\ m = NULL
    /\ \E i \in iovfreeq : iovfreeq' = iovfreeq \ {i} /\ m' = i
    /\ UNCHANGED <<refcnt, refs, freeq, outq, rpc, tbuf, rfree, wpc, w, wfree, tlen, junk>>

\* The rest of the outer packet is padding, or the tail of an inner packet
\* whose head was lost: an empty m is kept for the next outer packet.
RAddNothing ==
    /\ rpc = "add" /\ m # NULL
    /\ refs[m] = {}
    /\ tlen' = 0
    /\ rpc' = "deref"
    /\ UNCHANGED <<refcnt, refs, freeq, iovfreeq, outq, tbuf, m, rfree, wpc, w,
                   wfree, junk>>

\* Variant of AddMbuf without atomic_fetch_add.
AddMbufUncounted ==
    /\ refs' = [refs EXCEPT ![m] = @ \cup {tbuf}]
    /\ refcnt' = refcnt

\* miov_addmbuf
AddMbuf ==
    /\ refs' = [refs EXCEPT ![m] = @ \cup {tbuf}]
    /\ refcnt' = [refcnt EXCEPT ![tbuf] = @ + 1]

\* The inner packet goes on in the next outer packet (STARTSHORT, MORE,
\* MORELEFT).  The length of an inner packet bounds the pieces it comes in; the
\* last piece needs a slot too.
RAddPart ==
    /\ rpc = "add" /\ m # NULL
    /\ Cardinality(refs[m]) + 1 < MaxIov
    /\ AddMbuf
    /\ tlen' = 0
    /\ rpc' = "deref"
    /\ UNCHANGED <<freeq, iovfreeq, outq, tbuf, m, rfree, wpc, w, wfree, junk>>

\* The inner packet ends in this outer packet (COMPLETE, SLOPPY END) ...
RAddLast ==
    /\ rpc = "add" /\ m # NULL
    /\ AddMbuf
    /\ tlen' = tlen - 1
    /\ rpc' = "push"
    /\ UNCHANGED <<freeq, iovfreeq, outq, tbuf, m, rfree, wpc, w, wfree, junk>>

\* Variant of RPush that goes on with the inner packet it handed over.
RPushKeep ==
    /\ rpc = "push"
    /\ outq' = outq \cup {m}
    /\ rpc' = IF tlen = 0 THEN "deref" ELSE "add"
    /\ UNCHANGED <<refcnt, refs, freeq, iovfreeq, tbuf, m, rfree, wpc, w, wfree,
                   tlen, junk>>

\* ... and is handed to the writer; the outer packet is used up, or the
\* function recurses for the next inner packet in it.
RPush ==
    /\ rpc = "push"
    /\ outq' = outq \cup {m}
    /\ m' = NULL
    /\ rpc' = IF tlen = 0 THEN "deref" ELSE "add"
    /\ UNCHANGED <<refcnt, refs, freeq, iovfreeq, tbuf, rfree, wpc, w, wfree, tlen, junk>>

-----------------------------------------------------------------------------
\* The writer.

WPop ==
    /\ wpc = "pop"
    /\ \E i \in outq : outq' = outq \ {i} /\ w' = i
    /\ wpc' = "write"
    /\ UNCHANGED <<refcnt, refs, freeq, iovfreeq, rpc, tbuf, m, rfree, wfree, tlen, junk>>

\* writev reads the buffers of w; a short write is only logged.
WWrite ==
    /\ wpc = "write"
    /\ wpc' = "deref"
    /\ UNCHANGED <<refcnt, refs, freeq, iovfreeq, outq, rpc, tbuf, m, rfree, w,
                   wfree, tlen, junk>>

\* Variant of WDeref that pushes every buffer it drops, not only the unused.
WDerefAlwaysFree ==
    /\ wpc = "deref"
    /\ \E b \in refs[w] :
         /\ refcnt' = [refcnt EXCEPT ![b] = @ - 1]
         /\ refs' = [refs EXCEPT ![w] = @ \ {b}]
         /\ wfree' = b /\ wpc' = "free"
    /\ UNCHANGED <<freeq, iovfreeq, outq, rpc, tbuf, m, rfree, w, tlen, junk>>

\* miovq_push on iovfreeq first resets w: mbuf_deref each of its buffers ...
WDeref ==
    /\ wpc = "deref"
    /\ \E b \in refs[w] :
         /\ refcnt' = [refcnt EXCEPT ![b] = @ - 1]
         /\ refs' = [refs EXCEPT ![w] = @ \ {b}]
         /\ IF refcnt[b] = 1
            THEN wfree' = b /\ wpc' = "free"
            ELSE UNCHANGED <<wfree, wpc>>
    /\ UNCHANGED <<freeq, iovfreeq, outq, rpc, tbuf, m, rfree, w, tlen, junk>>

\* Variant of WFree that drops the buffer.
WFreeLost ==
    /\ wpc = "free"
    /\ wfree' = NULL
    /\ wpc' = "deref"
    /\ UNCHANGED <<refcnt, refs, freeq, iovfreeq, outq, rpc, tbuf, m, rfree, w, tlen, junk>>

\* ... pushing on freeq the ones nobody else refers to ...
WFree ==
    /\ wpc = "free"
    /\ freeq' = freeq \cup {wfree}
    /\ wfree' = NULL
    /\ wpc' = "deref"
    /\ UNCHANGED <<refcnt, refs, iovfreeq, outq, rpc, tbuf, m, rfree, w, tlen, junk>>

\* ... and then returns w itself.
WPush ==
    /\ wpc = "deref"
    /\ refs[w] = {}
    /\ iovfreeq' = iovfreeq \cup {w}
    /\ w' = NULL
    /\ wpc' = "pop"
    /\ UNCHANGED <<refcnt, refs, freeq, outq, rpc, tbuf, m, rfree, wfree, tlen, junk>>

-----------------------------------------------------------------------------
ReaderStep ==
    \/ RStart \/ RDeref \/ RPop \/ RStore \/ RReset \/ RFree \/ RResetDone
    \/ RAddPop \/ RAddNothing \/ RAddPart \/ RAddLast \/ RPush

Writer == WPop \/ WWrite \/ WDeref \/ WFree \/ WPush

Next == RRecv \/ ReaderStep \/ Writer

\* The scheduler runs both threads; nobody owes the reader an outer packet.
Fairness == WF_vars(ReaderStep) /\ WF_vars(Writer)

Spec == Init /\ [][Next]_vars
FairSpec == Spec /\ Fairness

-----------------------------------------------------------------------------
TypeOK ==
    /\ refcnt \in [Mbuf -> Nat]
    /\ refs \in [Miov -> SUBSET Mbuf]
    /\ freeq \subseteq Mbuf /\ iovfreeq \subseteq Miov /\ outq \subseteq Miov
    /\ rpc \in {"start", "deref", "pop", "store", "recv", "reset", "free", "add", "push"}
    /\ tbuf \in Mbuf \cup {NULL} /\ (tbuf = NULL <=> rpc = "start")
    /\ m \in Miov \cup {NULL} /\ (rpc \in {"reset", "free", "push"} => m # NULL)
    /\ rfree \in Mbuf \cup {NULL} /\ (rfree # NULL <=> rpc = "free")
    /\ wpc \in {"pop", "write", "deref", "free"}
    /\ w \in Miov \cup {NULL} /\ (w = NULL <=> wpc = "pop")
    /\ wfree \in Mbuf \cup {NULL} /\ (wfree # NULL <=> wpc = "free")
    /\ tlen \in 0 .. MaxInner /\ (rpc \in {"reset", "free", "add"} => tlen > 0)
    /\ junk \subseteq Mbuf

\* The inner packets that refer to a buffer.
Users(b) == {i \in Miov : b \in refs[i]}

\* Does the reader's own reference count?  It is dropped by RDeref and set
\* again by RStore.
ReaderHolds(b) == b = tbuf /\ rpc \notin {"start", "pop", "store"}

\* A buffer that some inner packet, finished or not, still refers to is not
\* received into: the reader only recycles or pops buffers that the writer has
\* finished with, although the two share nothing but an atomic counter.
NoOverwrite ==
    rpc \in {"store", "recv"} => Users(tbuf) = {}

\* A buffer on the free list, or on its way there, is referred to by nobody,
\* is not the receive buffer, and is freed by one thread only: the assertion of
\* mbuf_reset and the capacity of freeq rest on this.
FreedOnce ==
    /\ \A b \in freeq : Users(b) = {} /\ b \notin {rfree, wfree}
    /\ rpc \notin {"start", "pop"} => tbuf \notin freeq
    /\ \A b \in {rfree, wfree} \ {NULL} :
         refcnt[b] = 0 /\ Users(b) = {} /\ (rpc # "pop" => b # tbuf)
    /\ rfree # NULL => rfree # wfree

\* The atomic counter is exactly the number of references, so it reaches zero
\* when and only when the last one is dropped.
RefcntExact ==
    \A b \in Mbuf \ junk :
        refcnt[b] = Cardinality(Users(b)) + (IF ReaderHolds(b) THEN 1 ELSE 0)

\* No buffer is lost: each is free, being freed, being received into or
\* referred to.  Only the first tbuf, whose reference is added to an
\* uninitialised count, may be lost, and no other buffer after it.
NoLeak ==
    /\ \A b \in Mbuf \ junk :
         \/ b \in freeq \cup {rfree, wfree}
         \/ Users(b) # {}
         \/ b = tbuf /\ rpc \notin {"start", "pop"}
    /\ Cardinality(junk \ (freeq \cup {tbuf})) <= 1

\* Each inner packet descriptor is in exactly one place.
MiovOwnedOnce ==
    \A i \in Miov :
        Cardinality({p \in {"free", "out", "reader", "writer"} :
            \/ p = "free" /\ i \in iovfreeq
            \/ p = "out" /\ i \in outq
            \/ p = "reader" /\ i = m
            \/ p = "writer" /\ i = w}) = 1

\* The reader never waits forever for a buffer or for an inner packet
\* descriptor: it holds fewer of them than there are, and the writer returns
\* the others.
ReaderProceeds ==
    /\ (rpc = "pop") ~> (rpc = "recv")
    /\ (rpc = "add") ~> (rpc = "deref")
=============================================================================
