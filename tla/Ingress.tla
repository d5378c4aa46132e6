------------------------------ MODULE Ingress -------------------------------
(* The sending side of a tunnel, tfs_tunnel_ingress: read_intf_pkts reads    *)
(* inner packets from the tunnel interface into buffers and queues them;     *)
(* write_tfs_pkts cuts and packs them into outer packets of one size.  The   *)
(* two threads share the free list and the LIFO queue outq.                  *)
(*                                                                           *)
(* Buffers are anonymous here: a queued mbuf is the bytes left in it, an     *)
(* absent one (the C NULL) is the empty sequence.  The memory of a new mbuf  *)
(* is taken to be zero: mbuf_reset asserts it of refcnt, which nobody sets.  *)
EXTENDS Network

CONSTANTS OneOnly,   \* g_oneonly: one inner packet per outer packet, no pacing
          Pool,      \* buffers of the free list, INNERQSZ
          MaxZero,   \* zero-length reads of the interface, at most
          MaxEmpty   \* all-padding outer packets, at most

ASSUME IngressAssumption ==
    /\ OneOnly \in BOOLEAN
    /\ Pool \in Nat /\ MaxZero \in Nat /\ MaxEmpty \in Nat

VARIABLES
    todo,      \* packets the interface has yet to produce
    rd,        \* the interface reader: about to pop a buffer, or reading into it
    nfree,     \* depth of freeq
    outq,      \* queued inner packets, the newest last
    lost,      \* buffers read_intf_pkts lost track of (history)
    wpc,       \* write_tfs_pkts: between outer packets, filling one, sending it
    wm,        \* m: the inner packet being added
    leftover,  \* what is left of a packet the last outer packet had no room for
    offset,    \* header: bytes of an earlier packet at the start of the payload
    body,      \* the payload so far
    nfreem,    \* used-up buffers collected in g_wtfs_freem
    seq,       \* next sequence number
    empties,   \* all-padding packets sent (history, bounded by MaxEmpty)
    txorder,   \* packets in the order they were taken from outq (history)
    carriers,  \* for each packet, the outer packets with bytes of it (history)
    sentall    \* packets whose last byte was put in an outer packet (history)

invars == <<todo, rd, nfree, outq, lost, wpc, wm, leftover, offset, body,
            nfreem, seq, empties, txorder, carriers, sentall>>

IngressInit ==
    /\ todo = Pkts
    /\ rd = "pop" /\ nfree = Pool /\ outq = << >> /\ lost = 0
    /\ wpc = "idle" /\ wm = << >> /\ leftover = << >> /\ offset = 0
    /\ body = << >> /\ nfreem = 0 /\ seq = 1 /\ empties = 0
    /\ txorder = << >>
    /\ carriers = [p \in Pkts |-> {}] /\ sentall = {}

wvars == <<wpc, wm, leftover, offset, body, nfreem, seq, empties, txorder,
           carriers, sentall>>

-----------------------------------------------------------------------------
\* read_intf_pkts

\* mqueue_pop(freeq), which blocks while no buffer is free.
IntfPop ==
    /\ rd = "pop" /\ nfree > 0
    /\ nfree' = nfree - 1
    /\ rd' = "read"
    /\ UNCHANGED <<todo, outq, lost, wvars, netvars>>

\* read returns a packet, which goes on outq.
IntfRead ==
    /\ rd = "read"
    /\ \E p \in todo :
         /\ todo' = todo \ {p}
         /\ outq' = Append(outq, Bytes(p))
    /\ rd' = "pop"
    /\ UNCHANGED <<nfree, lost, wvars, netvars>>

\* read fails: the buffer goes back.
IntfReadError ==
    /\ rd = "read"
    /\ nfree' = nfree + 1
    /\ rd' = "pop"
    /\ UNCHANGED <<todo, outq, lost, wvars, netvars>>

\* read returns 0: the loop goes on without pushing the buffer anywhere.
IntfReadZero ==
    /\ rd = "read" /\ lost < MaxZero
    /\ lost' = lost + 1
    /\ rd' = "pop"
    /\ UNCHANGED <<todo, nfree, outq, wvars, netvars>>

-----------------------------------------------------------------------------
\* write_tfs_pkt

\* pps_wait returns sooner or later; in one-packet mode mqueue_wait returns
\* only when outq has something, whether or not there is a leftover.
Awake == OneOnly => outq # << >>

TakeFromQueue ==
    /\ outq' = Below(outq)
    /\ txorder' = Append(txorder, Top(outq)[1][1])

\* Variant of WStartLeftover that says the payload starts a new packet.
WStartLeftoverNoOffset ==
    /\ wpc = "idle" /\ Awake
    /\ leftover # << >>
    /\ wm' = leftover
    /\ leftover' = << >>
    /\ offset' = 0
    /\ body' = << >>
    /\ wpc' = "fill"
    /\ UNCHANGED <<todo, rd, nfree, outq, lost, nfreem, seq, empties, txorder,
                   carriers, sentall, netvars>>

\* An outer packet starts with what the last one had no room for ...
WStartLeftover ==
    /\ wpc = "idle" /\ Awake
    /\ leftover # << >>
    /\ wm' = leftover
    /\ leftover' = << >>
    /\ offset' = Len(leftover)
    /\ body' = << >>
    /\ wpc' = "fill"
    /\ UNCHANGED <<todo, rd, nfree, outq, lost, nfreem, seq, empties, txorder,
                   carriers, sentall, netvars>>

\* ... or with a packet from the queue ...
WStartNew ==
    /\ wpc = "idle" /\ Awake
    /\ leftover = << >> /\ outq # << >>
    /\ wm' = Top(outq)
    /\ TakeFromQueue
    /\ offset' = 0
    /\ body' = << >>
    /\ wpc' = "fill"
    /\ UNCHANGED <<todo, rd, nfree, lost, leftover, nfreem, seq, empties,
                   carriers, sentall, netvars>>

\* ... or, when there is neither, is sent empty: write_empty_tfs_pkt.
WEmpty ==
    /\ wpc = "idle" /\ Awake
    /\ leftover = << >> /\ outq = << >>
    /\ empties < MaxEmpty
    /\ empties' = empties + 1
    /\ Transmit([seq |-> seq, offset |-> 0, body |-> Padding(Payload)])
    /\ seq' = (seq + 1) % SeqMod
    /\ UNCHANGED <<todo, rd, nfree, outq, lost, wpc, wm, leftover, offset, body,
                   nfreem, txorder, carriers, sentall, faults>>

Room == Payload - Len(body)

\* The loop: pad when nothing, or nothing useful, fits any more.
WPad ==
    /\ wpc = "fill"
    /\ Room <= MinRoom \/ wm = << >>
    /\ body' = body \o Padding(Room)
    /\ wpc' = "send"
    /\ UNCHANGED <<todo, rd, nfree, outq, lost, wm, leftover, offset, nfreem,
                   seq, empties, txorder, carriers, sentall, netvars>>

\* The packet is larger than the room: fill up and keep the rest.
WPartial ==
    /\ wpc = "fill"
    /\ Room > MinRoom /\ wm # << >>
    /\ Len(wm) > Room
    /\ body' = body \o SubSeq(wm, 1, Room)
    /\ leftover' = Drop(wm, Room)
    /\ wm' = << >>
    /\ wpc' = "send"
    /\ UNCHANGED <<todo, rd, nfree, outq, lost, offset, nfreem, seq, empties,
                   txorder, carriers, sentall, netvars>>

\* The packet fits: its buffer is free once sent; trypop the next one if there
\* is useful room for it.
WFull ==
    LET room == Room - Len(wm)
        more == room > MinRoom /\ ~OneOnly /\ outq # << >>
    IN  /\ wpc = "fill"
        /\ Room > MinRoom /\ wm # << >>
        /\ Len(wm) <= Room
        /\ body' = body \o wm
        /\ nfreem' = nfreem + 1
        /\ IF more
           THEN wm' = Top(outq) /\ TakeFromQueue
           ELSE wm' = << >> /\ UNCHANGED <<outq, txorder>>
        /\ wpc' = IF room = 0 THEN "send" ELSE "fill"
        /\ UNCHANGED <<todo, rd, nfree, lost, leftover, offset, seq, empties,
                       carriers, sentall, netvars>>

\* History: which packets have bytes in a payload, and which end in it.
PktsIn(s) == {s[i][1] : i \in {j \in DOMAIN s : s[j] # PAD}}
PktsEndingIn(s) == {p \in Pkts : \E i \in DOMAIN s : s[i] = <<p, PktLen[p]>>}

Record ==
    /\ carriers' = [p \in Pkts |->
                      IF p \in PktsIn(body) THEN carriers[p] \cup {seq} ELSE carriers[p]]
    /\ sentall' = sentall \cup PktsEndingIn(body)

\* Variant of WSend that forgets the leftover, as after a failed send.
WSendNoLeftover ==
    /\ wpc = "send"
    /\ Transmit([seq |-> seq, offset |-> offset, body |-> body])
    /\ Record
    /\ seq' = (seq + 1) % SeqMod
    /\ nfree' = nfree + nfreem + (IF leftover # << >> THEN 1 ELSE 0)
    /\ leftover' = << >>
    /\ nfreem' = 0
    /\ body' = << >>
    /\ offset' = 0
    /\ wpc' = "idle"
    /\ UNCHANGED <<todo, rd, outq, lost, wm, empties, txorder, faults>>

\* sendmsg, and the used buffers go back to freeq.
WSend ==
    /\ wpc = "send"
    /\ Transmit([seq |-> seq, offset |-> offset, body |-> body])
    /\ Record
    /\ seq' = (seq + 1) % SeqMod
    /\ nfree' = nfree + nfreem
    /\ nfreem' = 0
    /\ body' = << >>
    /\ offset' = 0
    /\ wpc' = "idle"
    /\ UNCHANGED <<todo, rd, outq, lost, wm, leftover, empties, txorder, faults>>

\* Variant of WSendShort that drops the leftover without freeing its buffer.
WSendShortLeak ==
    /\ wpc = "send"
    /\ Fault("short")
    /\ Record
    /\ seq' = (seq + 1) % SeqMod
    /\ nfree' = nfree + nfreem
    /\ leftover' = << >>
    /\ nfreem' = 0
    /\ body' = << >>
    /\ offset' = 0
    /\ wpc' = "idle"
    /\ UNCHANGED <<todo, rd, outq, lost, wm, empties, txorder, net>>

\* sendmsg fails or is short: the sequence number is used up and the rest of
\* the packet that did not fit is dropped with its buffer.
WSendShort ==
    LET used == nfreem + (IF leftover # << >> THEN 1 ELSE 0) IN
    /\ wpc = "send"
    /\ Fault("short")
    /\ Record
    /\ seq' = (seq + 1) % SeqMod
    /\ nfree' = nfree + used
    /\ leftover' = << >>
    /\ nfreem' = 0
    /\ body' = << >>
    /\ offset' = 0
    /\ wpc' = "idle"
    /\ UNCHANGED <<todo, rd, outq, lost, wm, empties, txorder, net>>

IntfReader == IntfPop \/ IntfRead \/ IntfReadError \/ IntfReadZero
TfsWriter == WStartLeftover \/ WStartNew \/ WEmpty \/ WPad \/ WPartial \/ WFull
             \/ WSend

IngressNext == IntfReader \/ TfsWriter \/ WSendShort

-----------------------------------------------------------------------------
IngressTypeOK ==
    /\ todo \subseteq Pkts
    /\ rd \in {"pop", "read"}
    /\ nfree \in 0 .. Pool /\ nfreem \in Nat /\ lost \in 0 .. MaxZero
    /\ wpc \in {"idle", "fill", "send"}
    /\ offset \in Nat /\ seq \in 0 .. SeqMod - 1 /\ empties \in 0 .. MaxEmpty
    /\ wm # << >> => wpc = "fill"
    /\ sentall \subseteq Pkts

One(mbuf) == IF mbuf # << >> THEN 1 ELSE 0

\* Every buffer of the pool is on freeq, on outq, in the hands of one of the
\* two threads, or was lost by a zero-length read: buffers are returned once,
\* whatever mix of whole, partial and failed sends they went through.
BuffersConserved ==
    nfree + Len(outq) + (IF rd = "read" THEN 1 ELSE 0)
      + One(wm) + One(leftover) + nfreem + lost = Pool

\* Every outer packet has the same size, and its block offset points at the
\* first byte of an inner packet, at padding, or past its own end; what stands
\* before the offset is the continuation of the packet cut before.
WellFormedOuter ==
    \A k \in DOMAIN net :
        LET o == net[k] IN
        /\ Len(o.body) = Payload
        /\ o.offset < Payload =>
             o.body[o.offset + 1] = PAD \/ o.body[o.offset + 1][2] = 1
        /\ \A i \in 1 .. Payload :
             /\ i <= o.offset => o.body[i] # PAD
             /\ i > 1 /\ o.body[i] # PAD /\ (i <= o.offset \/ o.body[i][2] # 1) =>
                  o.body[i - 1] = <<o.body[i][1], o.body[i][2] - 1>>
=============================================================================
