------------------------------- MODULE Tunnel -------------------------------
(* One direction of a tunnel: the sending threads of one host (Ingress), the *)
(* UDP path (Network) and the receiving threads of the other (Reassembly).   *)
EXTENDS Ingress, Reassembly

vars == <<netvars, invars, outvars>>

Init == NetInit /\ IngressInit /\ ReassemblyInit

Next ==
    \/ IngressNext /\ UNCHANGED outvars
    \/ ReassemblyNext /\ UNCHANGED invars
    \/ NetNext /\ UNCHANGED <<invars, outvars>>

\* The scheduler runs the threads, pps_wait returns, a send succeeds if the
\* path allows it, and a packet in flight is received.  The interface need not
\* produce packets, the ACK timer need not fire, and faults need not happen.
Fairness ==
    /\ WF_vars(TfsWriter /\ UNCHANGED outvars)
    /\ WF_vars(TfsReader /\ UNCHANGED invars)
    /\ WF_vars(WriteIntf /\ UNCHANGED invars)

Spec == Init /\ [][Next]_vars
FairSpec == Spec /\ Fairness

-----------------------------------------------------------------------------
TypeOK == IngressTypeOK /\ ReassemblyTypeOK

Pipe == INSTANCE PacketPipe WITH
    Image <- Bytes, in <- Pkts \ todo, out <- delivered

\* The tunnel is a packet pipe: what write_intf_pkts writes are packets that
\* read_intf_pkts read, each at most once and byte for byte, however they were
\* cut, packed, lost, duplicated or reordered on the way.
ImplementsPipe == Pipe!Spec

\* Loss is contained: a packet all of whose pieces were sent and accepted is
\* put together, whatever happened to the outer packets before, between and
\* after them.  The block offset exists for this.
LossIsContained ==
    rpc = "top" =>
        \A p \in sentall : carriers[p] \subseteq accepted =>
            \E i \in DOMAIN rxorder : rxorder[i] = p

\* s is a subsequence of t (neither has repetitions).
Position(t, x) == CHOOSE i \in DOMAIN t : t[i] = x
InOrderOf(s, t) ==
    \A i, j \in DOMAIN s : i < j =>
        /\ s[i] \in {t[k] : k \in DOMAIN t} /\ s[j] \in {t[k] : k \in DOMAIN t}
        /\ Position(t, s[i]) < Position(t, s[j])

\* Packets are finished in the order the sender took them from its queue.
CompletedInOrder == InOrderOf(rxorder, txorder)

Missing(lo, hi) == Cardinality((lo .. hi) \ accepted)

\* A loss report is exact: its drop count is the number of outer packets between
\* its first and its last sequence number that were not taken, over loss,
\* duplicates, reordering and the reports before it, unless the receiver was blind.
\* (Not so where limit() drops: read_tfs_pkts counts such a packet then, and again
\* when it meets the gap.)
DropsExact ==
    ~blind /\ nlimited = 0 /\ ack.start # 0 =>
        ack.ndrop = Missing(ack.start, ack.last)

\* No loss escapes the reports: what was reported and what the next report will
\* say add up to the outer packets that were passed over.
DropsReported ==
    accepted # {} =>
        LET lo == CHOOSE x \in accepted : \A y \in accepted : x <= y
            hi == CHOOSE x \in accepted : \A y \in accepted : x >= y
        IN  reported + ack.ndrop = Missing(lo, hi)

\* With reports switched on, clearing the last sequence number is the only thing
\* that can defeat the receiver.  Unless the outer packet after a report is an old
\* one, or comes after a gap in the middle of an inner packet, nothing aborts and
\* a loss is contained; and if it follows the one before it, no loss goes
\* unreported ...
SoundUnlessBlind ==
    /\ ~blind => NoAbort /\ LossIsContained
    /\ ~unseen => DropsReported

\* ... and unless it was blind the tunnel remains a packet pipe.
PipeUnlessBlind == Pipe!Init /\ [][Pipe!Next \/ blind]_<<todo, delivered>>

\* The tunnel never stalls: as long as more packets were read from the interface at
\* one end than written at the other, another one will be written.  Which one is
\* left open: both queues are stacks, and a packet may stay at the bottom of one
\* for as long as others keep coming.
NeverStalls ==
    \A k \in 0 .. Cardinality(Pkts) - 1 :
        (Len(delivered) = k /\ Cardinality(Pkts \ todo) > k) ~> (Len(delivered) > k)
=============================================================================
