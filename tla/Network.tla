------------------------------ MODULE Network -------------------------------
(* What the two ends of a tunnel share: the inner packets as byte sequences, *)
(* the outer packets, and the UDP path that carries them, which may lose,    *)
(* duplicate and reorder.                                                    *)
(*                                                                           *)
(* A byte of an inner packet is <<p, i>>, byte i of packet p.  The parts of  *)
(* it that the code reads are what it would find there: the first byte of an *)
(* IPv4 packet has the version, the bytes up to LenBytes have the length.    *)
(* Padding bytes are PAD.                                                    *)
EXTENDS Naturals, Sequences, FiniteSets

CONSTANTS Pkts,       \* the inner packets
          PktLen,     \* their lengths: the IPv4 total length
          Payload,    \* bytes of payload of an outer packet: g_tfsmtu - 8
          MinRoom,    \* a tail of at most this many bytes is padded: 6
          LenBytes,   \* bytes needed to read an inner packet's length: 4
          SeqMod,     \* sequence numbers are modulo this: 2^32
          PAD,        \* a padding byte
          FaultKinds, \* what the path may do: "lose", "dup", "reorder", "short"
          MaxFaults   \* how often, in one behaviour

\* An IPv4 header is longer than the padded tail, and a piece that is not
\* padded is long enough to hold the length.
ASSUME SizeAssumption ==
    /\ Payload \in Nat /\ MinRoom \in Nat /\ LenBytes \in Nat \ {0}
    /\ SeqMod \in Nat \ {0, 1}
    /\ MinRoom < Payload
    /\ LenBytes <= MinRoom + 1
    /\ PktLen \in [Pkts -> Nat]
    /\ \A p \in Pkts : PktLen[p] > MinRoom
    /\ PAD \notin Pkts \X Nat
ASSUME FaultAssumption ==
    /\ FaultKinds \subseteq {"lose", "dup", "reorder", "short"}
    /\ MaxFaults \in Nat

VARIABLES net,    \* outer packets in flight, oldest first
          faults  \* faults so far

netvars == <<net, faults>>

\* The bytes read from the tunnel interface for packet p.
Bytes(p) == [i \in 1 .. PktLen[p] |-> <<p, i>>]

\* n bytes of padding.
Padding(n) == [i \in 1 .. n |-> PAD]

\* s without its first n bytes.
Drop(s, n) == SubSeq(s, n + 1, Len(s))

\* s without its last element, the top of a LIFO queue.
Below(s) == SubSeq(s, 1, Len(s) - 1)
Top(s) == s[Len(s)]

NetInit == net = << >> /\ faults = 0

\* sendmsg and send hand an outer packet to the path.
Transmit(o) == net' = Append(net, o)

Fault(kind) ==
    /\ kind \in FaultKinds
    /\ faults < MaxFaults
    /\ faults' = faults + 1

NetLose ==
    /\ Fault("lose")
    /\ \E i \in DOMAIN net : net' = SubSeq(net, 1, i - 1) \o Drop(net, i)

NetDup ==
    /\ Fault("dup")
    /\ \E i \in DOMAIN net :
         net' = SubSeq(net, 1, i) \o <<net[i]>> \o Drop(net, i)

NetReorder ==
    /\ Fault("reorder")
    /\ \E i \in DOMAIN net \ {Len(net)} :
         net' = [net EXCEPT ![i] = net[i + 1], ![i + 1] = net[i]]

NetNext == NetLose \/ NetDup \/ NetReorder
=============================================================================
