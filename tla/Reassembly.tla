---------------------------- MODULE Reassembly ------------------------------
(* The receiving side of a tunnel, tfs_tunnel_egress: read_tfs_pkts checks   *)
(* the sequence number of each outer packet, keeps the loss report for the   *)
(* next ACK and has add_to_inner_packet put inner packets together again;    *)
(* write_intf_pkts writes them to the tunnel interface, the newest first.    *)
(* The buffers underneath are the subject of Egress; here an inner packet    *)
(* under construction is the bytes it refers to.                             *)
EXTENDS Network

CONSTANTS UseAcks,   \* ~g_oneonly: loss reports are sent when the timer fires
          Congest,   \* a congestion rate is set: limit() may drop a packet
          MaxBuf,    \* MAXBUF: no inner packet is larger
          HdrLen,    \* bytes of the outer packet's header: 8
          NULL       \* no inner packet in progress

ASSUME ReassemblyAssumption ==
    /\ UseAcks \in BOOLEAN /\ Congest \in BOOLEAN
    /\ MaxBuf \in Nat /\ HdrLen \in Nat
    /\ \A p \in Pkts : PktLen[p] <= MaxBuf

\* NULL is not the address of a miov.
ASSUME NullAssumption ==
    NULL \notin [data : Seq(Pkts \X Nat), left : Nat, niov : Nat]

VARIABLES
    rpc,        \* top of the loop, receiving, in add_to_inner_packet, aborted
    ack,        \* struct ackinfo: start, last, ndrop
    tb,         \* what is left of the outer packet's payload
    toff,       \* its block offset, for the first inner packet in it
    m,          \* inner packet in progress: data, left, niov; or NULL
    iovoutq,    \* finished inner packets, the newest last
    delivered,  \* what was written to the interface, in order
    accepted,   \* sequence numbers taken since the start (history)
    rxorder,    \* inner packets in the order they were finished (history)
    reported,   \* drops reported in ACKs so far (history)
    nlimited,   \* packets limit() dropped (history)
    newest,     \* the last sequence number taken, whatever was reported (history)
    unseen,     \* did the packet after a report not follow the one before it?
                \* (history)
    blind       \* and was it an old one, or did it come in the middle of an inner
                \* packet? (history)

outvars == <<rpc, ack, tb, toff, m, iovoutq, delivered, accepted, rxorder,
             reported, nlimited, newest, unseen, blind>>
history == <<accepted, rxorder, reported, nlimited, newest, unseen, blind>>

NoAck == [start |-> 0, last |-> 0, ndrop |-> 0]

\* A miov as miov_reset leaves it.
EmptyMiov == [data |-> << >>, left |-> 0, niov |-> 0]

\* Variant of MaxIov with one slot too few: a packet that is cut at both ends
\* needs two more than the quotient.
MaxIovTight == (MaxBuf \div (Payload + HdrLen)) + 1

\* Slots of an inner packet's iovec, as tfs_tunnel_egress computes them.
MaxIov == (MaxBuf \div (Payload + HdrLen)) + 2

ReassemblyInit ==
    /\ rpc = "top" /\ ack = NoAck /\ tb = << >> /\ toff = 0 /\ m = NULL
    /\ iovoutq = << >> /\ delivered = << >>
    /\ accepted = {} /\ rxorder = << >> /\ reported = 0
    /\ nlimited = 0 /\ newest = 0 /\ unseen = FALSE /\ blind = FALSE

-----------------------------------------------------------------------------
\* read_tfs_pkts

\* Top of the loop.  When the ACK timer has fired and there is something to
\* talk about, send_ack reports the drops and clears the whole struct ackinfo.
RTop ==
    /\ rpc = "top"
    /\ rpc' = "recv"
    /\ \/ UNCHANGED <<ack, reported>>
       \/ /\ UseAcks /\ ack.start # 0
          /\ reported' = reported + ack.ndrop
          /\ ack' = NoAck
    /\ UNCHANGED <<tb, toff, m, iovoutq, delivered, accepted, rxorder, nlimited,
                   newest, unseen, blind, netvars>>

\* limit() says the configured congestion rate is exceeded.
RLimited ==
    /\ rpc = "recv" /\ net # << >>
    /\ Congest
    /\ net' = Tail(net)
    /\ ack' = [ack EXCEPT !.ndrop = @ + 1]
    /\ nlimited' = nlimited + 1
    /\ rpc' = "top"
    /\ UNCHANGED <<tb, toff, m, iovoutq, delivered, accepted, rxorder, reported,
                   newest, unseen, blind, faults>>

Started(s) == [ack EXCEPT !.start = IF @ = 0 THEN s ELSE @]

\* A sequence number that is not newer than the last one taken.
ROld ==
    /\ rpc = "recv" /\ net # << >>
    /\ Head(net).seq <= ack.last
    /\ net' = Tail(net)
    /\ ack' = Started(Head(net).seq)
    /\ rpc' = "top"
    /\ UNCHANGED <<tb, toff, m, iovoutq, delivered, history, faults>>

\* Is there a gap before sequence number s?
Gap(s) == s # (ack.last + 1) % SeqMod /\ ack.last # 0

\* Variant of OnGap that keeps the inner packet in progress.
OnGapKeep(s) == m

\* Variant of OnGap that starts afresh with every outer packet.
OnGapAlways(s) == IF m # NULL THEN EmptyMiov ELSE m

\* "drop any in-progress inner packet reconstruction"
OnGap(s) == IF Gap(s) /\ m # NULL THEN EmptyMiov ELSE m

\* Variant of Missed that is off by one.
MissedOffByOne(s) == IF Gap(s) THEN s - ack.last ELSE 0

\* Outer packets that should have come before s and did not.
Missed(s) == IF Gap(s) THEN s - (ack.last + 1) ELSE 0

\* The first packet after a report does not follow the last one before it, and
\* nobody notices (history).
Unnoticed(s) == ack.last = 0 /\ newest # 0 /\ s # newest + 1

M == IF m = NULL THEN EmptyMiov ELSE m

\* Variant of RTake that also takes the last outer packet again.
RTakeAgain ==
    LET o == Head(net) IN
    /\ rpc = "recv" /\ net # << >>
    /\ o.seq >= ack.last
    /\ net' = Tail(net)
    /\ ack' = [Started(o.seq) EXCEPT !.last = o.seq]
    /\ m' = OnGap(o.seq)
    /\ tb' = o.body
    /\ toff' = o.offset
    /\ accepted' = accepted \cup {o.seq}
    /\ newest' = o.seq
    /\ rpc' = "add"
    /\ UNCHANGED <<iovoutq, delivered, rxorder, reported, nlimited, unseen, blind, faults>>

\* A newer outer packet: count the gap before it, and take it apart.
RTake ==
    LET o == Head(net) IN
    /\ rpc = "recv" /\ net # << >>
    /\ o.seq > ack.last
    /\ net' = Tail(net)
    /\ ack' = [Started(o.seq) EXCEPT !.ndrop = @ + Missed(o.seq), !.last = o.seq]
    /\ m' = OnGap(o.seq)
    /\ tb' = o.body
    /\ toff' = o.offset
    /\ accepted' = accepted \cup {o.seq}
    /\ newest' = o.seq
    /\ unseen' = (unseen \/ Unnoticed(o.seq))
    /\ blind' = (blind \/ (Unnoticed(o.seq) /\ (o.seq <= newest \/ M.data # << >>)))
    /\ rpc' = "add"
    /\ UNCHANGED <<iovoutq, delivered, rxorder, reported, nlimited, faults>>

-----------------------------------------------------------------------------
\* add_to_inner_packet: tb, toff and m are its tbuf, offset and m.

\* miov_addmbuf of the first n bytes of s.
AddMbuf(mi, s, n) == [mi EXCEPT !.data = @ \o SubSeq(s, 1, n), !.niov = @ + 1]

\* Variant of OuterDone that does not move tbuf->start to the end.
OuterDoneKeep ==
    /\ tb' = tb /\ toff' = 0
    /\ rpc' = "top"

\* The rest of the outer packet is of no use, or used up: next outer packet.
OuterDone ==
    /\ tb' = << >> /\ toff' = 0
    /\ rpc' = "top"

\* The finished inner packet goes to iovoutq; recurse for the rest of tb.
Finish(mi, rest) ==
    /\ iovoutq' = Append(iovoutq, mi.data)
    /\ rxorder' = Append(rxorder, mi.data[1][1])
    /\ m' = NULL
    /\ IF rest = << >>
       THEN OuterDone
       ELSE tb' = rest /\ toff' = 0 /\ UNCHANGED rpc

\* assert() fails: the process is gone.
Abort ==
    /\ rpc' = "abort"
    /\ UNCHANGED <<tb, toff, m, iovoutq, rxorder>>

\* No packet in progress, and none starts in the rest of this outer packet.
AddSkip ==
    /\ rpc = "add" /\ M.data = << >>
    /\ toff < Len(tb) => Drop(tb, toff)[1] = PAD
    /\ m' = M
    /\ OuterDone
    /\ UNCHANGED <<ack, iovoutq, delivered, history, netvars>>

\* The length in the header at the start of s, 0 if it is not all there.  Where
\* no packet starts, the bytes mean nothing.
IpLen(s) == IF Len(s) >= LenBytes THEN PktLen[s[1][1]] ELSE 0
HeaderAt(s) == s[1][2] = 1

\* A packet starts at the offset.  It ends in this outer packet (COMPLETE),
\* continues in the next (MORELEFT), or is too short to say (STARTSHORT).
AddStart ==
    LET start == Drop(tb, toff)
        iplen == IpLen(start)
    IN  /\ rpc = "add" /\ M.data = << >>
        /\ toff < Len(tb) /\ start[1] # PAD
        /\ IF ~HeaderAt(start)
           THEN Abort
           ELSE IF iplen # 0 /\ iplen <= Len(start)
                THEN Finish(AddMbuf(M, start, iplen), Drop(start, iplen))
                ELSE /\ m' = [AddMbuf(M, start, Len(start)) EXCEPT
                                !.left = IF iplen = 0 THEN 0 ELSE iplen - Len(start)]
                     /\ OuterDone
                     /\ UNCHANGED <<iovoutq, rxorder>>
        /\ UNCHANGED <<ack, delivered, accepted, reported, nlimited, newest, unseen, blind, netvars>>

\* The packet in progress goes on beyond this outer packet (MORE); were it to
\* end here after all, the rest is taken for padding (SLOPPY END).  getiplen,
\* called when the length is not known yet, asserts whatever it is given.
AddMore ==
    /\ rpc = "add" /\ M.data # << >>
    /\ toff > Len(tb)
    /\ IF M.left = 0
       THEN Abort
       ELSE IF M.left > Len(tb)
            THEN /\ m' = [AddMbuf(M, tb, Len(tb)) EXCEPT !.left = @ - Len(tb)]
                 /\ OuterDone
                 /\ UNCHANGED <<iovoutq, rxorder>>
            ELSE Finish([AddMbuf(M, tb, M.left) EXCEPT !.left = 0], << >>)
    /\ UNCHANGED <<ack, delivered, accepted, reported, nlimited, newest, unseen, blind, netvars>>

\* The packet in progress ends at the offset (CONTINUED): the code asserts that
\* what is left of it is exactly what stands before the offset.
AddTail ==
    /\ rpc = "add" /\ M.data # << >>
    /\ toff <= Len(tb)
    /\ IF M.left = 0 \/ M.left # toff
       THEN Abort
       ELSE Finish([AddMbuf(M, tb, M.left) EXCEPT !.left = 0], Drop(tb, M.left))
    /\ UNCHANGED <<ack, delivered, accepted, reported, nlimited, newest, unseen, blind, netvars>>

-----------------------------------------------------------------------------
\* write_intf_pkts: pop, writev, and return the miov.
WriteIntf ==
    /\ rpc # "abort"
    /\ iovoutq # << >>
    /\ delivered' = Append(delivered, Top(iovoutq))
    /\ iovoutq' = Below(iovoutq)
    /\ UNCHANGED <<rpc, ack, tb, toff, m, history, netvars>>

TfsReader == RTop \/ RLimited \/ ROld \/ RTake \/ AddSkip \/ AddStart \/ AddMore \/ AddTail

ReassemblyNext == TfsReader \/ WriteIntf

-----------------------------------------------------------------------------
ReassemblyTypeOK ==
    /\ rpc \in {"top", "recv", "add", "abort"}
    /\ ack \in [start : Nat, last : Nat, ndrop : Nat]
    /\ Len(tb) <= Payload /\ toff \in Nat
    /\ rpc \in {"top", "recv"} => tb = << >>
    /\ m # NULL => m.left \in Nat /\ m.niov \in Nat
    /\ accepted \subseteq 0 .. SeqMod - 1

\* None of the assertions of add_to_inner_packet fails, and it never takes a
\* byte for the start of an inner packet that is not one.
NoAbort == rpc # "abort"

\* An inner packet in progress always has a slot left for its next piece:
\* miov_addmbuf writes there without looking.
IovFits == m # NULL => m.niov < MaxIov
=============================================================================
