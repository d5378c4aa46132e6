------------------------------ MODULE Session -------------------------------
(* The life of a tunnel between two processes: how main sets each of them up *)
(* (the server takes the sender of its first datagram for its peer), what    *)
(* they do when one of them exits and is started again, and when sequence    *)
(* numbers wrap.  Both directions are modelled; an outer packet is reduced   *)
(* to its sequence number and to how much of an inner packet it continues    *)
(* and leaves unfinished.  The mode is the normal one: reports are on, and   *)
(* an idle sender sends padding.                                             *)
EXTENDS Naturals, Sequences, FiniteSets

CONSTANTS SeqMod,    \* sequence numbers are modulo this: 2^32
          MaxLeft,   \* outer packets that a cut inner packet may still need
          MaxStarts, \* bound: processes started, at both ends together
          MaxSock    \* bound: datagrams waiting in the two sockets

ASSUME SessionAssumption ==
    /\ SeqMod \in Nat \ {0, 1} /\ MaxLeft \in Nat
    /\ MaxStarts \in Nat /\ MaxSock \in Nat \ {0}

VARIABLES
    pc,        \* how far main has come at each end
    starts,    \* processes started so far: the number of the present one
    peeraddr,  \* the client process whose socket the server took for its peer
    sock,      \* datagrams waiting in each end's socket
    soerr,     \* does a socket have an error pending (port unreachable)?
    busy,      \* the end whose interface delivers packets
    seq,       \* write_tfs_pkts: next sequence number
    carry,     \* write_tfs_pkts: what leftover still needs
    ack,       \* read_tfs_pkts: struct ackinfo, without the drop count
    due,       \* read_tfs_pkts: may the ACK timer have expired before the set-up
               \* that is going on began?
    m,         \* read_tfs_pkts: the inner packet in progress
    fate,      \* what became of the process (history)
    blind      \* did it, with an inner packet in progress, take an outer packet
               \* of another process, or miss a gap next to a report? (history)

vars == <<pc, starts, peeraddr, sock, soerr, busy, seq, carry, ack, due, m,
          fate, blind>>
network == <<sock, soerr>>
sender == <<seq, carry>>
receiver == <<ack, due, m, fate, blind>>

Ends == {"client", "server"}
Other(n) == IF n = "client" THEN "server" ELSE "client"

NoAck == [start |-> 0, last |-> 0]
NoPkt == [from |-> 0, seq |-> 0, left |-> 0, pure |-> TRUE]

\* One more process may be started.
MayStart == starts["client"] + starts["server"] < MaxStarts

Writing(n) == pc[n] \in {"ingress", "egress", "ready"}
Reading(n) == pc[n] \in {"egress", "ready"}

\* Is nobody being set up?  A second is longer than a set-up takes: the ACK timer
\* expires before a set-up, or after it, and at most once in between.
Quiet == \A n \in Ends : pc[n] \in {"off", "bound", "ready"}

\* The timers that may have expired by the time a set-up begins.
Waited == [n \in Ends |-> due[n] \/ (Reading(n) /\ Quiet)]

Init ==
    /\ pc = [n \in Ends |-> "off"]
    /\ starts = [n \in Ends |-> 0]
    /\ peeraddr = 0
    /\ sock = [n \in Ends |-> << >>]
    /\ soerr = [n \in Ends |-> FALSE]
    /\ busy \in Ends
    /\ seq = [n \in Ends |-> 1] /\ carry = [n \in Ends |-> 0]
    /\ ack = [n \in Ends |-> NoAck] /\ due = [n \in Ends |-> FALSE]
    /\ m = [n \in Ends |-> NoPkt]
    /\ fate = [n \in Ends |-> "ok"] /\ blind = [n \in Ends |-> FALSE]

-----------------------------------------------------------------------------
\* Sockets.  A client's port is its own, so the number of the process stands
\* for its address; the server's address is always the same.

Connected(n) == pc[n] \notin {"off", "bound", "peeked"}

\* Is there room for one more datagram?
Room(q) == Len(q["client"]) + Len(q["server"]) < MaxSock

\* Does what end n sends reach a socket?  The client sends to the server's port,
\* the server to its peer's.  A connected socket only hears its peer.
Reaches(n) ==
    IF n = "client"
    THEN pc["server"] # "off" /\ (Connected("server") => peeraddr = starts["client"])
    ELSE pc["client"] # "off" /\ peeraddr = starts["client"]

\* A datagram that meets no socket is lost; the host over there may answer that
\* the port is unreachable, an error for the next call on the sender's socket.
Unreachable(n) ==
    /\ \E e \in {soerr[n], TRUE} : soerr' = [soerr EXCEPT ![n] = e]
    /\ UNCHANGED sock

-----------------------------------------------------------------------------
\* main: set-up, step by step

\* A process is started: a tun device, and a new socket.  The client's is
\* connected (tfs_connect), the server's only bound (tfs_accept).
Start(n) ==
    /\ pc[n] = "off" /\ MayStart
    /\ starts' = [starts EXCEPT ![n] = @ + 1]
    /\ pc' = [pc EXCEPT ![n] = IF n = "client" THEN "connected" ELSE "bound"]
    /\ peeraddr' = IF n = "server" THEN 0 ELSE peeraddr
    /\ fate' = [fate EXCEPT ![n] = "ok"]
    /\ blind' = [blind EXCEPT ![n] = FALSE]
    /\ due' = Waited
    /\ UNCHANGED <<network, busy, sender, ack, m>>

\* tfs_accept waits for a datagram, leaves it in the socket and notes its sender.
Peek ==
    /\ pc["server"] = "bound" /\ sock["server"] # << >>
    /\ peeraddr' = Head(sock["server"]).from
    /\ pc' = [pc EXCEPT !["server"] = "peeked"]
    /\ due' = Waited
    /\ UNCHANGED <<starts, network, busy, sender, ack, m, fate, blind>>

\* tfs_accept connects to that sender.  What others sent before stays queued.
Connect ==
    /\ pc["server"] = "peeked"
    /\ pc' = [pc EXCEPT !["server"] = "connected"]
    /\ UNCHANGED <<starts, peeraddr, network, busy, sender, receiver>>

\* tfs_tunnel_ingress starts the writing thread.
StartIngress(n) ==
    /\ pc[n] = "connected"
    /\ pc' = [pc EXCEPT ![n] = "ingress"]
    /\ seq' = [seq EXCEPT ![n] = 1]
    /\ carry' = [carry EXCEPT ![n] = 0]
    /\ UNCHANGED <<starts, peeraddr, network, busy, receiver>>

\* Variant of StartEgress that leaves the ACK timer expired.
StartEgressDue(n) ==
    /\ pc[n] = "ingress"
    /\ pc' = [pc EXCEPT ![n] = "egress"]
    /\ ack' = [ack EXCEPT ![n] = NoAck]
    /\ m' = [m EXCEPT ![n] = NoPkt]
    /\ due' = [due EXCEPT ![n] = TRUE]
    /\ UNCHANGED <<starts, peeraddr, network, busy, sender, fate, blind>>

\* tfs_tunnel_egress starts the reading thread ...
StartEgress(n) ==
    /\ pc[n] = "ingress"
    /\ pc' = [pc EXCEPT ![n] = "egress"]
    /\ ack' = [ack EXCEPT ![n] = NoAck]
    /\ m' = [m EXCEPT ![n] = NoPkt]
    /\ due' = [due EXCEPT ![n] = FALSE]
    /\ UNCHANGED <<starts, peeraddr, network, busy, sender, fate, blind>>

\* ... and allocates the running averages only then.
MakeAverages(n) ==
    /\ pc[n] = "egress"
    /\ pc' = [pc EXCEPT ![n] = "ready"]
    /\ UNCHANGED <<starts, peeraddr, network, busy, sender, receiver>>

\* A process ends: its socket and all that its threads knew are gone.
Gone(n) ==
    /\ pc' = [pc EXCEPT ![n] = "off"]
    /\ sock' = [sock EXCEPT ![n] = << >>]
    /\ soerr' = [soerr EXCEPT ![n] = FALSE]
    /\ seq' = [seq EXCEPT ![n] = 1] /\ carry' = [carry EXCEPT ![n] = 0]
    /\ ack' = [ack EXCEPT ![n] = NoAck] /\ due' = [due EXCEPT ![n] = FALSE]
    /\ m' = [m EXCEPT ![n] = NoPkt]

\* It is stopped from outside, to be started again.
Exit(n) ==
    /\ pc[n] # "off" /\ MayStart
    /\ Gone(n)
    /\ UNCHANGED <<starts, peeraddr, busy, fate, blind>>

-----------------------------------------------------------------------------
\* write_tfs_pkt

\* Variant of NextSeq that does not wrap.
NextSeqNoWrap(s) == s + 1

\* A uint32_t, incremented.
NextSeq(s) == (s + 1) % SeqMod

\* What an outer packet may leave unfinished: the rest of the packet it goes on
\* with, if that does not end in it, or the rest of a new one.
Tails(n) ==
    IF carry[n] > 1 THEN {carry[n] - 1}
    ELSE IF busy = n THEN 0 .. MaxLeft ELSE {0}

\* A datagram goes out.  An inner packet that is cut goes on in the next one.
Send(n) ==
    /\ Writing(n) /\ ~soerr[n]
    /\ \E t \in Tails(n) :
         LET d == [type |-> "data", from |-> starts[n], seq |-> seq[n],
                   head |-> carry[n], tail |-> t]
         IN  /\ carry' = [carry EXCEPT ![n] = t]
             /\ IF Reaches(n)
                THEN /\ Room(sock)
                     /\ sock' = [sock EXCEPT ![Other(n)] = Append(@, d)]
                     /\ UNCHANGED soerr
                ELSE Unreachable(n)
    /\ seq' = [seq EXCEPT ![n] = NextSeq(@)]
    /\ UNCHANGED <<pc, starts, peeraddr, busy, receiver>>

\* sendmsg returns the pending error and sends nothing: the sequence number is
\* used up, and so is what is left of a cut packet.
SendFails(n) ==
    /\ Writing(n) /\ soerr[n]
    /\ soerr' = [soerr EXCEPT ![n] = FALSE]
    /\ seq' = [seq EXCEPT ![n] = NextSeq(@)]
    /\ carry' = [carry EXCEPT ![n] = 0]
    /\ UNCHANGED <<pc, starts, peeraddr, sock, busy, receiver>>

-----------------------------------------------------------------------------
\* read_tfs_pkts: one step receives a datagram, deals with it and comes back to
\* the top of the loop, where st_check and send_ack follow; it blocks nowhere
\* else.

\* Variant of AfterReport that keeps the last sequence number.
AfterReportKeep(a) == [a EXCEPT !.start = 0]

\* send_ack clears all of struct ackinfo.
AfterReport(a) == NoAck

\* The top of the loop, with a the ackinfo, q the sockets and e the pending
\* error so far.  st_check resets the timer only if it has expired; a report is
\* lost like any datagram.
LoopTop(n, a, q, e) ==
    LET o == Other(n)
        report == [type |-> "ack", from |-> starts[n], ok |-> a.last >= a.start]
    IN  \E expired \in {FALSE, due[n] \/ Quiet} :
        LET sending == expired /\ a.start # 0 IN
        /\ due' = [due EXCEPT ![n] = @ /\ ~expired]
        /\ ack' = [ack EXCEPT ![n] = IF sending THEN AfterReport(a) ELSE a]
        /\ sock' = IF sending /\ ~e /\ Reaches(n) /\ Room(q)
                   THEN [q EXCEPT ![o] = Append(@, report)] ELSE q
        /\ \E f \in IF ~sending THEN {e} ELSE IF e \/ Reaches(n) THEN {FALSE} ELSE BOOLEAN :
             soerr' = [soerr EXCEPT ![n] = f]

Received(n) == [sock EXCEPT ![n] = Tail(@)]

\* An assertion fails, or a null pointer is used: the process is gone.
Die(n, how) ==
    /\ Gone(n)
    /\ fate' = [fate EXCEPT ![n] = how]

\* recvfrom returns the pending error.
RecvError(n) ==
    /\ Reading(n) /\ soerr[n]
    /\ LoopTop(n, ack[n], sock, FALSE)
    /\ UNCHANGED <<pc, starts, peeraddr, busy, sender, m, fate, blind>>

\* recv_ack ignores a report whose range is empty, and otherwise adds it to the
\* averages, there or not.
RecvAck(n) ==
    /\ Reading(n) /\ ~soerr[n] /\ sock[n] # << >> /\ Head(sock[n]).type = "ack"
    /\ IF Head(sock[n]).ok /\ pc[n] = "egress"
       THEN Die(n, "null")
       ELSE LoopTop(n, ack[n], Received(n), FALSE) /\ UNCHANGED <<pc, sender, m, fate>>
    /\ UNCHANGED <<starts, peeraddr, busy, blind>>

Started(a, s) == [a EXCEPT !.start = IF @ = 0 THEN s ELSE @]

\* An outer packet that is not newer than the last one: only ack.start notices.
RecvOld(n) ==
    LET d == Head(sock[n]) IN
    /\ Reading(n) /\ ~soerr[n] /\ sock[n] # << >> /\ d.type = "data"
    /\ d.seq <= ack[n].last
    /\ LoopTop(n, Started(ack[n], d.seq), Received(n), FALSE)
    /\ UNCHANGED <<pc, starts, peeraddr, busy, sender, m, fate, blind>>

Gap(n, s) == s # NextSeq(ack[n].last) /\ ack[n].last # 0

\* The inner packet in progress, unless a gap before s was noticed.
InProgress(n, s) == IF Gap(n, s) THEN NoPkt ELSE m[n]

Follows(d, p) == d.from = p.from /\ d.seq = p.seq + 1

\* What outer packet d leaves in progress, pure if the pieces belong together.
Begin(d) ==
    IF d.tail = 0 THEN NoPkt
    ELSE [from |-> d.from, seq |-> d.seq, left |-> d.tail, pure |-> TRUE]

\* Variant of Unpack that does not count down what is left.
UnpackNoCount(d, p) ==
    IF p.left = 0
    THEN {[pkt |-> IF d.head > 1 THEN NoPkt ELSE Begin(d), fate |-> "ok"]}
    ELSE IF d.head > 1
    THEN {[pkt |-> [p EXCEPT !.seq = d.seq], fate |-> "ok"]}
    ELSE {[pkt |-> Begin(d), fate |-> IF p.left = d.head THEN "ok" ELSE "assert"]}

\* add_to_inner_packet, for outer packet d and packet p in progress.  With none
\* in progress it skips to the block offset.  Where d goes on with an inner
\* packet beyond its end nothing is asserted (MORE, SLOPPY END); otherwise what
\* p needs must be what stands before the offset.  Whether it is, for pieces
\* that do not belong together, depends on lengths that are left out.
Unpack(d, p) ==
    LET belongs == p.pure /\ Follows(d, p)
        done == [pkt |-> Begin(d), fate |-> IF belongs THEN "ok" ELSE "spliced"]
        failed == [pkt |-> p, fate |-> "assert"]
    IN  CASE p.left = 0 ->
               {[pkt |-> IF d.head > 1 THEN NoPkt ELSE Begin(d), fate |-> "ok"]}
          [] p.left > 0 /\ d.head > 1 /\ p.left > 1 ->
               {[pkt |-> [p EXCEPT !.seq = d.seq, !.left = @ - 1, !.pure = belongs],
                 fate |-> "ok"]}
          [] p.left = 1 /\ d.head > 1 -> {[done EXCEPT !.pkt = NoPkt]}
          [] p.left > 0 /\ d.head < 2 /\ p.left # d.head -> {failed}
          [] p.left = 1 /\ d.head = 1 -> IF belongs THEN {done} ELSE {done, failed}

\* What read_tfs_pkts cannot see, as it takes outer packet d with p in progress:
\* that d is another process's, or, after a report has cleared the last sequence
\* number, that others are missing before it.
Overlooks(n, d, p) ==
    /\ p.left > 0
    /\ d.from # p.from \/ (ack[n].last = 0 /\ d.seq # p.seq + 1)

\* A newer outer packet.
Take(n) ==
    LET d == Head(sock[n])
        p == InProgress(n, d.seq)
    IN  /\ Reading(n) /\ ~soerr[n] /\ sock[n] # << >> /\ d.type = "data"
        /\ d.seq > ack[n].last
        /\ \E r \in Unpack(d, p) :
                IF r.fate = "assert"
                THEN Die(n, "assert")
                ELSE /\ m' = [m EXCEPT ![n] = r.pkt]
                     /\ LoopTop(n, [Started(ack[n], d.seq) EXCEPT !.last = d.seq],
                                Received(n), FALSE)
                     /\ fate' = [fate EXCEPT ![n] = IF r.fate = "ok" THEN @ ELSE r.fate]
                     /\ UNCHANGED <<pc, sender>>
        /\ blind' = [blind EXCEPT ![n] = @ \/ Overlooks(n, d, p)]
        /\ UNCHANGED <<starts, peeraddr, busy>>

Recv(n) == RecvError(n) \/ RecvAck(n) \/ RecvOld(n) \/ Take(n)
SetUp(n) == StartIngress(n) \/ StartEgress(n) \/ MakeAverages(n)

Next ==
    \/ Peek \/ Connect
    \/ \E n \in Ends : Start(n) \/ SetUp(n) \/ Exit(n) \/ Send(n) \/ SendFails(n) \/ Recv(n)

\* The threads run, the sender sends padding when it has nothing else (strongly
\* fair, since MaxSock makes it wait and the code does not), and the ACK timer
\* expires again and again.  Nobody need start or stop a process.
Fairness ==
    /\ WF_vars(Peek) /\ WF_vars(Connect)
    /\ \A n \in Ends : /\ WF_vars(SetUp(n))
                       /\ SF_vars(Send(n) \/ SendFails(n))
                       /\ WF_vars(Recv(n))
                       /\ SF_vars(Recv(n) /\ ack'[n] = NoAck)

Spec == Init /\ [][Next]_vars
FairSpec == Spec /\ Fairness

-----------------------------------------------------------------------------
Datagrams ==
    [type : {"data"}, from : 1 .. MaxStarts, seq : 0 .. SeqMod - 1,
     head : 0 .. MaxLeft, tail : 0 .. MaxLeft]
    \cup [type : {"ack"}, from : 1 .. MaxStarts, ok : BOOLEAN]

TypeOK ==
    /\ pc \in [Ends -> {"off", "bound", "peeked", "connected", "ingress", "egress", "ready"}]
    /\ starts \in [Ends -> 0 .. MaxStarts] /\ peeraddr \in 0 .. MaxStarts
    /\ \A n \in Ends : Len(sock[n]) <= MaxSock /\ \A i \in DOMAIN sock[n] : sock[n][i] \in Datagrams
    /\ soerr \in [Ends -> BOOLEAN] /\ busy \in Ends
    /\ seq \in [Ends -> 0 .. SeqMod - 1] /\ carry \in [Ends -> 0 .. MaxLeft]
    /\ ack \in [Ends -> [start : 0 .. SeqMod - 1, last : 0 .. SeqMod - 1]]
    /\ due \in [Ends -> BOOLEAN] /\ blind \in [Ends -> BOOLEAN]
    /\ m \in [Ends -> [from : 0 .. MaxStarts, seq : 0 .. SeqMod - 1,
                       left : 0 .. MaxLeft, pure : BOOLEAN]]
    /\ fate \in [Ends -> {"ok", "assert", "null", "spliced"}]

\* A process that is started in the middle of its peer's stream, hears more than
\* one sender, or whose peer is started again or wraps its sequence numbers, puts
\* no pieces of different inner packets together and fails no assertion of
\* add_to_inner_packet, unless it was blind: with an inner packet in progress it
\* took an outer packet of another process, or one that came after a gap just when
\* a report had cleared the last sequence number.
SoundUnlessBlind ==
    \A n \in Ends : fate[n] \in {"assert", "spliced"} => blind[n]

\* A client never gets a report before tfs_tunnel_egress has allocated the
\* averages that recv_ack adds it to.  (A server may: a client that has waited for
\* it for a second reports on the first packet.)
ClientAveragesReady == fate["client"] # "null"

\* Both ends are up, and are each other's peers.
Linked ==
    /\ \A n \in Ends : pc[n] = "ready"
    /\ peeraddr = starts["client"]

\* Whatever was restarted, and however often sequence numbers wrap: two processes
\* that stay linked go on taking each other's outer packets.  An old last sequence
\* number shuts out new ones only until the next report clears it.
Resyncs == <>[]Linked => \A n \in Ends : []<><<Take(n)>>_vars
=============================================================================
