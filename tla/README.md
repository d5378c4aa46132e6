# iptfs: a TLA+ model of the traffic-flow-security tunnel

The program hides the shape of IP traffic. One end reads inner packets from a
tun interface, cuts and packs them into outer packets of one size, and sends
those over UDP at a constant rate; the other end puts the inner packets together
again. The receiver reports losses, and the sender slows down. This directory
models the C implementation (`src/src`) in TLA+, checks it with TLC on small
instances, and proves with TLAPS, for every value of the constants, the main
safety properties of its queues, its egress buffers, its timers, its rate control,
its restarts, and the packing, counting and reassembly of the tunnel; before
sequence numbers wrap, that the tunnel implements a packet pipe.

## 1. The system

One process has four threads and, in each direction, its own buffers:

    tun --> read_intf_pkts --outq--> write_tfs_pkts --> UDP --> read_tfs_pkts --iovoutq--> write_intf_pkts --> tun
                ^                          |                        ^                              |
                +---------- freeq ---------+                        +----- freeq, iovfreeq --------+

| Component | State | Operations | Hard part |
|---|---|---|---|
| Queues (`mbuf.c`) | array, depth, mutex, two condition variables | push, pop, wait, trypop | wake-ups, ownership |
| Egress buffers (`iptfs.h`, `mbuf.c`, `iptfs.c`) | `refcnt` per mbuf, the mbufs each miov refers to, two free lists | take a reference, drop it, free on the last one, recycle the receive buffer | two threads, no lock, one atomic counter |
| Ingress (`write_tfs_pkt`) | leftover, block offset, outer packet under construction, sequence number | cut, pack, pad, send | cut packets, failed sends |
| Reassembly (`read_tfs_pkts`, `add_to_inner_packet`) | `struct ackinfo`, the inner packet in progress | check the sequence number, count losses, reassemble | loss, duplicates, reordering, reports in between |
| Loss reports and rate (`send_ack`, `recv_ack`, `util.c`) | drop count, running averages, rate, interval | report, average, change the rate | unsigned arithmetic, lost reports, start-up |
| Timers (`util.c`) | timestamps | `st_check`, `periodic_wait`, `limit` | clock arithmetic |
| Session (`main.c`, the thread start-up of `iptfs.c`) | the peer's address, what waits in the sockets, pending socket errors, and per process: sequence number, leftover, ackinfo, packet in progress | open and connect a socket, accept the first sender, start the threads, exit | a process that restarts while its peer goes on; set-up racing the first packets and reports; wrap of sequence numbers |
| Python version (`iptfs/`) | as above, and an ACK thread | as above | locking of the drop count |

Threads interact through the queues and, on the egress side, through the atomic
reference counts. The receiving thread calls `recv_ack`, which changes the rate
that the sending thread paces by, through two atomics. The two ends interact
through outer packets and reports, both UDP datagrams.

What makes each part correct:

* queues: no buffer in two places, no lost wake-up, no overrun;
* egress buffers: no buffer is overwritten while in use, freed twice, or lost;
* ingress: outer packets of one size, a block offset that points at a packet,
  no buffer lost when a send fails;
* reassembly: what comes out went in, once and unchanged; a loss costs only the
  packets that had a piece in it; losses are counted exactly;
* rate control: the rate stays in range, losses slow the sender, a clean path
  restores the rate;
* session: a restart, a second client or a wrap of sequence numbers joins pieces of
  different packets only where the sequence check cannot tell, and packets flow
  again afterwards;
* timers: the ACK timer fires when its interval is over, the pacer never sends
  faster than the rate, the limiter drops exactly what exceeds its rate.

## 2. Modules

| Module | Models |
|---|---|
| `MQueue` | `mqueue_*`, `miovq_*`; a critical section is one step |
| `BoundedStack` | what a queue promises: an atomic bounded stack |
| `MQueue_proofs` | theorems about `MQueue` |
| `Egress` | reference counting between `read_tfs_pkts` and `write_intf_pkts` |
| `Egress_proofs` | theorems about `Egress` |
| `Network` | inner packets as bytes, outer packets, the UDP path |
| `Ingress` | `read_intf_pkts`, `write_tfs_pkts`, `write_tfs_pkt` |
| `Reassembly` | `read_tfs_pkts`, `add_to_inner_packet`, `send_ack`, `write_intf_pkts` |
| `Tunnel` | `Ingress`, `Network` and `Reassembly` together |
| `Tunnel_proofs` | theorems about `Tunnel`: types, packing, counting |
| `TunnelSound_proofs` | theorems about `Tunnel`: reassembly, order, the packet pipe, reports, what a loss costs |
| `PacketPipe` | what a tunnel promises |
| `MCTunnel` | packets and lengths for TLC |
| `RateControl` | `send_ack`, `recv_ack`, `runavg_add`, `pps_change_pps` |
| `RateControl_proofs` | theorems about `RateControl` |
| `Session` | `tfs_connect`, `tfs_accept`, the start of the threads, process exit and restart; senders and receivers of both directions, reduced to sequence numbers and to how far inner packets reach |
| `Session_proofs` | theorems about `Session` |
| `MCSession` | an action constraint for TLC |
| `Timers` | `clock_delta`, `st_check`, `periodic_wait`, `limit` |
| `Timers_proofs` | theorems about `Timers` |
| `CommonLemmas` | division, set induction and sequences, for the proofs |

The exact lines each definition stands for are in `PROJECT.json`, "map".
Definitions called a *variant* of another are not part of the model: each is a
plausible bug, and shows that the property it is listed with notices it.

**MQueue.** `mqueue` and `miovq` are the same code. A thread is outside the
queue (`pc = "idle"`) or in one of its calls; `popcv` and `pushcv` are the
sleepers. A signal removes one sleeper, or is lost when there is none; a woken
thread tests its condition again. `mqueue_wait` is followed by `mqueue_trypop`,
as in `write_tfs_pkts`. With a leftover pending, `write_tfs_pkt` may take nothing;
its loop then calls `mqueue_wait` again, which finds the queue non-empty and does
not sleep, or finds that another consumer has emptied it and sleeps rightly: for
the queue, the thread never left the call. Every caller passes `maxsize = 0` to `mqueue_trypop`:
`main` exits on the option that would set `g_dontfrag`.

**Egress.** One step is one atomic operation or one queue operation. What a
received packet contains is left open: any outcome may follow any other, except
that an inner packet has at most `MaxIov` pieces (its length bounds them, which
`IovFits` of the tunnel runs checks). The queues are sets. Each is as large as the pool
of what can be pushed on it, so that only an empty queue blocks. `mbuf.refcnt` is
not initialised by the code; `InitRefcnt` is what `malloc` may leave there. The
fields of a `miov` are not initialised either; they are taken to be zero, since
the program has no defined behaviour otherwise.

**Ingress, Reassembly, Tunnel.** A byte of an inner packet is `<<p, i>>`. A
packet in a queue is the sequence of the bytes left in it. `OneOnly` selects
one-packet mode (`g_oneonly`), in which the writer waits for packets and not for
a clock, and no reports are sent. The ACK timer, the pacing timer and the rate
limiter may fire at any time. A failed assertion ends the process, `"abort"`.
Where add_to_inner_packet would read a header at a byte that starts no packet,
the model aborts too: what the code then does depends on payload bytes.
Receiving a report, a failed `recvfrom` and a receive of zero bytes change
nothing in `Tunnel` and are not actions of it. Packets are IPv4.

**RateControl.** Reports carry the span and the drops of what they cover;
sequence numbers count from the start of the report. The averages are
allocated after the threads are started (`MakeReady`), so a report may come
first (`RecvAckEarly`, a null pointer). The initial interval is computed from
the rate as a float, later ones from its integer part.

**Session.** `pc` is how far `main` has come: `"off"`, the server's `"bound"`
(waiting for a first datagram) and `"peeked"`, `"connected"`, then one state per
thread start, and `"ready"`. `tfs_accept` peeks at the first datagram and leaves it
in the socket; datagrams of other senders that came before `connect` stay there
too, and nobody checks the sender later (the comment at `iptfs.c:403` names the
check; there is no code for it). A client has a port of its own for each process,
so the number of the process is its address; the server's address is fixed. A
datagram that meets no socket is lost, and may leave an error that the next call on
the sender's socket returns: a failed `sendmsg` uses up a sequence number and
the rest of a cut packet, a failed `recvfrom` goes back to the top of the loop,
and a failed `send_ack` has cleared the ackinfo all the same. A failed
assertion, or a report that meets null averages, ends the process, which may be
started again like one that was stopped from outside.

An outer packet is its sender, its sequence number, `head`, the number of outer
packets (this one included) that the cut inner packet it goes on with still needs,
and `tail`, the number the one it leaves unfinished needs. `left` of a packet in
progress counts the same way. Where pieces of different inner packets meet, their
lengths, which are left out, decide between a failed assertion and a joined packet;
both happen in the model. `busy` is the end whose interface delivers packets: one of
the two in each behaviour, while the other sends padding and reports; the
directions share only the sockets and the life of the processes. One step of the
reader is one round of its loop, since it blocks only in `recvfrom`. The mode is
the normal one. One fact about time is used: a set-up takes less than the second
between two reports. An ACK timer therefore may expire at any time while nobody is
being set up (`Quiet`), and during a set-up once, if it could have run out before that
began (`Waited`, kept in `due`). A poll resets the timer only when it has expired.

`blind` says that a receiver in the middle of an inner packet took an outer packet that
read_tfs_pkts had no means to refuse: another process's with a fitting number, or, just
after a report had cleared the last number, one that does not follow (`Overlooks`).

**Timers.** Time is counted in clock units and taken apart into a `struct
timespec` where the code does so. `clock_delta` multiplies seconds by 10^9 in 32
bits, so it is right up to four seconds (`Reach`) and wraps beyond. The three
users of the clock do not interact; a behaviour follows one of them (`user`).
`nanosleep` sleeps at least as long as asked, goes on after an interruption with
the rest of the time, and refuses a fraction of a second or more, in which case
the loop of `periodic_wait` never ends. Callers are assumed to do more than a
nanosecond of work between two calls, and intervals to be at most a second, which
`RateInRange` guarantees for a target of at least one packet per second.

## 3. Runs

| Run | Instance | Shows |
|---|---|---|
| `mqueue` | 2 producers, 3 consumers, 4 buffers, 2 slots, spurious wake-ups | ownership, no lost wake-up, refinement of `BoundedStack`, sleepers wake |
| `egress` | 3 buffers, 3 inner packets of up to 2 pieces, up to 2 inner packets per outer one, counts initially 0 or 1 | no overwrite, no double free, exact counts, at most one buffer lost, reader never starves |
| `tunnel_oneonly` | 3 packets, 2 faults, rate limiter, one zero-length read | no abort, loss contained, order kept up to the queue, refinement of `PacketPipe` |
| `tunnel_normal` | 3 packets, 2 faults, reports | well-formed outer packets; all of the above, and exact drop counts, unless the first outer packet after a report is an old one, or follows a gap in the middle of an inner packet |
| `tunnel_live` | 3 packets, perfect path, fairness | the tunnel never stalls: while it holds packets, another one comes out |
| `rate` | window 2, target 3, spans up to 3, limiter | range of the rate, exact averages, slow-down, recovery |
| `timers` | 4 clock units per second, a uint of 17, 6.5 seconds, a limiter that remembers 2 packets | timer, pacer and limiter are exact within `Reach`; an overdue timer still fires within an interval after a wrap; no bursts |
| `session` | 3 processes over time, inner packets cut over up to 3 outer ones, numbers modulo 4, 2 datagrams in the sockets | pieces of different packets meet only at a receiver that was blind, two clients in one socket included; no report reaches a client before its averages exist |
| `session_live` | 3 processes, numbers modulo 4, fairness | two ends that stay linked go on taking each other's packets |
| `ackloss` | as `tunnel_normal`, one loss | **violation**: a loss next to a report aborts the receiver |
| `leftover` | one-packet mode, perfect path, fairness | **violation**: the rest of a cut packet waits for ever |
| `rate_wrap` | as `rate` | **violation**: heavy loss raises the rate to the target |

**Bounds.** The payload of an outer packet is 4 bytes, a tail of at most 1 byte
is padded (6 in the code), and 2 bytes give the length of a packet (4). What
matters is kept by `SizeAssumption`: a piece that is not padding holds the
length field, and no packet is shorter than the padded tail. The packets have 2,
7 and 3 bytes: two share an outer packet, one spans two or three, one leaves a
tail that is padded, and each can start anywhere in an outer packet. Two faults
are enough to lose both ends of a cut packet, to duplicate a packet and delay
the copy, or to fail a send next to a loss. The pools hold as many buffers as
packets or one less, so that the free list runs empty. `SeqMod` is larger than
any number reached. `MaxEmpty` bounds the all-padding packets and `Pkts` is
finite, so a tunnel run may stop: deadlock is not checked there. It is in the
other runs, except `timers`, where the clock stops at `MaxTime`. In `timers` the
modulus holds four seconds, as 2^32 nanoseconds do, and the clock runs past it,
so that differences wrap, a poll misses an expired timer and the limiter divides
by zero (all beyond `Reach`). In `tunnel_normal` states after a receiver was blind are
not explored further (`NotYetBlind`), because the properties promise nothing there.

In `session` three processes are two at one end and one at the other: a client
that comes back, a server that comes back, two clients whose datagrams meet in
one socket. A modulus of 4 has three numbers before the wrap, so that a receiver
in mid-packet can see a gap, see none, and see a number that happens to follow
one of an earlier life. `MaxLeft` of 2 gives outer packets that start, continue
and end an inner packet. Two places in the sockets are enough for a datagram to
be overtaken by a restart. `MaxSock` makes a sender wait where the code would
send and the kernel drop; a dropped datagram is covered by `Tunnel`. Once no process
can be started and one end is gone, or the server is connected to a client that is,
nobody hears what is still sent; such sends are left out, unless they leave an error to
an end with datagrams to read (`Heard`, a constraint on steps). No state is left
unexplored: what waits in the sockets, another client's datagrams too, is read to
the end, and so is what a receiver does after it was blind. Since everybody may be gone,
deadlock is not checked.

Some behaviours of the code are not claimed absent. `DropsExact` holds while `limit()`
drops nothing: a packet it drops is counted there and again in the gap it leaves. A
zero-length read keeps a buffer, which `BuffersConserved` counts as lost. `NeverStalls` does
not say which packet comes out next: under a stream that does not pause, a packet may
stay at the bottom of `outq` or `iovoutq` for ever. `NoStrandedPusher` is a property of
the queue code; in this program each queue is as large as the pool of what is pushed
on it, so that no producer sleeps.

**Fairness.** `MQueue` and `Egress`: a thread that can run inside a call does
run; nobody is obliged to call, or to send the reader a packet. `Tunnel`: the
threads run, `pps_wait` returns and a packet in flight is received; the
interface need not produce packets and the ACK timer need not fire.
`Session`: a set-up that was begun goes on, the threads run, the writer keeps
sending (strong fairness, since the bound on the sockets makes it wait), and the
ACK timer expires again and again at an end that receives; processes need not be
started or stopped. `RateControl`: packets keep coming (the sender sends padding when idle), the ACK
timer fires again and again, and reports are not lost for ever, hence strong
fairness for `SendAck` and `RecvAck`.

## 4. Proofs

`MQueue_proofs` holds for every finite number of threads, any set of buffers and
any capacity:

* `TypeCorrect`: `TypeOK`.
* `Ownership`: `OwnedOnce`, by induction together with `TypeOK`: a producer only
  brings a buffer nobody has, and pop moves it from the array to a hand.
* `NoLostWakeup` and `NoLostWakeupPush`: `NoStrandedPopper` and
  `NoStrandedPusher`. Read alone, "a sleeper implies an empty queue" is not
  inductive, since a woken thread has not run yet. The inductive form counts:
  while somebody sleeps on `popcv` there is an awake consumer for every queued
  buffer. A push adds one buffer and wakes one sleeper (`PushKeepsWakeups`); a
  pop removes one of each (`TakeTopKeepsWakeups`); `mqueue_wait` leaves both as
  they are, since its caller goes on to try. The cardinality lemmas
  `CountPlusOne` and `CountMinusOne` do the arithmetic. The producers' side is
  symmetric.
* `Refinement`: `MQueue` implements `BoundedStack`.

Assumptions: the sets of threads are finite and disjoint, the capacity is
positive, and `NULL` is no buffer.

`RateControl_proofs` holds for every target, window length, integer width and
clock rate:

* `RateStaysInRange`: `RateInRange`. The invariant adds only that reports and
  averages are numbers (`Numbers`): the clamps of `pps_change_pps` keep the rate
  in range whatever the sum wraps to (`ChangePpsRange`), and the interval is no
  shorter than configured because division is monotone (`DivMonotone`).
* `DropsSlowDown`: `SlowsDown`, from the same invariant: a subtraction of no more
  than the rate does not wrap (`ChangePpsExact`), so that the rate falls, unless it
  is one already. By how much is left open (see section 5).
* `WindowsAreExact`: `WindowExact`. The ring is the last values received, written
  at the index modulo its length, and the total their sum. The sum is a recursive
  function; that replacing the oldest value changes it by the difference is
  proved by induction over the ring (below).
* `DivisionByZero`: `DivisionNeedsLimit`. `recv_ack` divides by the packets
  minus the drops of the window. Every report covers more packets than it
  counts as lost, unless the limiter dropped some; the two sums keep that order.

Assumptions: the target, the window and the integer width are positive, and
the width holds more than the target.

`Egress_proofs` holds for finite pools of any size, any `MaxIov` and any initial
value of the counters:

* `CountsExact`: `RefcntExact`, `FreedExactlyOnce`: `FreedOnce`, `NeverOverwritten`:
  `NoOverwrite`, `NeverLost`: `NoLeak`, `MiovsOwned`: `MiovOwnedOnce`, `TypeCorrect`.
  None is inductive alone. The reader may receive into a buffer because its count
  is the one reference it holds itself; that count is exact because nobody frees a
  buffer in use; and nobody does because both threads free on the result of one
  atomic decrement, between which and the push that follows the buffer is
  counted as theirs. The invariant therefore has the exact count of every
  buffer, an owner for every descriptor, and what each program counter holds. An
  action moves one reference from one place to another, so that its proof is
  about the two sets that change by one element.

Assumptions: the pools are finite and `NULL` is in neither.

`Timers_proofs` holds for every clock rate, width of a uint, ring size and bound
on time:

* `TimerIsExact`: `TimerExact`, `OverdueTimerFires`: `OverdueFires`,
  `SleepIsExact`: `SleepExact`, `NeverBursts`: `NoBurst`, `LimiterIsExact`:
  `LimitExact`, `TypeCorrect`. The lemmas say what the arithmetic of the code
  computes: a difference of two time stamps is exact below the modulus, a sum of a
  time stamp and an interval has one carry, and a sleep has a fraction below a
  second. `NoBurst` needs the invariant that the next deadline is never less than an
  interval after the last; `LimitExact` that the ring holds the sizes and
  times of the last packets in order, so that its total is the sum over them.

Assumptions: three seconds fit in a uint and the clock runs for at least a second.

`Tunnel_proofs` holds for all inner packets, payload sizes, pools, faults and
numbers of reports:

* `BuffersReturnOnce`: `BuffersConserved`, `OuterPacketsFormed`: `WellFormedOuter`,
  `TypeCorrect`. The outer packet under construction is shorter than the payload
  and lacks exactly what the writer still has to fill (`Packing`); its block offset
  is where the leftover ends, and each packet on the queue is whole and fits a
  buffer (`Queued`). From there padding, a cut packet and a full packet each
  give an outer packet of exactly one size, and every path through
  `write_tfs_pkt`, failed sends too, returns the buffers it took (`Counting`).
* `DropCountExact`: `DropsExact`, with and without reports. A report ends with the
  newest packet taken, and nothing newer was taken before (`Losses`); then a gap adds
  exactly the numbers that lie in it (`MissingStep`). The first packet after a report
  starts the next one; if it is an old one the receiver is blind, and the count
  may include packets taken before. This theorem does not need `NoWrap`.
* `SlotsSuffice`: `IovFits`, blind or not, if the whole payloads in the middle of the
  largest packet are at most the quotient the code computes. The code divides the
  size of the largest packet by the size of the outer packet and not of its
  payload, so the condition can fail: it does for an MTU of 300 and packets
  of 9192 bytes, one of the hazards listed.

Assumptions: `SizeAssumption`, that is, the size relations described under
Bounds, that `PAD` is no byte of a packet, and that the pool of buffers is finite.

`TunnelSound_proofs` holds for the same constants, as long as sequence numbers have
not wrapped (`NoWrap`; after a wrap a number in use again can be taken for the one
that follows, which is what `Session` is about):

* `NeverAborts`, `NeverAbortsUnreported`: `NoAbort`, for a receiver that was not blind,
  and for every receiver that sends no reports. The invariant `JInv` follows the
  bytes from the sender's hand to the receiver's. A payload is `Sound`: an inner packet
  in it goes on byte by byte, starts only where there is room for its length field,
  and the block offset is the distance to the end of the packet cut before. An outer
  packet goes on where the one numbered before it stopped, whether both are in
  flight or the second is still under construction (`Flow`, `Expecting`, `Pending`).
  The receiver's packet in progress is the first bytes of one inner packet, and the
  outer packet that follows begins with the byte it needs (`Joining`). Then each
  branch of `add_to_inner_packet` finds what its assertions ask for. A gap that is
  noticed empties the hand, and one that is not makes the receiver blind.
* `FinishedInSendersOrder`: `CompletedInOrder`. The invariant `OInv` orders the ends of
  packets: those in a payload, in the payloads behind it and in the sender's hand
  come in the order the packets were taken from the queue, and the packets finished
  come before all of those (`SentInOrder`, `FinishedInOrder`). Old and repeated
  outer packets are told apart by their number, so the order survives them.
* `PipeUntilBlind`: `PipeUnlessBlind`, and `TunnelIsPipe`: `ImplementsPipe`. Since each
  packet is taken once and finished at most once, what `write_intf_pkts` writes is not
  written yet, and is all of a packet that was read (`Written`). Reading a packet and
  writing one are the steps of the pipe, everything else is a stutter.
* `LossesReported`: `DropsReported`, the second half of `SoundUnlessBlind`, without a
  congestion limit. What was reported and the present count are the numbers
  missing between the first and the last one taken, plus what the limiter dropped
  (`Reporting`).
* `LossContained`, `LossContainedUnreported`: `LossIsContained`; with the others this gives
  `SoundUntilBlind`: `SoundUnlessBlind`. The invariant `KInv` follows every packet of which
  nothing was missed so far: it is finished, in progress, or starts in what is left of
  the outer packet in hand (`Keeping`). An outer packet taken may bring a gap that
  empties the hand. That costs no such packet: an outer packet that stops in the middle
  of one is followed by one that carries more of it (`Linked`), so that had there been a
  gap, a piece would be missing; and a packet whose first piece is in the outer
  packet starts there (`StartsOrGoesOn`). `PassesNone` says that each branch of
  `add_to_inner_packet` finishes what it walks over; the padding it skips comes last.
  A packet in progress was not sent whole, because the next outer packet, sent or under
  construction, goes on with it (`Noted`).

Assumptions: as for `Tunnel_proofs`, no wrap, and that `NULL` is no record of an inner
packet in progress (`NullAssumption`).

`Session_proofs` holds for any number of processes at both ends, any modulus of the
sequence numbers, any size of inner packets and any size of the sockets:

* `RestartsAreSound`: `SoundUnlessBlind`, `ClientIsReady`: `ClientAveragesReady`,
  `TypeCorrect`. That a receiver never joins pieces of different packets is a
  fact about one socket and the processes that wrote to it, old and new. The
  invariant (`Into`) says that the outer packets one process put into a
  socket are chained, number and rest of the inner packet going on from one
  to the next (`Chained`); that the first of them goes on with the inner packet in
  progress (`Awaiting`); that the one the process sends next goes on with the last
  (`Continuing`); and that a process that has not begun to write, or whose send was
  refused, was never heard of (`Unheard`). Packets of another process are either
  told apart by their number, or the receiver was blind; that the two causes named in
  `Overlooks` are all there are is the lemma `OverlooksFacts`. The client is ready because
  a server sends no report before its ACK timer expires, which is later
  than the client's set-up (`Calm`).

Assumptions: sequence numbers have at least two values, and a socket holds a datagram.

**Induction.** The provers cannot use a rule that takes a formula as a
parameter. The lemmas `LeastNat` and `SetInduction` of `CommonLemmas` state
induction with a set instead, from the well-foundedness of the natural numbers,
and so make facts about sums and lengths provable: the set is that of the numbers
for which the fact holds.

Only model-checked: all liveness (`SleepersWake`, `ReaderProceeds`, `NeverStalls`,
`Recovers`, `Resyncs`; the prover has no rules for fairness). Every safety property of
a passing run is stated by a theorem, those of the tunnel with the conditions named
above: no report, or a receiver that was not blind, and, in `TunnelSound_proofs`, no
wrap.

## 5. What the runs found

1. `send_ack` clears `ack.last` (`iptfs.c:752`). A gap at that point is not
   seen, the packet in progress is not dropped, and the assertion at
   `iptfs.c:310` fails, or two packets are joined. The loss is also missing from
   the reports. `tunnel_normal` shows that this is the only such hole: unless the
   first packet after a report is an old one, or comes after a gap with an inner
   packet in progress, the tunnel is a packet pipe.
2. In one-packet mode `mqueue_wait` ignores a pending leftover (`iptfs.c:642`).
3. `pps_change_pps` wraps when the average drop count exceeds the rate.

Two more places where the code and a text differ, which no run is about:

* The draft (`draft/publish/draft-hopps-ipsecme-iptfs-00.txt:763`) defines DropCount as
  "count of the drops that occurred between AckSeqStart and AckSeqEnd". A packet that
  `limit()` drops is counted at `iptfs.c:417` and, since `ack.last` does not move,
  once more at `iptfs.c:446`. `DropsExact` is the draft's definition, and therefore
  about the time before `limit()` drops a packet.
* The comment at `iptfs.c:708` announces a slow-down by "1/4 of the droppct". The
  percentage is computed (`iptfs.c:709`) and not used: the code subtracts the average
  drop count. `SlowsDown` leaves the amount open.

Facts about the code that the models make visible, and that nothing in the
repository contradicts:

* A peer that restarts begins again at sequence number 1. Its packets are ignored
  up to the old number, until the next report clears `ack.last`; then, if an inner
  packet was in progress, the first packet taken is its victim: the same blindness
  as after a loss next to a report. A wrap looks the same. `Resyncs` holds because
  reports clear `ack.last`; in one-packet mode there are none, and after a wrap, or
  the restart of a client on the same port, the receiver stays deaf.
* A server that comes up while its client has been sending for a second may get
  the client's first report before its averages are allocated (`iptfs.c:846`), and
  dies of it; `Session` lets it happen. A client never does: `ClientAveragesReady`.
* A server keeps its first client as its peer for life, also when that is gone.
* The queues are last in, first out, so packets that wait together come out in
  the opposite order, and one may be overtaken again and again.
* `mbuf.refcnt` is never initialised, and the ingress side asserts that it is
  zero. The model takes fresh memory to be zero there.
* The length field of an IPv6 header does not count the header; the receiver uses
  it like the total length of IPv4 (`iptfs.c:235`).
* `peeraddr` is a `struct sockaddr_in`, too small for the addresses that a
  server on the default address `::` gets (`main.c:144`).

## 6. Not modelled, and the plan

Not modelled: option parsing and the configuration of the tun device (`main.c`,
I/O only); IPv6 packets and addresses; datagrams that no peer running this code
sent; the contents of log lines; `pps_incrate`, `pps_decrate` and
`mqueue_get_ackinfo`, which have no callers.

The Python version (`iptfs/`) is a second program with the same protocol. Its ACK
thread reads and clears the drop count under a lock the receiving thread does not
take; a model of it would repeat most of `Reassembly` and is left out in favour
of the C program.

Next, in this order:

1. Proof: that `Tunnel` implements the sequence-number part of `Session`, so that what
   is proved about restarts and wraps carries over to the bytes.
2. IPv6 length fields.
3. The ACK thread of the Python version.
