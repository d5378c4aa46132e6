---------------------------- MODULE RateControl -----------------------------
(* The feedback loop of a tunnel: the receiver's loss reports (struct        *)
(* ackinfo, send_ack), the path they travel, and the sender's reaction       *)
(* (recv_ack): running averages of the reported packet and drop counts, and  *)
(* the rate in packets per second that pps_wait paces by.                    *)
(*                                                                           *)
(* Sequence numbers are counted from the first packet a report covers: only  *)
(* the span and the drops of a report are ever used.                         *)
EXTENDS Naturals, Sequences, FiniteSets

CONSTANTS TargetPps,   \* the configured rate
          RunLen,      \* reports in a running average: 5
          MinAvg,      \* smallest average of a non-zero total: 1
          UintMod,     \* uint32_t arithmetic is modulo this: 2^32
          NsecsInSec,  \* clock units in a second: 10^9
          NdropMax,    \* drops a report can express: 2^24 - 1
          Congest,     \* limit() may drop packets before they are looked at
          MaxSpan,     \* sequence numbers one report covers, at most
          MaxLimited,  \* drops by limit() one report counts, at most
          MaxAcks      \* reports in flight, at most

ASSUME RateAssumption ==
    /\ TargetPps \in Nat \ {0} /\ RunLen \in Nat \ {0} /\ MinAvg \in Nat \ {0}
    /\ NsecsInSec \in Nat /\ UintMod \in Nat /\ TargetPps + 1 < UintMod
    /\ Congest \in BOOLEAN /\ NdropMax \in Nat
    /\ MaxSpan \in Nat /\ MaxLimited \in Nat /\ MaxAcks \in Nat

VARIABLES
    ack,      \* the receiver's struct ackinfo
    acknet,   \* reports in flight
    ready,    \* has tfs_tunnel_egress allocated g_avgpps and g_avgdrops?
    avgpps,   \* g_avgpps
    avgdrops, \* g_avgdrops
    pps,      \* g_pps->pps
    ival,     \* g_pps->periodic.ival
    fault,    \* "none", or why recv_ack brought the process down
    spans,    \* spans reported to avgpps, newest last (history)
    drops,    \* drops reported to avgdrops, newest last (history)
    limited   \* has limit() dropped a packet? (history)

vars == <<ack, acknet, ready, avgpps, avgdrops, pps, ival, fault, spans, drops, limited>>

NoAck == [start |-> 0, last |-> 0, ndrop |-> 0]

\* runavg_new: xzmalloc.  ticks only says whether the window has been full.
NewAvg == [values |-> [i \in 0 .. RunLen - 1 |-> 0], index |-> 0, total |-> 0,
           ticks |-> FALSE, average |-> 0]

\* pps_new truncates the configured rate, a float, to TargetPps, but computes
\* the first interval from the float.
Init ==
    /\ ack = NoAck /\ acknet = << >> /\ ready = FALSE
    /\ avgpps = NewAvg /\ avgdrops = NewAvg
    /\ pps = TargetPps
    /\ ival \in (NsecsInSec \div (TargetPps + 1)) .. (NsecsInSec \div TargetPps)
    /\ fault = "none" /\ spans = << >> /\ drops = << >> /\ limited = FALSE

-----------------------------------------------------------------------------
\* The receiver.

sender == <<ready, avgpps, avgdrops, pps, ival, fault, spans, drops>>

\* Variant of TakeOuter that sets the start of the report with every packet.
TakeOuterRestarts ==
    \E gap \in 0 .. MaxSpan :
        /\ IF ack.last = 0
           THEN gap = 0 /\ ack' = [ack EXCEPT !.start = 1, !.last = 1]
           ELSE /\ ack.last + gap < MaxSpan
                /\ ack' = [ack EXCEPT !.ndrop = @ + gap, !.start = ack.last + gap + 1,
                                      !.last = @ + gap + 1]
        /\ UNCHANGED <<acknet, limited, sender>>

\* read_tfs_pkts takes an outer packet with `gap` others missing before it; the
\* first of a report has nothing to compare with.
TakeOuter ==
    \E gap \in 0 .. MaxSpan :
        /\ IF ack.last = 0
           THEN gap = 0 /\ ack' = [ack EXCEPT !.start = 1, !.last = 1]
           ELSE /\ ack.last + gap < MaxSpan
                /\ ack' = [ack EXCEPT !.ndrop = @ + gap, !.last = @ + gap + 1]
        /\ UNCHANGED <<acknet, limited, sender>>

\* limit() drops a packet, whatever its sequence number.  A datagram that is too
\* short or of another version is counted the same way.
Limited ==
    /\ Congest /\ ack.ndrop < MaxLimited
    /\ ack' = [ack EXCEPT !.ndrop = @ + 1]
    /\ limited' = TRUE
    /\ UNCHANGED <<acknet, sender>>

\* send_ack: nothing to say before the first packet.
SendAck ==
    /\ ack.start # 0
    /\ Len(acknet) < MaxAcks
    /\ acknet' = Append(acknet, [ack EXCEPT !.ndrop = IF @ > NdropMax THEN NdropMax ELSE @])
    /\ ack' = NoAck
    /\ UNCHANGED <<limited, sender>>

\* A report is a UDP packet: it may get lost.
LoseAck ==
    /\ acknet # << >>
    /\ acknet' = Tail(acknet)
    /\ UNCHANGED <<ack, limited, sender>>

-----------------------------------------------------------------------------
\* The sender.

\* Variant of RunavgAdd that overwrites the oldest value without taking it out
\* of the total.
RunavgAddKeepOldest(avg, value) ==
    LET total == avg.total + value
        ticked == avg.index + 1 = RunLen
        full == avg.ticks \/ ticked
        mean == total \div (IF full THEN RunLen ELSE avg.index + 1)
    IN  [values |-> [avg.values EXCEPT ![avg.index] = value],
         index |-> IF ticked THEN 0 ELSE avg.index + 1,
         total |-> total,
         ticks |-> full,
         average |-> IF total # 0 /\ mean < MinAvg THEN MinAvg ELSE mean]

\* runavg_add: a ring of the last RunLen values with a running total.
RunavgAdd(avg, value) ==
    LET oldest == IF avg.ticks THEN avg.values[avg.index] ELSE 0
        total == avg.total - oldest + value
        ticked == avg.index + 1 = RunLen
        full == avg.ticks \/ ticked
        mean == total \div (IF full THEN RunLen ELSE avg.index + 1)
    IN  [values |-> [avg.values EXCEPT ![avg.index] = value],
         index |-> IF ticked THEN 0 ELSE avg.index + 1,
         total |-> total,
         ticks |-> full,
         average |-> IF total # 0 /\ mean < MinAvg THEN MinAvg ELSE mean]

\* It returns true on the call that fills the window, or fills it again.
Ticked(avg) == avg.index + 1 = RunLen

\* Variant of ChangePps without the clamp to the target.
ChangePpsNoCap(old, delta) ==
    LET new == (old + delta) % UintMod
    IN  IF new = 0 THEN 1 ELSE new

\* Variant of ChangePps that stops one short of the target.
ChangePpsCapLow(old, delta) ==
    LET new == (old + delta) % UintMod
        cap == IF new > TargetPps - 1 /\ TargetPps > 1 THEN TargetPps - 1 ELSE new
    IN  IF cap = 0 THEN 1 ELSE cap

\* pps_change_pps: unsigned addition, then clamped to the target and to 1.
ChangePps(old, delta) ==
    LET new == (old + delta) % UintMod
        cap == IF new > TargetPps THEN TargetPps ELSE new
    IN  IF cap = 0 THEN 1 ELSE cap

\* Variant of Minus that forgets the sign.
MinusUnsigned(n) == n % UintMod

\* Negation of an unsigned value.
Minus(n) == (UintMod - n) % UintMod

\* The last RunLen elements (history).
Window(s, x) ==
    LET t == Append(s, x)
    IN  IF Len(t) > RunLen THEN Tail(t) ELSE t

\* A report arrives before main has set up the averages.
RecvAckEarly ==
    /\ acknet # << >> /\ fault = "none"
    /\ ~ready
    /\ fault' = "null"
    /\ acknet' = Tail(acknet)
    /\ UNCHANGED <<ack, ready, avgpps, avgdrops, pps, ival, spans, drops, limited>>

\* recv_ack (its tests for one-packet mode, a bad length or an empty range do not
\* fire on what send_ack sends): both averages take the report; every RunLen reports the rate is
\* raised by one if there were no drops on average, else lowered by the average
\* (the percentage, computed first, is only computed).
RecvAck ==
    LET a == Head(acknet)
        runlen == a.last - a.start
        dropped == RunavgAdd(avgdrops, a.ndrop)
        passed == RunavgAdd(avgpps, runlen)
        delta == IF dropped.average = 0 THEN 1 ELSE Minus(dropped.average)
        zerodiv == dropped.average # 0 /\ passed.average = 0
    IN  /\ acknet # << >> /\ fault = "none"
        /\ ready
        /\ acknet' = Tail(acknet)
        /\ avgpps' = passed
        /\ avgdrops' = dropped
        /\ spans' = Window(spans, runlen)
        /\ drops' = Window(drops, a.ndrop)
        /\ IF ~Ticked(avgdrops)
           THEN UNCHANGED <<pps, ival, fault>>
           ELSE IF zerodiv
                THEN fault' = "div" /\ UNCHANGED <<pps, ival>>
                ELSE /\ pps' = ChangePps(pps, delta)
                     /\ ival' = IF pps' # pps THEN NsecsInSec \div pps' ELSE ival
                     /\ UNCHANGED fault
        /\ UNCHANGED <<ack, ready, limited>>

\* tfs_tunnel_egress allocates the averages after it has started the threads.
MakeReady ==
    /\ ~ready /\ fault = "none"
    /\ ready' = TRUE
    /\ UNCHANGED <<ack, acknet, avgpps, avgdrops, pps, ival, fault, spans, drops, limited>>

Next == TakeOuter \/ Limited \/ SendAck \/ LoseAck \/ RecvAckEarly \/ RecvAck \/ MakeReady

\* Packets keep coming, the ACK timer fires again and again, reports are not
\* lost for ever, and the threads run.
Fairness ==
    /\ WF_vars(TakeOuter) /\ SF_vars(SendAck) /\ SF_vars(RecvAck) /\ WF_vars(MakeReady)

Spec == Init /\ [][Next]_vars
FairSpec == Spec /\ Fairness

-----------------------------------------------------------------------------
\* Whatever the reports say, the rate stays between one packet per second and
\* the configured one, and the interval that pps_wait sleeps, a second atomic,
\* stays in step with it: never zero-divided, never shorter than configured.
RateInRange ==
    /\ pps \in 1 .. TargetPps
    /\ pps # TargetPps => ival = NsecsInSec \div pps
    /\ ival >= NsecsInSec \div (TargetPps + 1)

\* Sum of a short sequence of numbers.
SumOf(s) == LET sum[n \in 0 .. Len(s)] == IF n = 0 THEN 0 ELSE sum[n - 1] + s[n]
            IN  sum[Len(s)]

\* Both running totals are the sums of exactly the last RunLen reports, and the
\* averages those of the reports there are: the ring overwrites what it
\* subtracts, also when it wraps.
WindowExact ==
    \A pair \in {<<avgpps, spans>>, <<avgdrops, drops>>} :
        LET avg == pair[1]
            window == pair[2]
            mean == SumOf(window) \div Len(window)
        IN  /\ avg.total = SumOf(window)
            /\ window # << >> =>
                 avg.average = IF SumOf(window) > 0 /\ mean < MinAvg THEN MinAvg ELSE mean

\* Averaging drops over packets divides by zero in one situation only: limit()
\* dropped packets, and every report of the window covers a single packet.
\* Drops noticed as gaps always come with a span to divide by.
DivisionNeedsLimit == fault = "div" => limited /\ SumOf(spans) = 0

\* Drops slow the sender down: whenever a window of reports is full and there were
\* drops on average, recv_ack lowers the rate, unless it is the lowest already, and
\* as long as the average is not larger than the rate itself.  By how much is left
\* open: the comment there speaks of a quarter of the drop percentage, which is
\* computed and not used.
SlowsDown ==
    [][ RecvAck /\ Ticked(avgdrops) /\ fault' = "none" /\ avgdrops'.average \in 1 .. pps =>
          pps' < pps \/ pps' = 1 ]_vars

\* "Degraded, slow rate ...": a degraded path never makes the sender faster.
DegradedSlows == [][ avgdrops'.average > 0 => pps' <= pps ]_vars

\* When the path stays clean the sender gets back to the configured rate.
Recovers == <>[](ack.ndrop = 0 /\ fault = "none") => <>[](pps = TargetPps)
=============================================================================
