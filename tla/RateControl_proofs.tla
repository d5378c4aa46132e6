------------------------ MODULE RateControl_proofs --------------------------
(* Proofs about RateControl, for any target, window and arithmetic width.    *)
EXTENDS RateControl, CommonLemmas

LEMMA DivNat ==
    ASSUME NEW n \in Nat, NEW a \in Nat \ {0}
    PROVE  n \div a \in Nat
OBVIOUS

-----------------------------------------------------------------------------
\* What the induction needs of the reports and the averages: that they are
\* numbers.  How large they are does not matter to the rate.
AckType == [start : {0, 1}, last : Nat, ndrop : Nat]
AvgType == [values : [0 .. RunLen - 1 -> Int], index : 0 .. RunLen - 1,
            total : Int, ticks : BOOLEAN, average : Int]

Numbers ==
    /\ ack \in AckType
    /\ acknet \in Seq(AckType)
    /\ avgpps \in AvgType
    /\ avgdrops \in AvgType

IInv == Numbers /\ ival \in Nat /\ RateInRange

\* runavg_add keeps an average an average.
LEMMA RunavgAddType ==
    ASSUME NEW avg \in AvgType, NEW value \in Int
    PROVE  RunavgAdd(avg, value) \in AvgType
<1> DEFINE oldest == IF avg.ticks THEN avg.values[avg.index] ELSE 0
           total == avg.total - oldest + value
           ticked == avg.index + 1 = RunLen
           full == avg.ticks \/ ticked
           len == IF full THEN RunLen ELSE avg.index + 1
           mean == total \div len
<1>1. /\ avg.values \in [0 .. RunLen - 1 -> Int] /\ avg.index \in 0 .. RunLen - 1
      /\ avg.total \in Int /\ avg.ticks \in BOOLEAN /\ avg.average \in Int
  BY DEF AvgType
<1>2. total \in Int
  <2>1. avg.values[avg.index] \in Int
    BY <1>1
  <2>2. oldest \in Int
    BY <2>1
  <2> HIDE DEF oldest
  <2> QED
    BY <1>1, <2>2
<1>3. len \in Nat \ {0}
  BY <1>1, RateAssumption
<1>4. mean \in Int
  <2> HIDE DEF total, len
  <2> QED
    BY <1>2, <1>3
<1>5. [avg.values EXCEPT ![avg.index] = value] \in [0 .. RunLen - 1 -> Int]
  BY <1>1
<1>6. (IF ticked THEN 0 ELSE avg.index + 1) \in 0 .. RunLen - 1
  BY <1>1, RateAssumption
<1>7. full \in BOOLEAN
  BY <1>1
<1>8. (IF total # 0 /\ mean < MinAvg THEN MinAvg ELSE mean) \in Int
  <2> HIDE DEF total, mean
  <2> QED
    BY <1>4, RateAssumption
<1>9. RunavgAdd(avg, value) =
        [values |-> [avg.values EXCEPT ![avg.index] = value],
         index |-> IF ticked THEN 0 ELSE avg.index + 1,
         total |-> total, ticks |-> full,
         average |-> IF total # 0 /\ mean < MinAvg THEN MinAvg ELSE mean]
  BY Zenon DEF RunavgAdd
<1> HIDE DEF total, full, mean, ticked
<1> QED
  BY <1>2, <1>5, <1>6, <1>7, <1>8, <1>9 DEF AvgType

\* The clamps of pps_change_pps, whatever the sum wraps to.
LEMMA ChangePpsRange ==
    ASSUME NEW old \in 1 .. TargetPps, NEW delta \in Int
    PROVE  ChangePps(old, delta) \in 1 .. TargetPps
<1> DEFINE new == (old + delta) % UintMod
<1>1. UintMod \in Nat \ {0} /\ TargetPps \in Nat \ {0}
  BY RateAssumption
<1>2. new \in Nat
  BY <1>1
<1> HIDE DEF new
<1>3. ChangePps(old, delta) =
        LET cap == IF new > TargetPps THEN TargetPps ELSE new
        IN  IF cap = 0 THEN 1 ELSE cap
  BY Zenon DEF ChangePps, new
<1> QED
  BY <1>1, <1>2, <1>3

\* Subtracting no more than there is does not wrap.
LEMMA ChangePpsExact ==
    ASSUME NEW old \in 1 .. TargetPps, NEW n \in 1 .. old
    PROVE  ChangePps(old, Minus(n)) = IF n = old THEN 1 ELSE old - n
<1>1. UintMod \in Nat \ {0} /\ TargetPps \in Nat \ {0} /\ TargetPps + 1 < UintMod
  BY RateAssumption
<1>2. UintMod - n \in 0 .. UintMod - 1
  BY <1>1
<1>3. Minus(n) = UintMod - n
  BY <1>1, <1>2, ModSmall DEF Minus
<1>4. old - n \in 0 .. UintMod - 1
  BY <1>1
<1>5. (UintMod + (old - n)) % UintMod = old - n
  BY <1>1, <1>4, ModSmall
<1>6. old + (UintMod - n) = UintMod + (old - n)
  BY <1>1
<1>7. (old + Minus(n)) % UintMod = old - n
  BY <1>3, <1>5, <1>6
<1> QED
  BY <1>1, <1>7 DEF ChangePps

-----------------------------------------------------------------------------
LEMMA InitInv == Init => IInv
<1> SUFFICES ASSUME Init PROVE IInv
  OBVIOUS
<1> USE DEF Init
<1>1. RunLen \in Nat \ {0} /\ TargetPps \in Nat \ {0} /\ NsecsInSec \in Nat
  BY RateAssumption
<1>2. ack \in AckType /\ acknet \in Seq(AckType)
  BY DEF AckType, NoAck
<1>3. NewAvg \in AvgType
  BY <1>1 DEF NewAvg, AvgType
<1>4. NsecsInSec \div (TargetPps + 1) \in Nat /\ NsecsInSec \div TargetPps \in Nat
  BY <1>1
<1>5. ival \in Nat /\ ival >= NsecsInSec \div (TargetPps + 1)
  BY <1>4
<1> QED
  BY <1>1, <1>2, <1>3, <1>5 DEF IInv, Numbers, RateInRange

\* recv_ack keeps the rate and the interval in range, whatever the report says,
\* and lowers the rate when a window of reports has drops.
LEMMA RecvAckRate ==
    ASSUME IInv, RecvAck
    PROVE  /\ IInv'
           /\ Ticked(avgdrops) /\ fault' = "none" /\ avgdrops'.average \in 1 .. pps =>
                pps' < pps \/ pps' = 1
<1> DEFINE a == Head(acknet)
           dropped == RunavgAdd(avgdrops, a.ndrop)
           passed == RunavgAdd(avgpps, a.last - a.start)
           delta == IF dropped.average = 0 THEN 1 ELSE Minus(dropped.average)
<1>1. /\ ack \in AckType /\ acknet \in Seq(AckType)
      /\ avgpps \in AvgType /\ avgdrops \in AvgType
      /\ ival \in Nat /\ pps \in 1 .. TargetPps
      /\ pps # TargetPps => ival = NsecsInSec \div pps
      /\ ival >= NsecsInSec \div (TargetPps + 1)
  BY DEF IInv, Numbers, RateInRange
<1>2. /\ acknet # << >> /\ acknet' = Tail(acknet) /\ ack' = ack
      /\ avgpps' = passed /\ avgdrops' = dropped
      /\ \/ pps' = pps /\ ival' = ival
         \/ /\ pps' = ChangePps(pps, delta)
            /\ ival' = IF pps' # pps THEN NsecsInSec \div pps' ELSE ival
  BY DEF RecvAck
<1>3. a \in AckType /\ acknet' \in Seq(AckType)
  BY <1>1, <1>2
<1>4. a.ndrop \in Int /\ a.last - a.start \in Int
  BY <1>3 DEF AckType
<1>5. dropped \in AvgType /\ passed \in AvgType
  BY <1>1, <1>4, RunavgAddType
<1>6. Numbers'
  BY <1>1, <1>2, <1>3, <1>5 DEF Numbers
<1>7. dropped.average \in Int
  BY <1>5 DEF AvgType
<1> HIDE DEF dropped, passed, a
<1>8. UintMod \in Nat \ {0} /\ TargetPps \in Nat \ {0} /\ NsecsInSec \in Nat
  BY RateAssumption
<1>9. delta \in Int
  BY <1>7, <1>8 DEF Minus
<1>10. ChangePps(pps, delta) \in 1 .. TargetPps
  BY <1>1, <1>9, ChangePpsRange
<1>11. IInv'
  <2>1. CASE pps' = pps /\ ival' = ival
    BY <1>1, <1>6, <2>1 DEF IInv, RateInRange
  <2>2. CASE pps' = pps /\ ival' = (IF pps' # pps THEN NsecsInSec \div pps' ELSE ival)
    BY <1>1, <1>6, <2>2 DEF IInv, RateInRange
  <2>3. CASE pps' # pps /\ pps' = ChangePps(pps, delta) /\ ival' = NsecsInSec \div pps'
    <3>1. pps' \in 1 .. TargetPps
      BY <1>10, <2>3
    <3>2. pps' \in Nat \ {0} /\ TargetPps + 1 \in Nat \ {0} /\ pps' <= TargetPps + 1
      BY <1>8, <3>1
    <3>3. NsecsInSec \div (TargetPps + 1) <= NsecsInSec \div pps'
      BY <1>8, <3>2, DivMonotone
    <3>4. NsecsInSec \div pps' \in Nat /\ NsecsInSec \div (TargetPps + 1) \in Nat
      BY <1>8, <3>2, DivNat
    <3> QED
      BY <1>6, <2>3, <3>1, <3>3, <3>4 DEF IInv, RateInRange
  <2> QED
    BY <1>2, <2>1, <2>2, <2>3
<1>12. ASSUME Ticked(avgdrops), fault' = "none", avgdrops'.average \in 1 .. pps
       PROVE  pps' < pps \/ pps' = 1
  <2>1. dropped.average \in 1 .. pps /\ avgdrops' = dropped
    BY <1>2, <1>12
  <2>2. delta = Minus(dropped.average)
    BY <1>1, <2>1
  <2>3. pps' = ChangePps(pps, delta)
    BY <1>12 DEF RecvAck, dropped, a
  <2>4. pps' = IF dropped.average = pps THEN 1 ELSE pps - dropped.average
    BY <1>1, <2>1, <2>2, <2>3, ChangePpsExact
  <2> QED
    BY <1>1, <2>1, <2>4
<1> QED
  BY <1>11, <1>12

LEMMA StepInv == IInv /\ [Next]_vars => IInv'
<1> SUFFICES ASSUME IInv, [Next]_vars PROVE IInv'
  OBVIOUS
<1>1. /\ ack \in AckType /\ acknet \in Seq(AckType)
      /\ avgpps \in AvgType /\ avgdrops \in AvgType
  BY DEF IInv, Numbers
<1>2. ASSUME avgpps' = avgpps, avgdrops' = avgdrops, pps' = pps, ival' = ival,
             ack' \in AckType, acknet' \in Seq(AckType)
      PROVE  IInv'
  BY <1>1, <1>2 DEF IInv, Numbers, RateInRange
<1>3. CASE TakeOuter
  <2> PICK gap \in 0 .. MaxSpan :
        /\ ack' = [ack EXCEPT !.start = 1, !.last = 1]
           \/ ack' = [ack EXCEPT !.ndrop = @ + gap, !.last = @ + gap + 1]
        /\ UNCHANGED <<acknet, limited, sender>>
    BY <1>3 DEF TakeOuter
  <2>1. MaxSpan \in Nat
    BY RateAssumption
  <2>2. ack' \in AckType
    <3>1. CASE ack' = [ack EXCEPT !.start = 1, !.last = 1]
      BY <1>1, <3>1 DEF AckType
    <3>2. CASE ack' = [ack EXCEPT !.ndrop = @ + gap, !.last = @ + gap + 1]
      <4>1. ack.ndrop + gap \in Nat /\ ack.last + gap + 1 \in Nat
        BY <1>1, <2>1 DEF AckType
      <4> QED
        BY <1>1, <3>2, <4>1 DEF AckType
    <3> QED
      BY <3>1, <3>2
  <2> QED
    BY <1>1, <1>2, <2>2 DEF sender
<1>4. CASE Limited
  <2>1. ack' \in AckType
    BY <1>1, <1>4 DEF Limited, AckType
  <2> QED
    BY <1>1, <1>2, <1>4, <2>1 DEF Limited, sender
<1>5. CASE SendAck
  <2> DEFINE report == [ack EXCEPT !.ndrop = IF @ > NdropMax THEN NdropMax ELSE @]
  <2>1. report \in AckType /\ NoAck \in AckType
    BY <1>1, RateAssumption DEF AckType, NoAck
  <2>2. acknet' = Append(acknet, report) /\ ack' = NoAck
    BY <1>5 DEF SendAck
  <2> HIDE DEF report
  <2>3. acknet' \in Seq(AckType)
    BY <1>1, <2>1, <2>2
  <2> QED
    BY <1>2, <1>5, <2>1, <2>2, <2>3 DEF SendAck, sender
<1>6. CASE LoseAck
  <2>1. acknet' \in Seq(AckType)
    BY <1>1, <1>6 DEF LoseAck
  <2> QED
    BY <1>1, <1>2, <1>6, <2>1 DEF LoseAck, sender
<1>7. CASE RecvAckEarly
  <2>1. acknet' \in Seq(AckType)
    BY <1>1, <1>7 DEF RecvAckEarly
  <2> QED
    BY <1>1, <1>2, <1>7, <2>1 DEF RecvAckEarly
<1>8. CASE RecvAck
  BY <1>8, RecvAckRate
<1>9. CASE MakeReady
  BY <1>1, <1>2, <1>9 DEF MakeReady
<1>10. CASE UNCHANGED vars
  BY <1>1, <1>2, <1>10 DEF vars
<1> QED
  BY <1>3, <1>4, <1>5, <1>6, <1>7, <1>8, <1>9, <1>10 DEF Next

\* Whatever reports arrive, in whatever order and however many are lost, the
\* rate that recv_ack sets through pps_change_pps stays between one packet per
\* second and the target, in step with the interval that periodic_wait uses.
THEOREM RateStaysInRange == Spec => []RateInRange
<1>1. IInv => RateInRange
  BY DEF IInv
<1> QED
  BY <1>1, InitInv, StepInv, PTL DEF Spec

\* Every full window of reports with drops lowers the rate that recv_ack sets, for
\* every width of unsigned integers, as long as the average is not larger than the
\* rate: only then does the subtraction of pps_change_pps not wrap.
THEOREM DropsSlowDown == Spec => SlowsDown
<1> DEFINE Lowered == RecvAck /\ Ticked(avgdrops) /\ fault' = "none"
                        /\ avgdrops'.average \in 1 .. pps => pps' < pps \/ pps' = 1
<1>1. IInv /\ [Next]_vars => [Lowered]_vars
  <2> SUFFICES ASSUME IInv, Next PROVE Lowered
    OBVIOUS
  <2>1. CASE RecvAck
    BY <2>1, RecvAckRate
  <2>2. CASE ~RecvAck
    BY <2>2
  <2> QED
    BY <2>1, <2>2
<1> QED
  BY <1>1, InitInv, StepInv, PTL DEF Spec, SlowsDown


-----------------------------------------------------------------------------
(* Sums.                                                                     *)

\* g holds the sums of the first elements of s.
PrefixSums(g, s) ==
    /\ g \in [0 .. Len(s) -> Int] /\ g[0] = 0
    /\ \A k \in 1 .. Len(s) : g[k] = g[k - 1] + s[k]

\* A sequence has prefix sums.
LEMMA PrefixSumsExist ==
    ASSUME NEW s \in Seq(Int)
    PROVE  \E g : PrefixSums(g, s)
<1> DEFINE L == Len(s)
           upto(g, n) == /\ g \in [0 .. n -> Int] /\ g[0] = 0
                         /\ \A k \in 1 .. n : g[k] = g[k - 1] + s[k]
           S == {n \in 0 .. L : \E g : upto(g, n)}
<1>1. L \in Nat /\ \A k \in 1 .. L : s[k] \in Int
  BY LenProperties, ElementOfSeq
<1> HIDE DEF L
<1>2. 0 \in S
  <2>1. upto([k \in 0 .. 0 |-> 0], 0)
    OBVIOUS
  <2> HIDE DEF upto
  <2> QED
    BY <1>1, <2>1
<1>3. ASSUME NEW n \in 0 .. L - 1, n \in S PROVE n + 1 \in S
  <2>1. PICK g : upto(g, n)
    BY <1>3
  <2> DEFINE h == [k \in 0 .. n + 1 |-> IF k = n + 1 THEN g[n] + s[n + 1] ELSE g[k]]
  <2>2. n \in Nat /\ n + 1 \in 1 .. L /\ n + 1 \in 0 .. L /\ s[n + 1] \in Int
    BY <1>1
  <2>3. g[n] + s[n + 1] \in Int
    BY <2>1, <2>2
  <2>4. \A k \in 0 .. n + 1 : k # n + 1 => k \in 0 .. n
    BY <2>2
  <2>5. h \in [0 .. n + 1 -> Int]
    BY <2>1, <2>3, <2>4
  <2>6. h[0] = 0
    BY <2>1, <2>2
  <2>7. ASSUME NEW k \in 1 .. n + 1 PROVE h[k] = h[k - 1] + s[k]
    <3>1. CASE k = n + 1
      <4>1. k - 1 = n /\ n \in 0 .. n + 1 /\ n # n + 1 /\ k \in 0 .. n + 1
        BY <2>2, <3>1
      <4> QED
        BY <3>1, <4>1
    <3>2. CASE k # n + 1
      <4>1. k \in 1 .. n /\ k \in 0 .. n + 1 /\ k - 1 \in 0 .. n + 1 /\ k - 1 # n + 1
        BY <2>2, <3>2
      <4>2. h[k] = g[k] /\ h[k - 1] = g[k - 1]
        BY <3>2, <4>1
      <4> HIDE DEF h
      <4> QED
        BY <2>1, <4>1, <4>2
    <3> QED
      BY <3>1, <3>2
  <2> HIDE DEF h
  <2>8. upto(h, n + 1)
    BY <2>5, <2>6, <2>7
  <2> HIDE DEF upto
  <2> QED
    BY <2>2, <2>8
<1>4. \A n \in 0 .. L - 1 : n \in S => n + 1 \in S
  BY <1>3
<1>5. L \in S
  <2> HIDE DEF S
  <2>1. 0 .. L \subseteq S
    BY <1>1, <1>2, <1>4, SetInduction
  <2> QED
    BY <1>1, <2>1
<1>6. \E g : upto(g, L)
  BY <1>5
<1> QED
  BY <1>6 DEF PrefixSums, L

\* SumOf is the last of the prefix sums.
LEMMA SumIsLast ==
    ASSUME NEW s \in Seq(Int), NEW g, PrefixSums(g, s)
    PROVE  SumOf(s) = g[Len(s)] /\ SumOf(s) \in Int
<1> DEFINE L == Len(s)
           sum[n \in 0 .. L] == IF n = 0 THEN 0 ELSE sum[n - 1] + s[n]
<1>1. SumOf(s) = sum[L]
  BY DEF SumOf
<1>2. L \in Nat /\ \A k \in 1 .. L : s[k] \in Int
  BY LenProperties, ElementOfSeq
<1>3. /\ g \in [0 .. L -> Int] /\ g[0] = 0
      /\ \A k \in 1 .. L : g[k] = g[k - 1] + s[k]
  BY DEF PrefixSums
<1> HIDE DEF L
<1>4. g = [n \in 0 .. L |-> IF n = 0 THEN 0 ELSE g[n - 1] + s[n]]
  <2>1. \A n \in 0 .. L : n # 0 => n \in 1 .. L
    BY <1>2
  <2> QED
    BY <1>3, <2>1
<1>5. sum = [n \in 0 .. L |-> IF n = 0 THEN 0 ELSE sum[n - 1] + s[n]]
  BY <1>4, Zenon
<1> HIDE DEF sum
<1> DEFINE S == {k \in 0 .. L : sum[k] = g[k]}
<1>6. 0 \in S
  BY <1>2, <1>3, <1>5
<1>7. ASSUME NEW k \in 0 .. L - 1, k \in S PROVE k + 1 \in S
  <2>1. k + 1 \in 0 .. L /\ k + 1 \in 1 .. L /\ k + 1 # 0 /\ (k + 1) - 1 = k
    BY <1>2
  <2>2. sum[k + 1] = sum[k] + s[k + 1]
    BY <1>5, <2>1
  <2>3. g[k + 1] = g[k] + s[k + 1]
    BY <1>3, <2>1
  <2> QED
    BY <1>7, <2>1, <2>2, <2>3
<1>8. \A k \in 0 .. L - 1 : k \in S => k + 1 \in S
  BY <1>7
<1>9. L \in S
  <2> HIDE DEF S
  <2>1. 0 .. L \subseteq S
    BY <1>2, <1>6, <1>8, SetInduction
  <2> QED
    BY <1>2, <2>1
<1>10. sum[L] = g[L] /\ g[L] \in Int
  BY <1>2, <1>3, <1>9
<1> QED
  BY <1>1, <1>10 DEF L

\* One more element adds itself to the sum.
LEMMA SumAppend ==
    ASSUME NEW s \in Seq(Int), NEW x \in Int
    PROVE  SumOf(Append(s, x)) = SumOf(s) + x
<1> DEFINE L == Len(s)
           a == Append(s, x)
<1>1. /\ a \in Seq(Int) /\ L \in Nat /\ Len(a) = L + 1
      /\ \A k \in 1 .. L : a[k] = s[k]
      /\ a[L + 1] = x
  BY AppendFacts
<1>2. PICK g : PrefixSums(g, s)
  BY PrefixSumsExist
<1>3. /\ g \in [0 .. L -> Int] /\ g[0] = 0
      /\ \A k \in 1 .. L : g[k] = g[k - 1] + s[k]
  BY <1>2 DEF PrefixSums
<1>4. SumOf(s) = g[L]
  BY <1>2, SumIsLast
<1> HIDE DEF L, a
<1> DEFINE h == [k \in 0 .. L + 1 |-> IF k = L + 1 THEN g[L] + x ELSE g[k]]
<1>5. \A k \in 0 .. L + 1 : k # L + 1 => k \in 0 .. L
  BY <1>1
<1>6. g[L] \in Int /\ g[L] + x \in Int
  BY <1>1, <1>3
<1>7. h \in [0 .. L + 1 -> Int] /\ h[0] = 0 /\ h[L + 1] = g[L] + x
  <2>1. 0 \in 0 .. L + 1 /\ 0 # L + 1 /\ L + 1 \in 0 .. L + 1
    BY <1>1
  <2> QED
    BY <1>3, <1>5, <1>6, <2>1
<1>8. ASSUME NEW k \in 1 .. L + 1 PROVE h[k] = h[k - 1] + a[k]
  <2>1. CASE k = L + 1
    <3>1. k - 1 = L /\ L \in 0 .. L + 1 /\ L # L + 1 /\ k \in 0 .. L + 1
      BY <1>1, <2>1
    <3> QED
      BY <1>1, <2>1, <3>1
  <2>2. CASE k # L + 1
    <3>1. k \in 1 .. L /\ k \in 0 .. L + 1 /\ k - 1 \in 0 .. L + 1 /\ k - 1 # L + 1
      BY <1>1, <2>2
    <3>2. h[k] = g[k] /\ h[k - 1] = g[k - 1]
      BY <2>2, <3>1
    <3> HIDE DEF h
    <3> QED
      BY <1>1, <1>3, <3>1, <3>2
  <2> QED
    BY <2>1, <2>2
<1> HIDE DEF h
<1>9. PrefixSums(h, a)
  BY <1>1, <1>7, <1>8 DEF PrefixSums
<1>10. SumOf(a) = h[L + 1]
  BY <1>1, <1>9, SumIsLast
<1> QED
  BY <1>4, <1>7, <1>10 DEF a

\* Without its first element a sequence sums up to that much less.
LEMMA SumTail ==
    ASSUME NEW s \in Seq(Int), Len(s) # 0
    PROVE  SumOf(Tail(s)) = SumOf(s) - s[1]
<1> DEFINE L == Len(s) - 1
           t == Tail(s)
<1>1. L \in Nat /\ Len(s) = L + 1
  BY LenProperties
<1>2. /\ t \in Seq(Int) /\ Len(t) = L
      /\ \A k \in 1 .. L : t[k] = s[k + 1]
  <2>1. s # << >>
    BY NotEmpty, Zenon
  <2> QED
    BY <2>1, HeadTailProperties
<1>3. PICK g : PrefixSums(g, s)
  BY PrefixSumsExist
<1>4. /\ g \in [0 .. L + 1 -> Int] /\ g[0] = 0
      /\ \A k \in 1 .. L + 1 : g[k] = g[k - 1] + s[k]
  BY <1>1, <1>3 DEF PrefixSums
<1>5. SumOf(s) = g[L + 1]
  BY <1>1, <1>3, SumIsLast
<1> HIDE DEF L, t
<1>6. g[1] = s[1] /\ s[1] \in Int
  <2>1. 1 \in 1 .. L + 1 /\ 1 - 1 = 0 /\ 1 \in 1 .. Len(s)
    BY <1>1
  <2>2. s[1] \in Int
    BY <2>1, ElementOfSeq
  <2>3. g[1] = g[0] + s[1]
    BY <1>4, <2>1
  <2> QED
    BY <1>4, <2>2, <2>3
<1> DEFINE h == [k \in 0 .. L |-> g[k + 1] - g[1]]
<1>7. \A k \in 0 .. L : k + 1 \in 0 .. L + 1 /\ g[k + 1] \in Int
  <2> SUFFICES ASSUME NEW k \in 0 .. L PROVE k + 1 \in 0 .. L + 1 /\ g[k + 1] \in Int
    OBVIOUS
  <2>1. k + 1 \in 0 .. L + 1
    BY <1>1
  <2> QED
    BY <1>4, <2>1
<1>8. h \in [0 .. L -> Int]
  BY <1>6, <1>7
<1>9. h[0] = 0 /\ h[L] = g[L + 1] - g[1]
  <2>1. 0 \in 0 .. L /\ L \in 0 .. L /\ 0 + 1 = 1
    BY <1>1
  <2> QED
    BY <1>6, <2>1
<1>10. ASSUME NEW k \in 1 .. L PROVE h[k] = h[k - 1] + t[k]
  <2>1. /\ k \in 0 .. L /\ k - 1 \in 0 .. L /\ (k - 1) + 1 = k
        /\ k + 1 \in 1 .. L + 1 /\ (k + 1) - 1 = k
    BY <1>1
  <2>2. h[k] = g[k + 1] - g[1] /\ h[k - 1] = g[k] - g[1]
    BY <2>1
  <2>3. g[k + 1] = g[k] + s[k + 1] /\ t[k] = s[k + 1]
    BY <1>2, <1>4, <2>1
  <2>4. g[k] \in Int /\ g[k + 1] \in Int /\ s[k + 1] \in Int
    <3>1. k + 1 \in 1 .. Len(s)
      BY <1>1
    <3>2. s[k + 1] \in Int
      BY <3>1, ElementOfSeq
    <3>3. k \in 0 .. L + 1 /\ k + 1 \in 0 .. L + 1
      BY <1>1
    <3> QED
      BY <1>4, <3>2, <3>3
  <2> HIDE DEF h
  <2> QED
    BY <1>6, <2>2, <2>3, <2>4
<1> HIDE DEF h
<1>11. PrefixSums(h, t)
  BY <1>2, <1>8, <1>9, <1>10 DEF PrefixSums
<1>12. SumOf(t) = h[L]
  BY <1>2, <1>11, SumIsLast
<1> QED
  BY <1>5, <1>6, <1>9, <1>12 DEF t

\* Larger elements sum up to no less.
LEMMA SumMonotone ==
    ASSUME NEW s \in Seq(Int), NEW t \in Seq(Int), Len(s) = Len(t),
           \A k \in 1 .. Len(s) : s[k] <= t[k]
    PROVE  SumOf(s) <= SumOf(t)
<1> DEFINE L == Len(s)
<1>1. PICK g : PrefixSums(g, s)
  BY PrefixSumsExist
<1>2. PICK h : PrefixSums(h, t)
  BY PrefixSumsExist
<1>3. /\ L \in Nat /\ g \in [0 .. L -> Int] /\ h \in [0 .. L -> Int] /\ g[0] = 0 /\ h[0] = 0
      /\ \A k \in 1 .. L : g[k] = g[k - 1] + s[k] /\ h[k] = h[k - 1] + t[k]
  BY <1>1, <1>2, LenProperties DEF PrefixSums
<1>4. SumOf(s) = g[L] /\ SumOf(t) = h[L]
  BY <1>1, <1>2, SumIsLast
<1>5. \A k \in 1 .. L : s[k] \in Int /\ t[k] \in Int /\ s[k] <= t[k]
  BY ElementOfSeq
<1> HIDE DEF L
<1> DEFINE S == {k \in 0 .. L : g[k] <= h[k]}
<1>6. 0 \in S
  BY <1>3
<1>7. ASSUME NEW k \in 0 .. L - 1, k \in S PROVE k + 1 \in S
  <2>1. k + 1 \in 0 .. L /\ k + 1 \in 1 .. L /\ (k + 1) - 1 = k /\ k \in 0 .. L
    BY <1>3
  <2>2. g[k + 1] = g[k] + s[k + 1] /\ h[k + 1] = h[k] + t[k + 1]
    BY <1>3, <2>1
  <2>3. g[k] \in Int /\ h[k] \in Int /\ s[k + 1] \in Int /\ t[k + 1] \in Int
    BY <1>3, <1>5, <2>1
  <2>4. g[k] <= h[k] /\ s[k + 1] <= t[k + 1]
    BY <1>5, <1>7, <2>1
  <2>5. g[k + 1] <= h[k + 1]
    BY <2>2, <2>3, <2>4
  <2> QED
    BY <2>1, <2>5
<1>8. \A k \in 0 .. L - 1 : k \in S => k + 1 \in S
  BY <1>7
<1>9. L \in S
  <2> HIDE DEF S
  <2>1. 0 .. L \subseteq S
    BY <1>3, <1>6, <1>8, SetInduction
  <2> QED
    BY <1>3, <2>1
<1> QED
  BY <1>4, <1>9

\* The sum of natural numbers is one, and no less than the first of them.
LEMMA SumNat ==
    ASSUME NEW s \in Seq(Nat)
    PROVE  s \in Seq(Int) /\ SumOf(s) \in Nat /\ (Len(s) # 0 => s[1] <= SumOf(s))
<1>1. s \in Seq(Int) /\ \A k \in 1 .. Len(s) : s[k] \in Nat
  <2>1. Nat \subseteq Int
    OBVIOUS
  <2> QED
    BY <2>1, SeqMonotonic, ElementOfSeq
<1>2. PICK g : PrefixSums(g, s)
  BY <1>1, PrefixSumsExist
<1> DEFINE L == Len(s)
<1>3. /\ L \in Nat /\ g \in [0 .. L -> Int] /\ g[0] = 0
      /\ \A k \in 1 .. L : g[k] = g[k - 1] + s[k]
  BY <1>2, LenProperties DEF PrefixSums
<1>4. SumOf(s) = g[L]
  BY <1>1, <1>2, SumIsLast
<1>5. \A k \in 1 .. L : s[k] \in Nat
  BY <1>1
<1> HIDE DEF L
<1> DEFINE S == {k \in 0 .. L : g[k] \in Nat /\ (k # 0 => s[1] <= g[k])}
<1>6. 0 \in S
  BY <1>3
<1>7. ASSUME NEW k \in 0 .. L - 1, k \in S PROVE k + 1 \in S
  <2>1. /\ k + 1 \in 0 .. L /\ k + 1 \in 1 .. L /\ (k + 1) - 1 = k /\ k \in 0 .. L
        /\ 1 \in 1 .. L
    BY <1>3
  <2>2. g[k + 1] = g[k] + s[k + 1] /\ g[k] \in Nat /\ s[k + 1] \in Nat /\ s[1] \in Nat
    BY <1>3, <1>5, <1>7, <2>1
  <2>3. s[1] <= g[k + 1]
    <3>1. CASE k = 0
      BY <1>3, <2>2, <3>1
    <3>2. CASE k # 0
      BY <1>7, <2>2, <3>2
    <3> QED
      BY <3>1, <3>2
  <2>4. g[k + 1] \in Nat
    BY <2>2
  <2> QED
    BY <2>1, <2>3, <2>4
<1>8. \A k \in 0 .. L - 1 : k \in S => k + 1 \in S
  BY <1>7
<1>9. L \in S
  <2> HIDE DEF S
  <2>1. 0 .. L \subseteq S
    BY <1>3, <1>6, <1>8, SetInduction
  <2> QED
    BY <1>3, <2>1
<1> QED
  BY <1>1, <1>4, <1>9 DEF L

-----------------------------------------------------------------------------
(* The windows.                                                              *)

\* Where the ring keeps the k-th value of the window.
Slot(avg, k) ==
    IF ~avg.ticks THEN k - 1
    ELSE IF avg.index + k - 1 < RunLen THEN avg.index + k - 1
    ELSE avg.index + k - 1 - RunLen

\* A running average holds the window w: the oldest value where the next one goes
\* once the ring is full, and the sum of all of them.
Holds(avg, w) ==
    /\ avg \in [values : [0 .. RunLen - 1 -> Nat], index : 0 .. RunLen - 1,
                total : Nat, ticks : BOOLEAN, average : Int]
    /\ w \in Seq(Nat) /\ Len(w) <= RunLen
    /\ avg.ticks <=> Len(w) = RunLen
    /\ ~avg.ticks => avg.index = Len(w)
    /\ \A k \in 1 .. Len(w) : avg.values[Slot(avg, k)] = w[k]
    /\ avg.total = SumOf(w)
    /\ w # << >> =>
         avg.average = IF SumOf(w) > 0 /\ SumOf(w) \div Len(w) < MinAvg
                       THEN MinAvg ELSE SumOf(w) \div Len(w)

\* A report covers at least one packet and, unless limit() dropped packets, counts
\* no more drops than fit between its ends.
Report == [start : {1}, last : Nat \ {0}, ndrop : Nat]
NoReport == [start : {0}, last : {0}, ndrop : Nat]
Covered(a) == ~limited => a.ndrop <= a.last - a.start

Windows ==
    /\ limited \in BOOLEAN
    /\ ack \in Report \cup NoReport
    /\ Covered(ack)
    /\ acknet \in Seq(Report)
    /\ \A i \in 1 .. Len(acknet) : Covered(acknet[i])
    /\ Holds(avgpps, spans) /\ Holds(avgdrops, drops)
    /\ Len(spans) = Len(drops)
    /\ ~limited => \A k \in 1 .. Len(spans) : drops[k] <= spans[k]
    /\ DivisionNeedsLimit

\* The fields of an average that holds a window.
LEMMA HoldsParts ==
    ASSUME NEW avg, NEW w, Holds(avg, w)
    PROVE  /\ RunLen \in Nat \ {0} /\ avg.index \in 0 .. RunLen - 1
           /\ avg.values \in [0 .. RunLen - 1 -> Nat] /\ avg.total \in Nat
           /\ avg.ticks \in BOOLEAN /\ avg.average \in Int
           /\ w \in Seq(Nat) /\ w \in Seq(Int) /\ Len(w) \in 0 .. RunLen
           /\ \A k \in 1 .. Len(w) : w[k] \in Nat
<1>1. /\ avg \in [values : [0 .. RunLen - 1 -> Nat], index : 0 .. RunLen - 1,
                  total : Nat, ticks : BOOLEAN, average : Int]
      /\ w \in Seq(Nat) /\ Len(w) <= RunLen
  BY DEF Holds
<1>2. RunLen \in Nat \ {0}
  BY RateAssumption
<1>3. Len(w) \in Nat
  BY <1>1, LenProperties
<1>4. Len(w) \in 0 .. RunLen
  BY <1>1, <1>2, <1>3
<1>5. \A k \in 1 .. Len(w) : w[k] \in Nat
  BY <1>1, ElementOfSeq
<1>6. w \in Seq(Int)
  BY <1>1, SumNat
<1>7. /\ avg.index \in 0 .. RunLen - 1
      /\ avg.values \in [0 .. RunLen - 1 -> Nat] /\ avg.total \in Nat
      /\ avg.ticks \in BOOLEAN /\ avg.average \in Int
  BY <1>1
<1> QED
  BY <1>1, <1>2, <1>4, <1>5, <1>6, <1>7

\* runavg_add takes the value into the ring, into the total and into the average,
\* once the oldest value has left all three.
LEMMA RunavgAddHolds ==
    ASSUME NEW avg, NEW w, Holds(avg, w), NEW value \in Nat
    PROVE  Holds(RunavgAdd(avg, value), Window(w, value))
<1> DEFINE L == Len(w)
           i == avg.index
           v == avg.values
           oldest == IF avg.ticks THEN v[i] ELSE 0
           total == avg.total - oldest + value
           ticked == i + 1 = RunLen
           full == avg.ticks \/ ticked
           next == IF ticked THEN 0 ELSE i + 1
           len == IF full THEN RunLen ELSE i + 1
           mean == total \div len
           new == RunavgAdd(avg, value)
           x == Window(w, value)
<1>1. /\ RunLen \in Nat \ {0} /\ i \in 0 .. RunLen - 1 /\ v \in [0 .. RunLen - 1 -> Nat]
      /\ avg.total \in Nat /\ avg.ticks \in BOOLEAN /\ L \in 0 .. RunLen
      /\ w \in Seq(Nat) /\ w \in Seq(Int)
      /\ \A k \in 1 .. L : w[k] \in Nat
  BY HoldsParts
<1>2. /\ avg.ticks <=> L = RunLen
      /\ ~avg.ticks => i = L
      /\ \A k \in 1 .. L : v[Slot(avg, k)] = w[k]
      /\ avg.total = SumOf(w)
  BY DEF Holds
<1>3. new = [values |-> [v EXCEPT ![i] = value], index |-> next, total |-> total,
             ticks |-> full,
             average |-> IF total # 0 /\ mean < MinAvg THEN MinAvg ELSE mean]
  BY Zenon DEF RunavgAdd
<1>4. Len(x) = len /\ x \in Seq(Nat) /\ total = SumOf(x) /\ full = (len = RunLen)
  <2>1. value \in Int
    OBVIOUS
  <2>2. CASE L = RunLen
    <3>1. x = Tail(Append(w, value))
      <4>1. Len(Append(w, value)) = L + 1
        BY <1>1, AppendFacts
      <4>2. L + 1 > RunLen
        BY <1>1, <2>2
      <4> QED
        BY <4>1, <4>2 DEF Window
    <3>2. L # 0 /\ L \in Nat
      BY <1>1, <2>2
    <3>3. x \in Seq(Nat) /\ Len(x) = L
      <4>1. w \in Seq(Nat) /\ value \in Nat /\ Len(w) # 0
        BY <1>1, <3>2
      <4>2. Tail(Append(w, value)) \in Seq(Nat) /\ Len(Tail(Append(w, value))) = Len(w)
        BY <4>1, SlideFacts
      <4> QED
        BY <3>1, <4>2
    <3>4. SumOf(x) = SumOf(w) - w[1] + value
      <4> DEFINE a == Append(w, value)
      <4>1. a \in Seq(Int) /\ Len(a) = L + 1 /\ \A k \in 1 .. L : a[k] = w[k]
        BY <1>1, <2>1, AppendFacts
      <4>2. Len(a) # 0 /\ a[1] = w[1]
        BY <3>2, <4>1
      <4>3. SumOf(a) = SumOf(w) + value
        BY <1>1, <2>1, SumAppend
      <4> HIDE DEF a
      <4>4. SumOf(Tail(a)) = SumOf(a) - a[1]
        BY <4>1, <4>2, SumTail
      <4>5. w[1] \in Nat /\ SumOf(w) \in Nat
        BY <1>1, <1>2, <3>2
      <4> QED
        BY <3>1, <4>2, <4>3, <4>4, <4>5 DEF a
    <3>5. v[i] = w[1]
      <4>1. 1 \in 1 .. L
        BY <1>1, <3>2
      <4>2. Slot(avg, 1) = i
        BY <1>1, <1>2, <2>2 DEF Slot
      <4> QED
        BY <1>2, <4>1, <4>2
    <3>6. avg.ticks /\ full /\ len = RunLen
      BY <1>2, <2>2
    <3>7. total = SumOf(x)
      BY <1>2, <3>4, <3>5, <3>6
    <3> HIDE DEF x, total, full, len
    <3> QED
      BY <2>2, <3>3, <3>6, <3>7
  <2>3. CASE L # RunLen
    <3>1. x = Append(w, value) /\ Len(x) = L + 1 /\ x \in Seq(Nat)
      <4>1. Append(w, value) \in Seq(Nat) /\ Len(Append(w, value)) = L + 1
        BY <1>1, AppendFacts
      <4>2. ~(L + 1 > RunLen)
        BY <1>1, <2>3
      <4> QED
        BY <4>1, <4>2 DEF Window
    <3>2. SumOf(x) = SumOf(w) + value
      BY <1>1, <2>1, <3>1, SumAppend
    <3>3. ~avg.ticks /\ i = L /\ oldest = 0
      BY <1>2, <2>3
    <3>4. total = SumOf(x)
      BY <1>1, <1>2, <3>2, <3>3
    <3>5. len = L + 1 /\ full = (len = RunLen)
      BY <1>1, <3>3
    <3> HIDE DEF x, total, full, len
    <3> QED
      BY <3>1, <3>4, <3>5
  <2> QED
    BY <2>2, <2>3
<1>5. total \in Nat
  BY <1>4, SumNat
<1>6. len \in 1 .. RunLen
  BY <1>1
<1>7. mean \in Int
  <2> HIDE DEF total, len
  <2> QED
    BY <1>5, <1>6
<1>8. MinAvg \in Nat
  BY RateAssumption
<1>9. new \in [values : [0 .. RunLen - 1 -> Nat], index : 0 .. RunLen - 1,
               total : Nat, ticks : BOOLEAN, average : Int]
  <2>1. [v EXCEPT ![i] = value] \in [0 .. RunLen - 1 -> Nat]
    BY <1>1
  <2>2. next \in 0 .. RunLen - 1
    BY <1>1
  <2>3. full \in BOOLEAN
    BY <1>1
  <2>4. (IF total # 0 /\ mean < MinAvg THEN MinAvg ELSE mean) \in Int
    BY <1>7, <1>8
  <2> HIDE DEF new, total, full, mean, next
  <2> QED
    BY <1>3, <1>5, <2>1, <2>2, <2>3, <2>4
<1>10. new.average = IF SumOf(x) > 0 /\ SumOf(x) \div Len(x) < MinAvg
                     THEN MinAvg ELSE SumOf(x) \div Len(x)
  <2>1. new.average = IF total # 0 /\ total \div len < MinAvg THEN MinAvg ELSE total \div len
    <3> HIDE DEF new, total, len, full, next
    <3> QED
      BY <1>3
  <2> HIDE DEF total, len, new, x
  <2> QED
    BY <1>4, <1>5, <2>1
<1>11. \A k \in 1 .. Len(x) : new.values[Slot(new, k)] = x[k]
  <2> SUFFICES ASSUME NEW k \in 1 .. len PROVE new.values[Slot(new, k)] = x[k]
    BY <1>4
  <2>1. /\ new.values = [v EXCEPT ![i] = value] /\ new.index = next /\ new.ticks = full
    <3> HIDE DEF new, total, mean, full, next
    <3> QED
      BY <1>3
  <2>2. CASE L = RunLen
    <3>1. x = Tail(Append(w, value)) /\ L # 0
      <4>1. Len(Append(w, value)) = L + 1
        BY <1>1, AppendFacts
      <4>2. L + 1 > RunLen /\ L # 0
        BY <1>1, <2>2
      <4> QED
        BY <4>1, <4>2 DEF Window
    <3>2. (\A j \in 1 .. L - 1 : x[j] = w[j + 1]) /\ x[L] = value
      BY <1>1, <3>1, SlideFacts
    <3>3. avg.ticks /\ full /\ len = L /\ len = RunLen
      BY <1>2, <2>2
    <3> DEFINE slot(j) == IF i + j - 1 < RunLen THEN i + j - 1 ELSE i + j - 1 - RunLen
    <3>4. \A j \in 1 .. L : Slot(avg, j) = slot(j)
      BY <3>3 DEF Slot
    <3>5. Slot(new, k) = IF next + k - 1 < RunLen THEN next + k - 1 ELSE next + k - 1 - RunLen
      <4> HIDE DEF new, next, full
      <4> QED
        BY <2>1, <3>3 DEF Slot
    <3> HIDE DEF new, x, L, i, len
    <3>6. CASE k = L
      <4>1. Slot(new, k) = i
        BY <1>1, <2>2, <3>5, <3>6
      <4> QED
        BY <1>1, <2>1, <3>2, <3>6, <4>1
    <3>7. CASE k # L
      <4>1. k \in 1 .. L - 1 /\ k + 1 \in 1 .. L
        BY <1>1, <3>3, <3>7
      <4>2. Slot(new, k) = slot(k + 1) /\ slot(k + 1) # i /\ slot(k + 1) \in 0 .. RunLen - 1
        BY <1>1, <2>2, <3>5, <4>1
      <4>3. v[slot(k + 1)] = w[k + 1]
        BY <1>2, <3>4, <4>1
      <4> HIDE DEF slot
      <4> QED
        BY <1>1, <2>1, <3>2, <4>1, <4>2, <4>3
    <3> QED
      BY <3>6, <3>7
  <2>3. CASE L # RunLen
    <3>1. /\ \A j \in 1 .. L : x[j] = w[j]
          /\ x[L + 1] = value
      <4>1. /\ Len(Append(w, value)) = L + 1 /\ Append(w, value)[L + 1] = value
            /\ \A j \in 1 .. L : Append(w, value)[j] = w[j]
        BY <1>1, AppendFacts
      <4>2. ~(L + 1 > RunLen)
        BY <1>1, <2>3
      <4>3. x = Append(w, value)
        BY <4>1, <4>2 DEF Window
      <4> HIDE DEF x
      <4> QED
        BY <4>1, <4>3
    <3>2. ~avg.ticks /\ i = L /\ len = L + 1
      BY <1>1, <1>2, <2>3
    <3>3. Slot(new, k) = k - 1
      <4>1. CASE full
        <5>1. next = 0 /\ L + 1 = RunLen
          BY <3>2, <4>1
        <5>2. Slot(new, k) = IF 0 + k - 1 < RunLen THEN 0 + k - 1 ELSE 0 + k - 1 - RunLen
          <6> HIDE DEF new, next, full
          <6> QED
            BY <2>1, <4>1, <5>1 DEF Slot
        <5> HIDE DEF new, L, i, len
        <5> QED
          BY <1>1, <3>2, <5>1, <5>2
      <4>2. CASE ~full
        <5> HIDE DEF new, next, full
        <5> QED
          BY <2>1, <4>2 DEF Slot
      <4> QED
        BY <4>1, <4>2
    <3>4. \A j \in 1 .. L : v[j - 1] = w[j]
      <4>1. \A j \in 1 .. L : Slot(avg, j) = j - 1
        BY <3>2 DEF Slot
      <4> QED
        BY <1>2, <4>1
    <3> HIDE DEF new, x, L, i, len
    <3>5. CASE k = L + 1
      <4>1. k - 1 = i
        BY <1>1, <3>2, <3>5
      <4> QED
        BY <1>1, <2>1, <3>1, <3>3, <3>5, <4>1
    <3>6. CASE k # L + 1
      <4>1. k \in 1 .. L /\ k - 1 # i /\ k - 1 \in 0 .. RunLen - 1
        BY <1>1, <3>2, <3>6
      <4> QED
        BY <1>1, <2>1, <3>1, <3>3, <3>4, <4>1, SMTT(30)
    <3> QED
      BY <3>5, <3>6
  <2> QED
    BY <2>2, <2>3
<1>12. /\ Len(x) <= RunLen
       /\ new.ticks <=> Len(x) = RunLen
       /\ ~new.ticks => new.index = Len(x)
       /\ new.total = SumOf(x)
  <2>1. new.ticks = full /\ new.index = next /\ new.total = total
    <3> HIDE DEF new, total, mean, full, next
    <3> QED
      BY <1>3
  <2>2. ~full => next = len
    OBVIOUS
  <2> HIDE DEF new, total, full, next, len, x
  <2>3. Len(x) <= RunLen
    BY <1>1, <1>4, <1>6
  <2>4. new.ticks <=> Len(x) = RunLen
    BY <1>4, <2>1, Zenon
  <2>5. ~new.ticks => new.index = Len(x)
    BY <1>4, <2>1, <2>2, Zenon
  <2> QED
    BY <1>4, <2>1, <2>3, <2>4, <2>5
<1> HIDE DEF new, x
<1> QED
  BY <1>4, <1>9, <1>10, <1>11, <1>12 DEF Holds, new, x

\* An average that holds a window is 0 only if the window sums up to 0.
LEMMA AverageZero ==
    ASSUME NEW avg, NEW w, Holds(avg, w), Len(w) # 0
    PROVE  SumOf(w) \in Nat /\ (avg.average = 0 <=> SumOf(w) = 0)
<1>1. /\ w \in Seq(Nat) /\ Len(w) \in Nat
      /\ avg.average = IF SumOf(w) > 0 /\ SumOf(w) \div Len(w) < MinAvg
                       THEN MinAvg ELSE SumOf(w) \div Len(w)
  <2>1. w # << >>
    BY NotEmpty, Zenon
  <2> QED
    BY <2>1, HoldsParts DEF Holds
<1>2. SumOf(w) \in Nat
  BY <1>1, SumNat
<1>3. MinAvg \in Nat \ {0}
  BY RateAssumption
<1> DEFINE m == SumOf(w) \div Len(w)
<1>4. m \in Nat /\ (SumOf(w) = 0 => m = 0)
  BY <1>1, <1>2
<1> HIDE DEF m
<1> QED
  BY <1>1, <1>2, <1>3, <1>4 DEF m

LEMMA WindowsInit == Init => Windows
<1> SUFFICES ASSUME Init PROVE Windows
  OBVIOUS
<1>1. RunLen \in Nat \ {0}
  BY RateAssumption
<1>2. SumOf(<< >>) = 0
  <2>1. << >> \in Seq(Int) /\ Len(<< >>) = 0
    BY EmptySeq
  <2>2. PrefixSums([k \in 0 .. 0 |-> 0], << >>)
    BY <2>1 DEF PrefixSums
  <2>3. SumOf(<< >>) = [k \in 0 .. 0 |-> 0][Len(<< >>)]
    BY <2>1, <2>2, SumIsLast
  <2> QED
    BY <2>1, <2>3
<1>3. Holds(NewAvg, << >>)
  <2>1. << >> \in Seq(Nat) /\ Len(<< >>) = 0
    BY EmptySeq
  <2>2. NewAvg \in [values : [0 .. RunLen - 1 -> Nat], index : 0 .. RunLen - 1,
                    total : Nat, ticks : BOOLEAN, average : Int]
    BY <1>1 DEF NewAvg
  <2>3. NewAvg.ticks = FALSE /\ NewAvg.index = 0 /\ NewAvg.total = 0
    BY DEF NewAvg
  <2> QED
    BY <1>1, <1>2, <2>1, <2>2, <2>3 DEF Holds
<1>4. avgpps = NewAvg /\ avgdrops = NewAvg /\ spans = << >> /\ drops = << >>
  BY DEF Init
<1>5. ack \in NoReport /\ Covered(ack)
  BY DEF Init, NoAck, NoReport, Covered
<1>6. acknet \in Seq(Report) /\ Len(acknet) = 0
  BY EmptySeq DEF Init
<1>7. Len(spans) = 0 /\ Len(drops) = 0
  BY <1>4, EmptySeq
<1>8. limited \in BOOLEAN /\ DivisionNeedsLimit
  BY DEF Init, DivisionNeedsLimit
<1>9. Holds(avgpps, spans) /\ Holds(avgdrops, drops)
  BY <1>3, <1>4, Zenon
<1>10. /\ \A i \in 1 .. Len(acknet) : Covered(acknet[i])
       /\ \A k \in 1 .. Len(spans) : drops[k] <= spans[k]
  <2>1. 1 .. 0 = {}
    OBVIOUS
  <2> QED
    BY <1>6, <1>7, <2>1
<1>11. Len(spans) = Len(drops)
  BY <1>7
<1> QED
  BY <1>5, <1>6, <1>8, <1>9, <1>10, <1>11, Zenon DEF Windows

\* recv_ack divides by zero only if limit() dropped packets: without it, a window
\* of reports that cover one packet each has no drops either.
LEMMA RecvAckWindows ==
    ASSUME Windows, RecvAck
    PROVE  Windows'
<1> DEFINE a == Head(acknet)
           span == a.last - a.start
<1>1. /\ acknet # << >> /\ acknet' = Tail(acknet) /\ ack' = ack /\ limited' = limited
      /\ avgpps' = RunavgAdd(avgpps, span) /\ avgdrops' = RunavgAdd(avgdrops, a.ndrop)
      /\ spans' = Window(spans, span) /\ drops' = Window(drops, a.ndrop)
      /\ fault = "none"
      /\ fault' = fault \/ (avgdrops'.average # 0 /\ avgpps'.average = 0)
  BY DEF RecvAck
<1>2. /\ limited \in BOOLEAN /\ ack \in Report \cup NoReport /\ Covered(ack)
      /\ acknet \in Seq(Report)
      /\ \A i \in 1 .. Len(acknet) : Covered(acknet[i])
      /\ Holds(avgpps, spans) /\ Holds(avgdrops, drops)
      /\ Len(spans) = Len(drops)
      /\ ~limited => \A k \in 1 .. Len(spans) : drops[k] <= spans[k]
  BY DEF Windows
<1>3. /\ a \in Report /\ a = acknet[1] /\ Len(acknet) \in Nat \ {0}
      /\ Tail(acknet) \in Seq(Report) /\ Len(Tail(acknet)) = Len(acknet) - 1
      /\ \A i \in 1 .. Len(Tail(acknet)) : Tail(acknet)[i] = acknet[i + 1]
  <2>1. Len(acknet) \in Nat \ {0}
    BY <1>1, <1>2, EmptySeq
  <2> QED
    BY <1>1, <1>2, <2>1, HeadTailProperties
<1>4. span \in Nat /\ a.ndrop \in Nat /\ (~limited => a.ndrop <= span)
  <2>1. Covered(a)
    BY <1>2, <1>3
  <2> HIDE DEF a
  <2> QED
    BY <1>3, <2>1 DEF Report, Covered
<1>5. \A i \in 1 .. Len(Tail(acknet)) : Covered(Tail(acknet)[i])
  <2> SUFFICES ASSUME NEW i \in 1 .. Len(Tail(acknet)) PROVE Covered(Tail(acknet)[i])
    OBVIOUS
  <2>1. i + 1 \in 1 .. Len(acknet)
    BY <1>3
  <2> QED
    BY <1>2, <1>3, <2>1
<1>6. Holds(avgpps', spans') /\ Holds(avgdrops', drops')
  <2> HIDE DEF a, span
  <2> QED
    BY <1>1, <1>2, <1>4, RunavgAddHolds
<1> DEFINE L == Len(spans)
           s == Append(spans, span)
           d == Append(drops, a.ndrop)
<1>7. /\ spans \in Seq(Nat) /\ drops \in Seq(Nat) /\ L \in 0 .. RunLen /\ RunLen \in Nat \ {0}
      /\ \A k \in 1 .. L : spans[k] \in Nat /\ drops[k] \in Nat
  BY <1>2, HoldsParts
<1> HIDE DEF span, a
<1>8. /\ Len(s) = L + 1 /\ s[L + 1] = span /\ \A k \in 1 .. L : s[k] = spans[k]
      /\ Len(d) = L + 1 /\ d[L + 1] = a.ndrop /\ \A k \in 1 .. L : d[k] = drops[k]
      /\ s \in Seq(Nat) /\ d \in Seq(Nat)
  BY <1>2, <1>4, <1>7, AppendFacts
<1>9. /\ Len(spans') = Len(drops') /\ Len(spans') # 0
      /\ ~limited => \A k \in 1 .. Len(spans') : drops'[k] <= spans'[k]
  <2>1. ~limited => \A k \in 1 .. L + 1 : d[k] <= s[k]
    <3> SUFFICES ASSUME ~limited, NEW k \in 1 .. L + 1 PROVE d[k] <= s[k]
      OBVIOUS
    <3> HIDE DEF s, d, L
    <3>1. CASE k = L + 1
      BY <1>4, <1>8, <3>1
    <3>2. CASE k # L + 1
      <4>1. k \in 1 .. L
        BY <1>7, <3>2
      <4> QED
        BY <1>2, <1>8, <4>1 DEF L
    <3> QED
      BY <3>1, <3>2
  <2>2. CASE L = RunLen
    <3>1. spans' = Tail(s) /\ drops' = Tail(d)
      <4>1. L + 1 > RunLen
        BY <1>7, <2>2
      <4> QED
        BY <1>1, <1>8, <4>1 DEF Window
    <3>2. /\ Len(Tail(s)) = L /\ \A k \in 1 .. L : Tail(s)[k] = s[k + 1]
          /\ Len(Tail(d)) = L /\ \A k \in 1 .. L : Tail(d)[k] = d[k + 1]
      <4>1. Len(s) # 0 /\ Len(d) # 0 /\ Len(s) - 1 = L /\ Len(d) - 1 = L
        BY <1>7, <1>8
      <4>2. s # << >> /\ d # << >>
        BY <4>1, NotEmpty, Zenon
      <4> HIDE DEF s, d, L
      <4>3. /\ Len(Tail(s)) = L /\ \A k \in 1 .. Len(Tail(s)) : Tail(s)[k] = s[k + 1]
        BY <1>8, <4>1, <4>2, HeadTailProperties
      <4>4. /\ Len(Tail(d)) = L /\ \A k \in 1 .. Len(Tail(d)) : Tail(d)[k] = d[k + 1]
        BY <1>8, <4>1, <4>2, HeadTailProperties
      <4> QED
        BY <4>3, <4>4
    <3>3. \A k \in 1 .. L : k + 1 \in 1 .. L + 1
      BY <1>7
    <3>4. L # 0
      BY <1>7, <2>2
    <3> HIDE DEF s, d, L
    <3> QED
      BY <2>1, <3>1, <3>2, <3>3, <3>4
  <2>3. CASE L # RunLen
    <3>1. spans' = s /\ drops' = d
      <4>1. ~(L + 1 > RunLen)
        BY <1>7, <2>3
      <4> QED
        BY <1>1, <1>8, <4>1 DEF Window
    <3>2. L + 1 # 0
      BY <1>7
    <3> HIDE DEF s, d, L
    <3> QED
      BY <1>8, <2>1, <3>1, <3>2
  <2> QED
    BY <2>2, <2>3
<1>10. DivisionNeedsLimit'
  <2> SUFFICES ASSUME fault' = "div" PROVE limited /\ SumOf(spans') = 0
    BY <1>1 DEF DivisionNeedsLimit
  <2>1. avgdrops'.average # 0 /\ avgpps'.average = 0
    BY <1>1
  <2>2. SumOf(spans') = 0 /\ SumOf(drops') # 0 /\ SumOf(drops') \in Nat
    BY <1>6, <1>9, <2>1, AverageZero
  <2>3. limited
    <3> SUFFICES ASSUME ~limited PROVE FALSE
      BY <1>2
    <3>1. spans' \in Seq(Int) /\ drops' \in Seq(Int)
      BY <1>6, HoldsParts
    <3>2. SumOf(drops') <= SumOf(spans')
      BY <1>9, <3>1, SumMonotone
    <3> QED
      BY <2>2, <3>2
  <2> QED
    BY <2>2, <2>3
<1>11. Covered(ack)' /\ \A i \in 1 .. Len(acknet') : Covered(acknet[i])'
  BY <1>1, <1>2, <1>5 DEF Covered
<1> QED
  BY <1>1, <1>2, <1>3, <1>6, <1>9, <1>10, <1>11 DEF Windows

LEMMA WindowsStep == Windows /\ [Next]_vars => Windows'
<1> SUFFICES ASSUME Windows, [Next]_vars PROVE Windows'
  OBVIOUS
<1>1. /\ limited \in BOOLEAN /\ ack \in Report \cup NoReport /\ Covered(ack)
      /\ acknet \in Seq(Report)
      /\ \A i \in 1 .. Len(acknet) : Covered(acknet[i])
      /\ DivisionNeedsLimit
  BY DEF Windows
\* What is left to show when the sender is not involved.
<1>2. ASSUME UNCHANGED sender, limited' \in BOOLEAN, limited => limited',
             ack' \in Report \cup NoReport, Covered(ack)',
             acknet' \in Seq(Report), \A i \in 1 .. Len(acknet') : Covered(acknet[i])'
      PROVE  Windows'
  <2>1. /\ avgpps' = avgpps /\ avgdrops' = avgdrops /\ spans' = spans /\ drops' = drops
        /\ fault' = fault
    BY <1>2 DEF sender
  <2>2. ~limited' => \A k \in 1 .. Len(spans') : drops'[k] <= spans'[k]
    BY <1>2, <2>1 DEF Windows
  <2>3. DivisionNeedsLimit'
    BY <1>1, <1>2, <2>1 DEF DivisionNeedsLimit
  <2> QED
    BY <1>2, <2>1, <2>2, <2>3 DEF Windows
<1>3. ASSUME acknet' = acknet, limited => limited', limited' \in BOOLEAN
      PROVE  acknet' \in Seq(Report) /\ \A i \in 1 .. Len(acknet') : Covered(acknet[i])'
  BY <1>1, <1>3 DEF Covered
<1>4. CASE TakeOuter
  <2>1. PICK gap \in 0 .. MaxSpan :
          /\ IF ack.last = 0
             THEN gap = 0 /\ ack' = [ack EXCEPT !.start = 1, !.last = 1]
             ELSE /\ ack.last + gap < MaxSpan
                  /\ ack' = [ack EXCEPT !.ndrop = @ + gap, !.last = @ + gap + 1]
          /\ UNCHANGED <<acknet, limited, sender>>
    BY <1>4 DEF TakeOuter
  <2>2. gap \in Nat
    BY RateAssumption
  <2>3. ack' \in Report /\ Covered(ack)'
    <3>1. CASE ack \in NoReport
      <4>1. ack.last = 0 /\ ack.start = 0 /\ ack.ndrop \in Nat
        BY <3>1 DEF NoReport
      <4>2. ack' = [start |-> 1, last |-> 1, ndrop |-> ack.ndrop]
        BY <2>1, <3>1, <4>1 DEF NoReport
      <4> QED
        BY <1>1, <2>1, <4>1, <4>2 DEF Report, Covered
    <3>2. CASE ack \in Report
      <4>1. ack.last \in Nat \ {0} /\ ack.start = 1 /\ ack.ndrop \in Nat
        BY <3>2 DEF Report
      <4>2. ack' = [start |-> 1, last |-> ack.last + gap + 1, ndrop |-> ack.ndrop + gap]
        BY <2>1, <3>2, <4>1 DEF Report
      <4> QED
        BY <1>1, <2>1, <2>2, <4>1, <4>2, SMTT(30) DEF Report, Covered
    <3> QED
      BY <1>1, <3>1, <3>2
  <2> QED
    BY <1>1, <1>2, <1>3, <2>1, <2>3
<1>5. CASE Limited
  <2>1. ack' = [ack EXCEPT !.ndrop = @ + 1] /\ limited' = TRUE /\ UNCHANGED <<acknet, sender>>
    BY <1>5 DEF Limited
  <2>2. ack' \in Report \cup NoReport
    <3>1. ack' = [start |-> ack.start, last |-> ack.last, ndrop |-> ack.ndrop + 1]
      BY <1>1, <2>1 DEF Report, NoReport
    <3>2. CASE ack \in Report
      BY <3>1, <3>2 DEF Report
    <3>3. CASE ack \in NoReport
      BY <3>1, <3>3 DEF NoReport
    <3> QED
      BY <1>1, <3>2, <3>3
  <2>3. Covered(ack)'
    BY <2>1 DEF Covered
  <2> QED
    BY <1>1, <1>2, <1>3, <2>1, <2>2, <2>3
<1>6. CASE SendAck
  <2> DEFINE report == [ack EXCEPT !.ndrop = IF @ > NdropMax THEN NdropMax ELSE @]
  <2>1. /\ ack.start # 0 /\ acknet' = Append(acknet, report) /\ ack' = NoAck
        /\ limited' = limited /\ UNCHANGED sender
    BY <1>6 DEF SendAck
  <2>2. ack \in Report /\ ack.ndrop \in Nat /\ NdropMax \in Nat
    BY <1>1, <2>1, RateAssumption DEF Report, NoReport
  <2>3. report \in Report /\ Covered(report)
    <3>1. /\ report.start = ack.start /\ report.last = ack.last
          /\ report.ndrop \in Nat /\ report.ndrop <= ack.ndrop
          /\ report \in Report
      BY <2>2 DEF Report
    <3> HIDE DEF report
    <3> QED
      BY <1>1, <2>2, <3>1 DEF Report, Covered
  <2> HIDE DEF report
  <2>4. /\ acknet' \in Seq(Report) /\ Len(acknet) \in Nat /\ Len(acknet') = Len(acknet) + 1
        /\ \A i \in 1 .. Len(acknet) : acknet'[i] = acknet[i]
        /\ acknet'[Len(acknet) + 1] = report
    BY <1>1, <2>1, <2>3, AppendFacts
  <2>5. \A i \in 1 .. Len(acknet') : Covered(acknet'[i])
    <3> SUFFICES ASSUME NEW i \in 1 .. Len(acknet') PROVE Covered(acknet'[i])
      OBVIOUS
    <3>1. i \in 1 .. Len(acknet) \/ i = Len(acknet) + 1
      BY <2>4
    <3> QED
      BY <1>1, <2>3, <2>4, <3>1
  <2>6. ack' \in NoReport /\ Covered(ack)'
    BY <2>1 DEF NoReport, NoAck, Covered
  <2> QED
    BY <1>1, <1>2, <2>1, <2>4, <2>5, <2>6 DEF Covered
<1>7. ASSUME acknet # << >>, acknet' = Tail(acknet), ack' = ack, limited' = limited
      PROVE  /\ acknet' \in Seq(Report)
             /\ \A i \in 1 .. Len(acknet') : Covered(acknet[i])'
             /\ Covered(ack)'
  <2>1. /\ acknet' \in Seq(Report) /\ Len(acknet') = Len(acknet) - 1
        /\ \A i \in 1 .. Len(acknet') : acknet'[i] = acknet[i + 1]
    BY <1>1, <1>7, HeadTailProperties
  <2>2. Len(acknet) \in Nat
    BY <1>1, LenProperties
  <2>3. \A i \in 1 .. Len(acknet') : i + 1 \in 1 .. Len(acknet)
    BY <2>1, <2>2
  <2> QED
    BY <1>1, <1>7, <2>1, <2>3 DEF Covered
<1>8. CASE LoseAck
  BY <1>1, <1>2, <1>7, <1>8 DEF LoseAck
<1>9. CASE RecvAckEarly
  <2>1. /\ acknet' \in Seq(Report)
        /\ \A i \in 1 .. Len(acknet') : Covered(acknet[i])'
        /\ Covered(ack)'
    BY <1>7, <1>9 DEF RecvAckEarly
  <2> QED
    BY <1>1, <1>9, <2>1 DEF RecvAckEarly, Windows, DivisionNeedsLimit
<1>10. CASE RecvAck
  BY <1>10, RecvAckWindows
<1>11. CASE MakeReady
  BY <1>11 DEF MakeReady, Windows, DivisionNeedsLimit, Covered
<1>12. CASE UNCHANGED vars
  BY <1>12 DEF vars, Windows, DivisionNeedsLimit, Covered
<1> QED
  BY <1>4, <1>5, <1>6, <1>8, <1>9, <1>10, <1>11, <1>12 DEF Next

LEMMA WindowInvariance == Spec => []Windows
BY WindowsInit, WindowsStep, PTL DEF Spec

\* For every window length, the totals and averages of runavg_add are those of
\* exactly the last reports, also after the ring has wrapped.
THEOREM WindowsAreExact == Spec => []WindowExact
<1>1. Windows => WindowExact
  <2> SUFFICES ASSUME Windows,
                      NEW pair \in {<<avgpps, spans>>, <<avgdrops, drops>>}
               PROVE  LET avg == pair[1]
                          window == pair[2]
                          mean == SumOf(window) \div Len(window)
                      IN  /\ avg.total = SumOf(window)
                          /\ window # << >> =>
                               avg.average = IF SumOf(window) > 0 /\ mean < MinAvg
                                             THEN MinAvg ELSE mean
    BY Zenon DEF WindowExact
  <2>1. Holds(pair[1], pair[2])
    BY DEF Windows
  <2> QED
    BY <2>1 DEF Holds
<1> QED
  BY <1>1, WindowInvariance, PTL

\* recv_ack divides by zero only after limit() dropped packets and when every
\* report of the window covers a single packet.
THEOREM DivisionByZero == Spec => []DivisionNeedsLimit
<1>1. Windows => DivisionNeedsLimit
  BY DEF Windows
<1> QED
  BY <1>1, WindowInvariance, PTL
=============================================================================
