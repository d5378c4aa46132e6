--------------------------- MODULE Timers_proofs ----------------------------
(* Proofs about Timers, for any length of a second and any integer widths    *)
(* that stand to each other as 10^9, 2^32 and 2^64 do.                       *)
EXTENDS Timers, CommonLemmas

\* The constants as numbers, and the seconds clock_delta reaches.
LEMMA ClockConstants ==
    /\ NsecsInSec \in Nat \ {0} /\ UintMod \in Nat \ {0} /\ Uint64Mod \in Int
    /\ 3 * NsecsInSec < UintMod /\ UintMod + NsecsInSec < Uint64Mod
    /\ MaxTime \in Nat /\ UintMod + MaxTime < Uint64Mod /\ NsecsInSec <= MaxTime
    /\ Period \in 1 .. NsecsInSec /\ Ivals \subseteq 1 .. NsecsInSec
BY ClockAssumption

\* struct timespec: whole seconds and a rest of less than a second.
LEMMA TimespecParts ==
    ASSUME NEW t \in Nat
    PROVE  /\ Timespec(t).sec \in Nat /\ Timespec(t).nsec \in 0 .. NsecsInSec - 1
           /\ t = Timespec(t).sec * NsecsInSec + Timespec(t).nsec
<1>1. NsecsInSec \in Nat \ {0}
  BY ClockAssumption
<1> QED
  BY <1>1, DivMod DEF Timespec

\* Reach is a number of whole seconds, at least one, that fits into a uint.
LEMMA ReachFacts ==
    /\ Reach \in Nat /\ NsecsInSec <= Reach /\ Reach < UintMod
    /\ \A k \in Nat : k * NsecsInSec < Reach + NsecsInSec => k * NsecsInSec < UintMod
<1> DEFINE q == (UintMod - 1) \div NsecsInSec
           r == (UintMod - 1) % NsecsInSec
<1>1. /\ NsecsInSec \in Nat \ {0} /\ UintMod \in Nat /\ UintMod - 1 \in Nat
      /\ 3 * NsecsInSec < UintMod
  BY ClockConstants
<1>2. q \in Nat /\ r \in 0 .. NsecsInSec - 1 /\ UintMod - 1 = q * NsecsInSec + r
  BY <1>1, DivMod
<1>3. Reach = q * NsecsInSec
  BY DEF Reach
<1> HIDE DEF q, r
<1>4. q # 0
  <2> SUFFICES ASSUME q = 0 PROVE FALSE
    OBVIOUS
  <2>1. q * NsecsInSec = 0
    BY <1>1
  <2> QED
    BY <1>1, <1>2, <2>1
<1>5. 1 * NsecsInSec <= q * NsecsInSec
  BY <1>1, <1>2, <1>4
<1>6. ASSUME NEW k \in Nat, k * NsecsInSec < Reach + NsecsInSec
      PROVE  k * NsecsInSec < UintMod
  <2>1. k * NsecsInSec < (q + 1) * NsecsInSec
    BY <1>1, <1>2, <1>3, <1>6
  <2>2. k < q + 1
    BY <1>1, <1>2, <2>1
  <2>3. k * NsecsInSec <= q * NsecsInSec
    BY <1>1, <1>2, <2>2
  <2>4. k * NsecsInSec \in Nat /\ q * NsecsInSec \in Nat
    BY <1>1, <1>2
  <2> QED
    BY <1>1, <1>2, <2>3, <2>4
<1>7. q * NsecsInSec \in Nat
  BY <1>1, <1>2
<1> QED
  BY <1>1, <1>2, <1>3, <1>5, <1>6, <1>7

\* Later times have no fewer seconds.
LEMMA SecondsGrow ==
    ASSUME NEW p \in Nat, NEW r \in Nat, p <= r
    PROVE  /\ Timespec(r).sec - Timespec(p).sec \in Nat
           /\ (Timespec(r).sec - Timespec(p).sec) * NsecsInSec
                = (r - p) + Timespec(p).nsec - Timespec(r).nsec
<1> DEFINE ps == Timespec(p).sec
           pn == Timespec(p).nsec
           rs == Timespec(r).sec
           rn == Timespec(r).nsec
<1>1. /\ ps \in Nat /\ pn \in 0 .. NsecsInSec - 1 /\ p = ps * NsecsInSec + pn
      /\ rs \in Nat /\ rn \in 0 .. NsecsInSec - 1 /\ r = rs * NsecsInSec + rn
  BY TimespecParts
<1>2. NsecsInSec \in Nat \ {0}
  BY ClockConstants
<1> HIDE DEF ps, pn, rs, rn
<1>3. (rs - ps) * NsecsInSec = rs * NsecsInSec - ps * NsecsInSec
  BY <1>1, <1>2
<1>4. (rs - ps) * NsecsInSec = (r - p) + pn - rn
  BY <1>1, <1>2, <1>3
<1>5. (rs - ps) * NsecsInSec > (-1) * NsecsInSec
  BY <1>1, <1>2, <1>4
<1>6. rs - ps > -1
  BY <1>1, <1>2, <1>5
<1> QED
  BY <1>1, <1>4, <1>6 DEF ps, pn, rs, rn

\* clock_delta is exact up to Reach.
LEMMA ClockDeltaExact ==
    ASSUME NEW past \in Nat, NEW recent \in Nat, past <= recent, recent - past <= Reach
    PROVE  ClockDelta(recent, past) = recent - past
<1> DEFINE d == Timespec(recent).sec - Timespec(past).sec
           pn == Timespec(past).nsec
           rn == Timespec(recent).nsec
<1>1. d \in Nat /\ d * NsecsInSec = (recent - past) + pn - rn
  BY SecondsGrow
<1>2. pn \in 0 .. NsecsInSec - 1 /\ rn \in 0 .. NsecsInSec - 1
  BY TimespecParts
<1>3. ClockDelta(recent, past) = (Uint64Mod + rn + ((d * NsecsInSec) % UintMod) - pn) % Uint64Mod
  BY DEF ClockDelta
<1> HIDE DEF d, pn, rn
<1>4. /\ NsecsInSec \in Nat \ {0} /\ UintMod \in Nat \ {0} /\ Uint64Mod \in Nat \ {0}
      /\ UintMod < Uint64Mod
  BY ClockConstants
<1>5. d * NsecsInSec \in 0 .. UintMod - 1
  <2>1. d * NsecsInSec < Reach + NsecsInSec
    BY <1>1, <1>2, <1>4, ReachFacts
  <2>2. d * NsecsInSec \in Nat
    BY <1>1, <1>4
  <2> QED
    BY <1>1, <1>4, <2>1, <2>2, ReachFacts
<1>6. (d * NsecsInSec) % UintMod = d * NsecsInSec
  BY <1>4, <1>5, ModSmall
<1>7. ClockDelta(recent, past) = (Uint64Mod + (recent - past)) % Uint64Mod
  <2>1. Uint64Mod + rn + (d * NsecsInSec) - pn = Uint64Mod + (recent - past)
    BY <1>1, <1>2, <1>4
  <2> QED
    BY <1>3, <1>6, <2>1
<1>8. recent - past \in 0 .. Uint64Mod - 1
  BY <1>4, ReachFacts
<1> QED
  BY <1>4, <1>7, <1>8, ModSmall

\* clock_delta is never negative.
LEMMA ClockDeltaNat ==
    ASSUME NEW past \in Nat, NEW recent \in Nat, past <= recent
    PROVE  ClockDelta(recent, past) \in Nat
<1> DEFINE d == Timespec(recent).sec - Timespec(past).sec
           pn == Timespec(past).nsec
           rn == Timespec(recent).nsec
           secs == (d * NsecsInSec) % UintMod
<1>1. d \in Nat /\ pn \in 0 .. NsecsInSec - 1 /\ rn \in 0 .. NsecsInSec - 1
  BY SecondsGrow, TimespecParts
<1>2. ClockDelta(recent, past) = (Uint64Mod + rn + secs - pn) % Uint64Mod
  BY DEF ClockDelta
<1> HIDE DEF d, pn, rn
<1>3. /\ NsecsInSec \in Nat \ {0} /\ UintMod \in Nat \ {0} /\ Uint64Mod \in Nat \ {0}
      /\ NsecsInSec < Uint64Mod
  BY ClockConstants
<1>4. d * NsecsInSec \in Nat
  BY <1>1, <1>3
<1>5. secs \in Nat
  BY <1>3, <1>4, DivMod
<1> HIDE DEF secs
<1>6. Uint64Mod + rn + secs - pn \in Nat
  BY <1>1, <1>3, <1>5
<1> QED
  BY <1>2, <1>3, <1>6

\* Where clock_delta has wrapped and gives less than a second, it grows with the
\* clock for another second.
LEMMA ClockDeltaStep ==
    ASSUME NEW past \in Nat, NEW a \in Nat, NEW t \in Nat,
           past <= a, a <= t, t - a <= NsecsInSec, ClockDelta(a, past) < NsecsInSec
    PROVE  ClockDelta(t, past) = ClockDelta(a, past) + (t - a)
<1> DEFINE d == Timespec(a).sec - Timespec(past).sec
           e == Timespec(t).sec - Timespec(a).sec
           pn == Timespec(past).nsec
           an == Timespec(a).nsec
           tn == Timespec(t).nsec
           secs == (d * NsecsInSec) % UintMod
           x == an + secs - pn
<1>1. /\ d \in Nat /\ e \in Nat
      /\ e * NsecsInSec = (t - a) + an - tn
      /\ Timespec(t).sec - Timespec(past).sec = d + e
  <2>1. d \in Nat /\ e \in Nat /\ e * NsecsInSec = (t - a) + an - tn
    BY SecondsGrow
  <2>2. Timespec(t).sec \in Nat /\ Timespec(a).sec \in Nat /\ Timespec(past).sec \in Nat
    BY TimespecParts
  <2> QED
    BY <2>1, <2>2
<1>2. pn \in 0 .. NsecsInSec - 1 /\ an \in 0 .. NsecsInSec - 1 /\ tn \in 0 .. NsecsInSec - 1
  BY TimespecParts
<1>3. ClockDelta(a, past) = (Uint64Mod + an + secs - pn) % Uint64Mod
  BY DEF ClockDelta
<1>4. ClockDelta(t, past)
        = (Uint64Mod + tn + (((d + e) * NsecsInSec) % UintMod) - pn) % Uint64Mod
  BY <1>1 DEF ClockDelta
<1>5. /\ NsecsInSec \in Nat \ {0} /\ UintMod \in Nat \ {0} /\ Uint64Mod \in Nat \ {0}
      /\ 3 * NsecsInSec < UintMod /\ UintMod + NsecsInSec < Uint64Mod
  BY ClockConstants
<1> HIDE DEF d, e, pn, an, tn
<1>6. d * NsecsInSec \in Nat /\ e * NsecsInSec \in Nat
  BY <1>1, <1>5
<1>7. secs \in 0 .. UintMod - 1
  BY <1>5, <1>6, DivMod
<1>8. e * NsecsInSec <= NsecsInSec
  <2>1. e * NsecsInSec < 2 * NsecsInSec
    BY <1>1, <1>2, <1>5
  <2>2. e < 2
    BY <1>1, <1>5, <2>1
  <2>3. e = 0 \/ e = 1
    BY <1>1, <2>2
  <2> QED
    BY <1>5, <2>3
\* The difference is what was added to 2^64 before the reduction.
<1>9. x >= 0 /\ ClockDelta(a, past) = x
  <2>1. x < Uint64Mod /\ x > - NsecsInSec /\ x \in Int
    <3> HIDE DEF secs
    <3> QED
      BY <1>2, <1>5, <1>7
  <2>2. ClockDelta(a, past) = (Uint64Mod + x) % Uint64Mod
    <3> HIDE DEF secs
    <3>1. Uint64Mod + an + secs - pn = Uint64Mod + x
      BY <1>2, <1>5, <1>7
    <3> QED
      BY <1>3, <3>1
  <2> HIDE DEF x
  <2>3. CASE x < 0
    <3>1. Uint64Mod + x \in 0 .. Uint64Mod - 1
      BY <1>5, <2>1, <2>3
    <3>2. ClockDelta(a, past) = Uint64Mod + x
      BY <1>5, <2>2, <3>1, ModSmall
    <3> QED
      BY <1>5, <2>1, <3>2
  <2>4. CASE x >= 0
    <3>1. x \in 0 .. Uint64Mod - 1
      BY <1>5, <2>1, <2>4
    <3> QED
      BY <1>5, <2>2, <2>4, <3>1, ModSmall
  <2> QED
    BY <2>1, <2>3, <2>4
<1>10. ((d + e) * NsecsInSec) % UintMod = secs + e * NsecsInSec
  <2>1. secs < 2 * NsecsInSec
    <3> HIDE DEF secs
    <3> QED
      BY <1>2, <1>5, <1>7, <1>9
  <2>2. secs + e * NsecsInSec < UintMod
    <3> HIDE DEF secs
    <3> QED
      BY <1>5, <1>6, <1>7, <1>8, <2>1
  <2>3. (d + e) * NsecsInSec = d * NsecsInSec + e * NsecsInSec
    BY <1>1, <1>5
  <2>4. (d * NsecsInSec + e * NsecsInSec) % UintMod = secs + e * NsecsInSec
    BY <1>5, <1>6, <2>2, ModAdd
  <2> QED
    BY <2>3, <2>4
<1> HIDE DEF secs
<1>11. Uint64Mod + tn + (secs + e * NsecsInSec) - pn = Uint64Mod + (x + (t - a))
  BY <1>1, <1>2, <1>5, <1>6, <1>7
<1>12. x + (t - a) \in 0 .. Uint64Mod - 1
  BY <1>2, <1>5, <1>7, <1>9
<1>13. ClockDelta(t, past) = (Uint64Mod + (x + (t - a))) % Uint64Mod
  BY <1>4, <1>10, <1>11
<1> HIDE DEF x
<1> QED
  BY <1>5, <1>9, <1>12, <1>13, ModSmall

-----------------------------------------------------------------------------
(* The inductive invariant, one part for each user of the clock.             *)

ClockInv == now \in 1 .. MaxTime

\* What the polls leave behind: the timer was set when it last fired, and while
\* it is overdue clock_delta has counted the time since that was first missed.
TimerInv ==
    /\ timer \in [ts : Nat, last : Nat, fired : BOOLEAN, at : Nat, since : Nat,
                  overdue : Nat]
    /\ timer.ts = timer.last
    /\ 1 <= timer.ts /\ timer.ts <= timer.at /\ timer.at <= now
    /\ timer.overdue <= timer.at
    /\ timer.overdue # 0 =>
          /\ timer.at - timer.overdue <= ClockDelta(timer.at, timer.ts)
          /\ ClockDelta(timer.at, timer.ts) < Period

\* The shortest interval.
Shortest == CHOOSE i \in Ivals : \A j \in Ivals : i <= j

\* periodic_wait works on the interval it loaded when it was called, and the
\* sends that led here are the shortest interval apart.
PacerInv ==
    /\ pacer \in [timestamp : Nat, ival : Ivals, pc : {"out", "in", "sleep"},
                  loaded : Ivals \cup {0}, expire : [sec : Int, nsec : Int],
                  ns : [sec : Int, nsec : Int], wake : Int]
    /\ 1 <= pacer.timestamp /\ pacer.timestamp <= now
    /\ pacer.pc # "out" => pacer.loaded \in Ivals
    /\ pacer.pc = "in" => pacer.expire = Expire(Timespec(pacer.timestamp), pacer.loaded)
    /\ SleepExact
    /\ sends \in Seq(Nat) /\ Len(sends) \in 1 .. 3
    /\ sends[Len(sends)] = pacer.timestamp
    /\ \A i \in 1 .. Len(sends) - 1 : sends[i + 1] - sends[i] >= Shortest

\* g sums up the sizes of the packets that passed.
SumsUp(g) ==
    /\ g \in [0 .. Len(passed) -> Nat] /\ g[0] = 0
    /\ \A k \in 1 .. Len(passed) : g[k] = g[k - 1] + passed[k].size
    /\ \A j, k \in 0 .. Len(passed) : j <= k => g[j] <= g[k]

\* Where the ring keeps the k-th of the remembered packets.
Slot(k) ==
    IF Len(passed) < Count THEN k - 1
    ELSE IF lim.pktidx + k - 1 < Count THEN lim.pktidx + k - 1
    ELSE lim.pktidx + k - 1 - Count

\* The ring holds the packets that passed, the oldest where the next one goes.
LimInv ==
    /\ lim \in [times : [0 .. Count - 1 -> Nat], sizes : [0 .. Count - 1 -> Nat],
                totb : Nat, pktidx : 0 .. Count - 1]
    /\ passed \in Seq([time : Nat \ {0}, size : Nat]) /\ Len(passed) <= Count
    /\ \A j, k \in 1 .. Len(passed) : j <= k => passed[j].time <= passed[k].time
    /\ \A k \in 1 .. Len(passed) :
          /\ passed[k].time <= now
          /\ lim.times[Slot(k)] = passed[k].time
          /\ lim.sizes[Slot(k)] = passed[k].size
    /\ Len(passed) < Count =>
          /\ lim.pktidx = Len(passed)
          /\ \A i \in Len(passed) .. Count - 1 : lim.times[i] = 0 /\ lim.sizes[i] = 0
    /\ \E g : SumsUp(g) /\ lim.totb = g[Len(passed)]

IInv == ClockInv /\ TimerInv /\ TimerExact /\ PacerInv /\ LimInv /\ LimitExact
-----------------------------------------------------------------------------
(* The ACK timer.                                                            *)

\* What a poll does to the timer, field by field.
LEMMA StCheckEffect ==
    ASSUME TimerInv, StCheck
    PROVE  LET missed == ~Fires /\ now - timer.last >= Period
               often == now - timer.at <= NsecsInSec
           IN  timer' = [ts |-> IF Fires THEN now ELSE timer.ts,
                         last |-> IF Fires THEN now ELSE timer.last,
                         fired |-> Fires, at |-> now, since |-> now - timer.last,
                         overdue |-> IF ~missed THEN 0
                                     ELSE IF timer.overdue # 0 /\ often
                                          THEN timer.overdue ELSE now]
<1>1. timer \in [ts : Nat, last : Nat, fired : BOOLEAN, at : Nat, since : Nat,
                 overdue : Nat]
  BY DEF TimerInv
<1>2. timer' = [Observed EXCEPT !.ts = IF Fires THEN now ELSE @]
  BY DEF StCheck
<1> DEFINE f == Fires
           missed == ~f /\ now - timer.last >= Period
           often == now - timer.at <= NsecsInSec
           o == IF ~missed THEN 0
                ELSE IF timer.overdue # 0 /\ often THEN timer.overdue ELSE now
<1>3. Observed = [timer EXCEPT !.fired = f, !.at = now, !.since = now - timer.last,
                      !.last = IF f THEN now ELSE @, !.overdue = o]
  BY DEF Observed
<1> HIDE DEF f, o
<1>4. timer' = [timer EXCEPT !.ts = IF f THEN now ELSE @, !.fired = f, !.at = now,
                      !.since = now - timer.last,
                      !.last = IF f THEN now ELSE @, !.overdue = o]
  BY <1>1, <1>2, <1>3 DEF f
<1> QED
  BY <1>1, <1>4 DEF f, o

\* A poll keeps the timer's invariant; an overdue timer that is polled every
\* second comes one poll's distance nearer to its interval.
LEMMA StCheckInv ==
    ASSUME ClockInv, TimerInv, StCheck
    PROVE  TimerInv' /\ TimerExact'
<1> DEFINE f == Fires
           delta == ClockDelta(now, timer.ts)
<1>1. /\ now' = now /\ now \in Nat /\ now > timer.at
      /\ timer.ts \in Nat /\ timer.at \in Nat /\ timer.overdue \in Nat
      /\ timer.last = timer.ts /\ 1 <= timer.ts /\ timer.ts <= timer.at
      /\ timer.overdue <= timer.at
  BY DEF StCheck, ClockInv, TimerInv
<1>2. NsecsInSec \in Nat /\ Period \in 1 .. NsecsInSec
  BY ClockConstants
<1>3. delta \in Nat
  BY <1>1, ClockDeltaNat
<1>4. f <=> delta >= Period
  BY DEF Fires
<1>5. now - timer.ts <= Reach => delta = now - timer.ts
  BY <1>1, ClockDeltaExact
<1>6. timer.overdue # 0 /\ now - timer.at <= NsecsInSec =>
        now - timer.overdue <= delta
  <2> SUFFICES ASSUME timer.overdue # 0, now - timer.at <= NsecsInSec
               PROVE  now - timer.overdue <= delta
    OBVIOUS
  <2>1. /\ timer.at - timer.overdue <= ClockDelta(timer.at, timer.ts)
        /\ ClockDelta(timer.at, timer.ts) < Period
    BY DEF TimerInv
  <2>2. ClockDelta(timer.at, timer.ts) \in Nat
    BY <1>1, ClockDeltaNat
  <2>3. ClockDelta(timer.at, timer.ts) < NsecsInSec
    BY <1>2, <2>1, <2>2
  <2>4. delta = ClockDelta(timer.at, timer.ts) + (now - timer.at)
    BY <1>1, <2>3, ClockDeltaStep
  <2> QED
    BY <1>1, <2>1, <2>2, <2>4
<1> DEFINE missed == ~f /\ now - timer.last >= Period
           o == IF ~missed THEN 0
                ELSE IF timer.overdue # 0 /\ now - timer.at <= NsecsInSec
                     THEN timer.overdue ELSE now
           ts == IF f THEN now ELSE timer.ts
<1>7. timer' = [ts |-> ts, last |-> IF f THEN now ELSE timer.last, fired |-> f,
                at |-> now, since |-> now - timer.last, overdue |-> o]
  BY StCheckEffect
<1>8. f \in BOOLEAN
  BY DEF Fires
<1> HIDE DEF f, delta
<1>9. /\ ts \in Nat /\ 1 <= ts /\ ts <= now
      /\ now - timer.last \in Nat
      /\ o \in Nat /\ o <= now
      /\ o # 0 => ~f /\ now - o <= delta
  BY <1>1, <1>3, <1>6
<1>10. TimerInv'
  <2>1. timer'.overdue # 0 =>
           /\ timer'.at - timer'.overdue <= ClockDelta(timer'.at, timer'.ts)
           /\ ClockDelta(timer'.at, timer'.ts) < Period
    <3> SUFFICES ASSUME o # 0
                 PROVE  now - o <= ClockDelta(now, ts) /\ ClockDelta(now, ts) < Period
      BY <1>7
    <3>1. ~f /\ ts = timer.ts
      BY <1>9
    <3>2. ClockDelta(now, ts) = delta
      BY <3>1 DEF delta
    <3> QED
      BY <1>2, <1>3, <1>4, <1>9, <3>1, <3>2
  <2> HIDE DEF ts, o
  <2>2. (IF f THEN now ELSE timer.last) = ts
    BY <1>1 DEF ts
  <2>3. timer' \in [ts : Nat, last : Nat, fired : BOOLEAN, at : Nat, since : Nat,
                    overdue : Nat]
    BY <1>1, <1>7, <1>8, <1>9, <2>2
  <2> QED
    BY <1>1, <1>7, <1>9, <2>1, <2>2, <2>3 DEF TimerInv
<1>11. TimerExact'
  <2>1. timer'.fired = f /\ timer'.since = now - timer.ts
    BY <1>1, <1>7
  <2>2. now - timer.ts \in Nat
    BY <1>1, <1>9
  <2>3. ASSUME f PROVE now - timer.ts >= Period
    BY <1>2, <1>3, <1>4, <1>5, <2>2, <2>3, ReachFacts
  <2>4. ASSUME now - timer.ts >= Period, now - timer.ts <= Reach PROVE f
    BY <1>2, <1>3, <1>4, <1>5, <2>4
  <2> QED
    BY <2>1, <2>3, <2>4 DEF TimerExact
<1> QED
  BY <1>10, <1>11
-----------------------------------------------------------------------------
(* The pacer.                                                                *)

\* The end of an interval, as a timespec: the fraction may be a whole second, but
\* only when the seconds are those of the start.
LEMMA ExpireFacts ==
    ASSUME NEW t \in Nat, NEW i \in 1 .. NsecsInSec
    PROVE  LET e == Expire(Timespec(t), i)
           IN  /\ e \in [sec : Int, nsec : Int]
               /\ e.sec \in Nat /\ e.nsec \in 1 .. NsecsInSec
               /\ e.sec * NsecsInSec + e.nsec = t + i
               /\ e.nsec = NsecsInSec => e.sec = Timespec(t).sec
<1> DEFINE s == Timespec(t).sec
           n == Timespec(t).nsec
<1>1. s \in Nat /\ n \in 0 .. NsecsInSec - 1 /\ t = s * NsecsInSec + n
  BY TimespecParts
<1>2. Timespec(t) = [sec |-> s, nsec |-> n]
  BY DEF Timespec
<1>3. NsecsInSec \in Nat \ {0}
  BY ClockConstants
<1>4. Expire(Timespec(t), i) = IF n + i > NsecsInSec
                               THEN [sec |-> s + 1, nsec |-> n + i - NsecsInSec]
                               ELSE [sec |-> s, nsec |-> n + i]
  <2> HIDE DEF s, n
  <2> DEFINE r == [sec |-> s, nsec |-> n]
  <2>1. Expire(r, i) = IF n + i > NsecsInSec
                       THEN [sec |-> s + 1, nsec |-> n + i - NsecsInSec]
                       ELSE [sec |-> s, nsec |-> n + i]
    BY <1>1, <1>3 DEF Expire
  <2> QED
    BY <1>2, <2>1
<1> HIDE DEF s, n
<1>5. s * NsecsInSec \in Nat /\ (s + 1) * NsecsInSec = s * NsecsInSec + NsecsInSec
  BY <1>1, <1>3
<1>6. CASE n + i > NsecsInSec
  <2>1. Expire(Timespec(t), i) = [sec |-> s + 1, nsec |-> n + i - NsecsInSec]
    BY <1>4, <1>6
  <2>2. s + 1 \in Nat /\ n + i - NsecsInSec \in 1 .. NsecsInSec - 1
    BY <1>1, <1>3, <1>6
  <2>3. (s + 1) * NsecsInSec + (n + i - NsecsInSec) = t + i
    BY <1>1, <1>3, <1>5
  <2> QED
    BY <1>3, <2>1, <2>2, <2>3
<1>7. CASE ~(n + i > NsecsInSec)
  <2>1. Expire(Timespec(t), i) = [sec |-> s, nsec |-> n + i]
    BY <1>4, <1>7
  <2>2. n + i \in 1 .. NsecsInSec
    BY <1>1, <1>3, <1>7
  <2>3. s * NsecsInSec + (n + i) = t + i
    BY <1>1, <1>3, <1>5
  <2> QED
    BY <1>1, <1>3, <2>1, <2>2, <2>3 DEF s
<1> QED
  BY <1>6, <1>7

\* An expired interval is over.
LEMMA ExpiredIsOver ==
    ASSUME NEW start \in Nat, NEW i \in 1 .. NsecsInSec, NEW t \in Nat,
           IsExpired(Timespec(t), Expire(Timespec(start), i))
    PROVE  t >= start + i
<1> DEFINE e == Expire(Timespec(start), i)
           es == e.sec
           en == e.nsec
           ts == Timespec(t).sec
           tn == Timespec(t).nsec
<1>1. es \in Nat /\ en \in 1 .. NsecsInSec /\ es * NsecsInSec + en = start + i
  BY ExpireFacts
<1>2. ts \in Nat /\ tn \in 0 .. NsecsInSec - 1 /\ t = ts * NsecsInSec + tn
  BY TimespecParts
<1>3. ts > es \/ (ts = es /\ tn > en)
  BY DEF IsExpired
<1>4. NsecsInSec \in Nat \ {0}
  BY ClockConstants
<1> HIDE DEF e, es, en, ts, tn
<1>5. CASE ts = es /\ tn > en
  BY <1>1, <1>2, <1>4, <1>5
<1>6. CASE ts > es
  <2>1. ts * NsecsInSec >= (es + 1) * NsecsInSec
    BY <1>1, <1>2, <1>4, <1>6
  <2>2. (es + 1) * NsecsInSec = es * NsecsInSec + NsecsInSec /\ es * NsecsInSec \in Nat
    BY <1>1, <1>4
  <2>3. ts * NsecsInSec \in Nat
    BY <1>2, <1>4
  <2> QED
    BY <1>1, <1>2, <1>4, <2>1, <2>2, <2>3
<1> QED
  BY <1>3, <1>5, <1>6

\* What is left of an interval is a time nanosleep accepts, and ends with it.
LEMMA RemainingExact ==
    ASSUME NEW start \in Nat, NEW i \in 1 .. NsecsInSec, NEW t \in Nat, t > start,
           ~IsExpired(Timespec(t), Expire(Timespec(start), i))
    PROVE  LET ns == Remaining(Timespec(t), Expire(Timespec(start), i))
           IN  /\ ns \in [sec : Int, nsec : Int]
               /\ Valid(ns)
               /\ t + ns.sec * NsecsInSec + ns.nsec = start + i
<1> DEFINE e == Expire(Timespec(start), i)
           es == e.sec
           en == e.nsec
           ts == Timespec(t).sec
           tn == Timespec(t).nsec
           ss == Timespec(start).sec
           sn == Timespec(start).nsec
           ns == Remaining(Timespec(t), e)
<1>1. /\ es \in Nat /\ en \in 1 .. NsecsInSec /\ es * NsecsInSec + en = start + i
      /\ en = NsecsInSec => es = ss
  BY ExpireFacts
<1>2. ts \in Nat /\ tn \in 0 .. NsecsInSec - 1 /\ t = ts * NsecsInSec + tn
  BY TimespecParts
<1>3. ss \in Nat /\ sn \in 0 .. NsecsInSec - 1 /\ start = ss * NsecsInSec + sn
  BY TimespecParts
<1>4. ts < es \/ (ts = es /\ tn <= en)
  BY <1>1, <1>2 DEF IsExpired
<1>5. NsecsInSec \in Nat \ {0}
  BY ClockConstants
<1>6. ns = IF en >= tn THEN [sec |-> es - ts, nsec |-> en - tn]
           ELSE [sec |-> es - ts - 1, nsec |-> NsecsInSec + en - tn]
  BY DEF Remaining
<1> HIDE DEF e, es, en, ts, tn, ss, sn, ns
<1>7. (es - ts) * NsecsInSec = es * NsecsInSec - ts * NsecsInSec
      /\ (es - ts - 1) * NsecsInSec = es * NsecsInSec - ts * NsecsInSec - NsecsInSec
      /\ es * NsecsInSec \in Nat /\ ts * NsecsInSec \in Nat
  BY <1>1, <1>2, <1>5
<1>8. CASE en >= tn
  <2>1. ns = [sec |-> es - ts, nsec |-> en - tn]
    BY <1>6, <1>8
  <2>2. en - tn < NsecsInSec
    <3> SUFFICES ASSUME en = NsecsInSec, tn = 0 PROVE FALSE
      BY <1>1, <1>2, <1>5
    <3>1. es = ss /\ ts <= ss
      BY <1>1, <1>2, <1>3, <1>4
    <3>2. ts * NsecsInSec <= ss * NsecsInSec
      BY <1>2, <1>3, <1>5, <3>1
    <3>3. ts * NsecsInSec \in Nat /\ ss * NsecsInSec \in Nat
      BY <1>2, <1>3, <1>5
    <3> QED
      BY <1>2, <1>3, <3>2, <3>3
  <2>3. t + (es - ts) * NsecsInSec + (en - tn) = start + i
    BY <1>1, <1>2, <1>5, <1>7
  <2> QED
    BY <1>1, <1>2, <1>5, <2>1, <2>2, <2>3 DEF Valid, ns, e
<1>9. CASE en < tn
  <2>1. ns = [sec |-> es - ts - 1, nsec |-> NsecsInSec + en - tn]
    BY <1>1, <1>2, <1>5, <1>6, <1>9
  <2>2. NsecsInSec + en - tn < NsecsInSec
    BY <1>1, <1>2, <1>5, <1>9
  <2>3. t + (es - ts - 1) * NsecsInSec + (NsecsInSec + en - tn) = start + i
    BY <1>1, <1>2, <1>5, <1>7
  <2> QED
    BY <1>1, <1>2, <1>5, <2>1, <2>2, <2>3 DEF Valid, ns, e
<1> QED
  BY <1>1, <1>2, <1>5, <1>8, <1>9

\* There is a shortest interval.
LEMMA ShortestFacts ==
    ASSUME Ivals # {}
    PROVE  Shortest \in Ivals /\ \A j \in Ivals : Shortest <= j
<1>1. Ivals \in SUBSET Nat
  BY ClockConstants
<1>2. \E i \in Ivals : \A j \in Ivals : i <= j
  BY <1>1, LeastNat
<1> QED
  BY <1>2 DEF Shortest

\* A send that comes no sooner than the shortest interval after the last one keeps
\* the sends apart.
LEMMA SentInv ==
    ASSUME PacerInv, ClockInv, now' = now, Sent, pacer' = Return,
           now >= pacer.timestamp + pacer.loaded, pacer.loaded \in Ivals
    PROVE  PacerInv'
<1> DEFINE n == Len(sends)
           s == Append(sends, now)
<1>1. /\ sends \in Seq(Nat) /\ n \in 1 .. 3 /\ sends[n] = pacer.timestamp
      /\ \A i \in 1 .. n - 1 : sends[i + 1] - sends[i] >= Shortest
      /\ pacer.timestamp \in Nat /\ pacer.ival \in Ivals
  BY DEF PacerInv
<1>2. now \in Nat /\ now \in 1 .. MaxTime
  BY DEF ClockInv
<1>3. Ivals \subseteq 1 .. NsecsInSec /\ NsecsInSec \in Nat
  BY ClockConstants
<1>4. Shortest \in Nat /\ Shortest <= pacer.loaded /\ pacer.loaded \in Nat
  <2>1. Shortest \in Ivals /\ Shortest <= pacer.loaded
    BY ShortestFacts
  <2>2. Shortest \in 1 .. NsecsInSec /\ pacer.loaded \in 1 .. NsecsInSec
    BY <1>3, <2>1
  <2> QED
    BY <1>3, <2>1, <2>2
<1>5. /\ s \in Seq(Nat) /\ Len(s) = n + 1 /\ s[n + 1] = now
      /\ \A i \in 1 .. n : s[i] = sends[i]
  BY <1>1, <1>2
<1>6. \A i \in 1 .. n : s[i + 1] - s[i] >= Shortest
  <2> SUFFICES ASSUME NEW i \in 1 .. n PROVE s[i + 1] - s[i] >= Shortest
    OBVIOUS
  <2> HIDE DEF s
  <2>1. CASE i = n
    BY <1>1, <1>2, <1>4, <1>5, <2>1
  <2>2. CASE i # n
    <3>1. i \in 1 .. n - 1 /\ i + 1 \in 1 .. n
      BY <1>1, <2>2
    <3> QED
      BY <1>1, <1>5, <3>1
  <2> QED
    BY <2>1, <2>2
<1>7. sends' = IF Len(s) > 3 THEN Tail(s) ELSE s
  BY DEF Sent
<1> HIDE DEF s, n
<1>8. /\ sends' \in Seq(Nat) /\ Len(sends') \in 1 .. 3 /\ sends'[Len(sends')] = now
      /\ \A i \in 1 .. Len(sends') - 1 : sends'[i + 1] - sends'[i] >= Shortest
  <2>1. CASE Len(s) > 3
    <3>1. sends' = Tail(s) /\ n = 3 /\ Len(s) = 4
      BY <1>1, <1>5, <1>7, <2>1
    <3>2. sends' \in Seq(Nat) /\ Len(sends') = 3 /\ \A i \in 1 .. 3 : sends'[i] = s[i + 1]
      <4>1. s # << >>
        <5>1. Len(s) # 0
          BY <3>1
        <5> QED
          BY <5>1, NotEmpty, Zenon
      <4>2. /\ Tail(s) \in Seq(Nat) /\ Len(Tail(s)) = Len(s) - 1
            /\ \A i \in 1 .. Len(Tail(s)) : Tail(s)[i] = s[i + 1]
        BY <1>5, <4>1, HeadTailProperties
      <4>3. Len(Tail(s)) = 3
        BY <3>1, <4>2
      <4> QED
        BY <3>1, <4>2, <4>3
    <3>3. \A i \in 1 .. 2 : sends'[i + 1] - sends'[i] >= Shortest
      <4> SUFFICES ASSUME NEW i \in 1 .. 2 PROVE sends'[i + 1] - sends'[i] >= Shortest
        OBVIOUS
      <4>1. i + 1 \in 1 .. n /\ i + 1 \in 1 .. 3 /\ i \in 1 .. 3
        BY <3>1
      <4>2. s[(i + 1) + 1] - s[i + 1] >= Shortest
        BY <1>6, <4>1
      <4> QED
        BY <3>2, <4>1, <4>2
    <3>4. sends'[3] = now
      <4>1. s[4] = now
        BY <1>5, <3>1
      <4> QED
        BY <3>2, <4>1
    <3> QED
      BY <3>2, <3>3, <3>4
  <2>2. CASE ~(Len(s) > 3)
    <3>1. sends' = s /\ n \in 1 .. 2 /\ Len(sends') = n + 1
      BY <1>1, <1>5, <1>7, <2>2
    <3>2. Len(sends') \in 1 .. 3 /\ Len(sends') - 1 = n
      BY <3>1
    <3>3. sends'[Len(sends')] = now
      BY <1>5, <3>1
    <3> QED
      BY <1>5, <1>6, <3>1, <3>2, <3>3
  <2> QED
    BY <2>1, <2>2
<1>9. /\ pacer' \in [timestamp : Nat, ival : Ivals, pc : {"out", "in", "sleep"},
                     loaded : Ivals \cup {0}, expire : [sec : Int, nsec : Int],
                     ns : [sec : Int, nsec : Int], wake : Int]
      /\ pacer'.timestamp = now /\ pacer'.pc = "out"
  <2>1. Timespec(0) \in [sec : Int, nsec : Int]
    <3>1. Timespec(0).sec \in Nat /\ Timespec(0).nsec \in 0 .. NsecsInSec - 1
      BY TimespecParts
    <3> QED
      BY <1>3, <3>1 DEF Timespec
  <2> QED
    BY <1>1, <1>2, <2>1 DEF Return, Idle
<1> QED
  BY <1>2, <1>8, <1>9 DEF PacerInv, SleepExact

LEMMA PacerStep ==
    ASSUME ClockInv, PacerInv,
           ChangeRate \/ WaitCall \/ WaitOver \/ WaitSleep \/ WaitWake
    PROVE  PacerInv'
<1>1. /\ pacer \in [timestamp : Nat, ival : Ivals, pc : {"out", "in", "sleep"},
                    loaded : Ivals \cup {0}, expire : [sec : Int, nsec : Int],
                    ns : [sec : Int, nsec : Int], wake : Int]
      /\ Ivals \subseteq 1 .. NsecsInSec /\ now \in Nat
  BY ClockConstants DEF PacerInv, ClockInv
<1>2. CASE ChangeRate
  <2> PICK i \in Ivals : pacer' = [pacer EXCEPT !.ival = i] /\ UNCHANGED <<now, sends>>
    BY <1>2 DEF ChangeRate
  <2> QED
    BY <1>1 DEF PacerInv, SleepExact
<1>3. CASE WaitCall
  <2> DEFINE e == Expire(Timespec(pacer.timestamp), pacer.ival)
  <2>1. e \in [sec : Int, nsec : Int]
    BY <1>1, ExpireFacts
  <2>2. /\ pacer' = [pacer EXCEPT !.pc = "in", !.loaded = pacer.ival, !.expire = e]
        /\ UNCHANGED <<now, sends>>
    BY <1>3 DEF WaitCall
  <2>3. /\ pacer'.timestamp = pacer.timestamp /\ pacer'.ival = pacer.ival
        /\ pacer'.pc = "in" /\ pacer'.loaded = pacer.ival /\ pacer'.expire = e
        /\ pacer'.ns = pacer.ns /\ pacer'.wake = pacer.wake
    BY <1>1, <2>2
  <2>4. pacer' \in [timestamp : Nat, ival : Ivals, pc : {"out", "in", "sleep"},
                    loaded : Ivals \cup {0}, expire : [sec : Int, nsec : Int],
                    ns : [sec : Int, nsec : Int], wake : Int]
    <3> HIDE DEF e
    <3> QED
      BY <1>1, <2>1, <2>2
  <2> QED
    BY <1>1, <2>2, <2>3, <2>4 DEF PacerInv, SleepExact
<1>4. CASE WaitOver
  <2>1. pacer.loaded \in Ivals /\ pacer.expire = Expire(Timespec(pacer.timestamp), pacer.loaded)
    BY <1>4 DEF PacerInv, WaitOver
  <2>2. IsExpired(Timespec(now), Expire(Timespec(pacer.timestamp), pacer.loaded))
    BY <1>4, <2>1 DEF WaitOver
  <2>3. now >= pacer.timestamp + pacer.loaded
    BY <1>1, <2>1, <2>2, ExpiredIsOver
  <2> QED
    BY <1>4, <2>1, <2>3, SentInv DEF WaitOver
<1>5. CASE WaitSleep
  <2> DEFINE ns == Remaining(Timespec(now), pacer.expire)
             wake == now + ns.sec * NsecsInSec + ns.nsec
  <2>1. pacer.loaded \in Ivals /\ pacer.expire = Expire(Timespec(pacer.timestamp), pacer.loaded)
    BY <1>5 DEF PacerInv, WaitSleep
  <2>2. now > pacer.timestamp /\ ~IsExpired(Timespec(now), pacer.expire)
    BY <1>5 DEF WaitSleep
  <2>3. /\ ns \in [sec : Int, nsec : Int] /\ Valid(ns)
        /\ wake = pacer.timestamp + pacer.loaded
    <3>1. ~IsExpired(Timespec(now), Expire(Timespec(pacer.timestamp), pacer.loaded))
      BY <2>1, <2>2
    <3>2. pacer.loaded \in 1 .. NsecsInSec /\ pacer.timestamp \in Nat
      BY <1>1, <2>1
    <3> QED
      BY <1>1, <2>1, <2>2, <3>1, <3>2, RemainingExact
  <2>4. /\ pacer' = [pacer EXCEPT !.pc = "sleep", !.ns = ns, !.wake = wake]
        /\ UNCHANGED <<now, sends>>
    BY <1>5 DEF WaitSleep
  <2> HIDE DEF ns, wake
  <2>5. /\ pacer'.timestamp = pacer.timestamp /\ pacer'.ival = pacer.ival
        /\ pacer'.pc = "sleep" /\ pacer'.loaded = pacer.loaded
        /\ pacer'.ns = ns /\ pacer'.wake = wake
    BY <1>1, <2>4
  <2>6. wake \in Int
    BY <1>1, <2>1, <2>3
  <2>7. pacer' \in [timestamp : Nat, ival : Ivals, pc : {"out", "in", "sleep"},
                    loaded : Ivals \cup {0}, expire : [sec : Int, nsec : Int],
                    ns : [sec : Int, nsec : Int], wake : Int]
    BY <1>1, <2>3, <2>4, <2>6
  <2> QED
    BY <2>1, <2>3, <2>4, <2>5, <2>7 DEF PacerInv, SleepExact
<1>6. CASE WaitWake
  <2>1. /\ pacer.pc = "sleep" /\ now >= pacer.wake /\ pacer' = Return /\ Sent /\ now' = now
    BY <1>6 DEF WaitWake
  <2>2. pacer.loaded \in Ivals /\ pacer.wake = pacer.timestamp + pacer.loaded
    BY <2>1 DEF PacerInv, SleepExact
  <2> QED
    BY <2>1, <2>2, SentInv
<1> QED
  BY <1>2, <1>3, <1>4, <1>5, <1>6
-----------------------------------------------------------------------------
(* The rate limiter.                                                         *)

\* What LimInv says of the limiter's fields, and of the ring when it is full.
LEMMA LimParts ==
    ASSUME LimInv
    PROVE  /\ Count \in Nat \ {0} /\ lim.pktidx \in 0 .. Count - 1 /\ lim.totb \in Nat
           /\ lim.times \in [0 .. Count - 1 -> Nat] /\ lim.sizes \in [0 .. Count - 1 -> Nat]
           /\ Len(passed) \in 0 .. Count
           /\ \A k \in 1 .. Len(passed) :
                 /\ passed[k] \in [time : Nat \ {0}, size : Nat]
                 /\ passed[k].time \in Nat \ {0} /\ passed[k].size \in Nat
<1>1. /\ lim \in [times : [0 .. Count - 1 -> Nat], sizes : [0 .. Count - 1 -> Nat],
                  totb : Nat, pktidx : 0 .. Count - 1]
      /\ passed \in Seq([time : Nat \ {0}, size : Nat]) /\ Len(passed) <= Count
  BY DEF LimInv
<1>2. Count \in Nat \ {0}
  BY LimitAssumption
<1>3. Len(passed) \in Nat
  BY <1>1, LenProperties
<1>4. \A k \in 1 .. Len(passed) : passed[k] \in [time : Nat \ {0}, size : Nat]
  BY <1>1, ElementOfSeq
<1>5. \A k \in 1 .. Len(passed) : passed[k].time \in Nat \ {0} /\ passed[k].size \in Nat
  BY <1>4
<1>6. Len(passed) \in 0 .. Count
  BY <1>1, <1>2, <1>3
<1>7. /\ lim.pktidx \in 0 .. Count - 1 /\ lim.totb \in Nat
      /\ lim.times \in [0 .. Count - 1 -> Nat] /\ lim.sizes \in [0 .. Count - 1 -> Nat]
  BY <1>1
<1> QED
  BY <1>2, <1>4, <1>5, <1>6, <1>7

\* The bytes of the remembered packets, summed up one by one, are what limit()
\* keeps in totb.
LEMMA TotalExact ==
    ASSUME LimInv, NEW n \in Nat
    PROVE  TrueBytes(n) = NewTotal(n)
<1> DEFINE L == Len(passed)
           size(k) == IF k > Oldest THEN passed[k].size ELSE 0
           sum[k \in 0 .. L] == IF k = 0 THEN n ELSE sum[k - 1] + size(k)
<1>1. TrueBytes(n) = sum[L]
  BY DEF TrueBytes
<1>2. PICK g : SumsUp(g) /\ lim.totb = g[L]
  BY DEF LimInv
<1>3. /\ L \in 0 .. Count /\ Count \in Nat \ {0}
      /\ \A k \in 1 .. L : passed[k].size \in Nat
  BY LimParts
<1>4. /\ g \in [0 .. L -> Nat] /\ g[0] = 0
      /\ \A k \in 1 .. L : g[k] = g[k - 1] + passed[k].size
  BY <1>2 DEF SumsUp
<1>5. Oldest = L + 1 - Count
  BY DEF Oldest
<1> DEFINE gone == IF L = Count THEN passed[1].size ELSE 0
           e == [k \in 0 .. L |-> IF k = 0 THEN n ELSE n + g[k] - gone]
<1>6. gone \in Nat /\ (L = Count => g[1] = gone)
  BY <1>3, <1>4
<1>7. \A k \in 1 .. L : size(k) \in Nat /\ size(k) = IF k > 1 \/ L # Count THEN passed[k].size ELSE 0
  BY <1>3, <1>5
<1> HIDE DEF L, size, gone
<1>8. e = [k \in 0 .. L |-> IF k = 0 THEN n ELSE e[k - 1] + size(k)]
  <2> SUFFICES ASSUME NEW k \in 0 .. L, k # 0
               PROVE  n + g[k] - gone = e[k - 1] + size(k)
    OBVIOUS
  <2>1. k \in 1 .. L /\ k - 1 \in 0 .. L
    BY <1>3
  <2>2. g[k] \in Nat /\ g[k - 1] \in Nat /\ g[k] = g[k - 1] + passed[k].size
    BY <1>4, <2>1
  <2>3. CASE k = 1
    <3>1. e[k - 1] = n
      BY <2>1, <2>3
    <3>2. CASE L = Count
      BY <1>6, <1>7, <2>1, <2>3, <3>1, <3>2
    <3>3. CASE L # Count
      <4>1. gone = 0 /\ size(k) = passed[k].size /\ g[k - 1] = 0
        BY <1>4, <1>7, <2>1, <2>3, <3>3 DEF gone
      <4> QED
        BY <1>3, <2>1, <2>2, <3>1, <4>1
    <3> QED
      BY <3>2, <3>3
  <2>4. CASE k # 1
    <3>1. e[k - 1] = n + g[k - 1] - gone /\ size(k) = passed[k].size
      BY <1>7, <2>1, <2>4
    <3> QED
      BY <1>3, <1>6, <2>1, <2>2, <3>1
  <2> QED
    BY <2>3, <2>4
<1>9. sum = [k \in 0 .. L |-> IF k = 0 THEN n ELSE sum[k - 1] + size(k)]
  <2> HIDE DEF e
  <2> QED
    BY <1>8, Zenon
<1> HIDE DEF sum
<1> DEFINE S == {k \in 0 .. L : sum[k] = e[k]}
<1>10. 0 .. L \subseteq S
  <2>1. 0 \in S
    BY <1>3, <1>9
  <2>2. ASSUME NEW k \in 0 .. L - 1, k \in S PROVE k + 1 \in S
    <3>1. k + 1 \in 0 .. L /\ k + 1 # 0 /\ (k + 1) - 1 = k
      BY <1>3
    <3>2. sum[k + 1] = sum[k] + size(k + 1)
      BY <1>9, <3>1
    <3>3. e[k + 1] = e[k] + size(k + 1)
      <4> HIDE DEF e
      <4> QED
        BY <1>8, <3>1
    <3> HIDE DEF e
    <3> QED
      BY <2>2, <3>1, <3>2, <3>3
  <2>3. L \in Nat /\ \A k \in 0 .. L - 1 : k \in S => k + 1 \in S
    BY <1>3, <2>2
  <2> HIDE DEF S
  <2> QED
    BY <2>1, <2>3, SetInduction
<1>11. sum[L] = e[L]
  BY <1>3, <1>10
<1>12. /\ L = Count => lim.sizes[lim.pktidx] = passed[1].size
       /\ L # Count => lim.sizes[lim.pktidx] = 0
  <2>1. CASE L = Count
    <3>1. Slot(1) = lim.pktidx /\ 1 \in 1 .. L
      BY <2>1, LimParts DEF Slot, L
    <3> QED
      BY <2>1, <3>1 DEF LimInv, L
  <2>2. CASE L # Count
    <3>1. L < Count /\ L \in L .. Count - 1
      BY <1>3, <2>2
    <3> QED
      BY <2>2, <3>1 DEF LimInv, L
  <2> QED
    BY <2>1, <2>2
<1>13. gone = lim.sizes[lim.pktidx]
  BY <1>12 DEF gone
<1>14. e[L] = n + lim.totb - gone
  BY <1>2, <1>3, <1>4, <1>6 DEF gone
<1> QED
  BY <1>1, <1>11, <1>13, <1>14, <1>6, LimParts DEF NewTotal

\* What limit() measures is what it should: the true bytes, and the true time
\* since the oldest of the packets as long as clock_delta reaches.
LEMMA LimitMeasures ==
    ASSUME ClockInv, LimInv, NEW n \in Sizes, Limit(n)
    PROVE  LimitExact'
<1> DEFINE i == lim.pktidx
           L == Len(passed)
           delta == ClockDelta(now, lim.times[i])
           bytes == TrueBytes(n)
           full == lim.times[i] # 0
           div == full /\ delta = 0
           over == full /\ ~div /\ (bytes * NsecsInSec) \div delta > Rate
<1>1. verdict' = [elapsed |-> TrueElapsed, bytes |-> bytes,
                  says |-> IF div THEN "div" ELSE IF over THEN "drop" ELSE "pass"]
  <2>1. n \in Nat
    BY LimitAssumption
  <2>2. NewTotal(n) = bytes
    BY <2>1, TotalExact
  <2> QED
    BY <2>2 DEF Limit
<1>2. now \in Nat /\ L \in 0 .. Count /\ Count \in Nat \ {0}
  BY LimParts DEF ClockInv
<1> DEFINE t == TrueElapsed
           late == t # 0 /\ (bytes * NsecsInSec) \div t > Rate
<1>3. CASE L = Count
  <2>1. Slot(1) = i /\ 1 \in 1 .. L
    BY <1>3, LimParts DEF Slot
  <2>2. lim.times[i] = passed[1].time /\ passed[1].time \in Nat \ {0}
    BY <2>1, LimParts DEF LimInv
  <2>3. passed[1].time <= passed[L].time /\ passed[L].time \in Nat /\ now > passed[L].time
    <3>1. L \in 1 .. L /\ L # 0
      BY <1>2, <1>3
    <3>2. passed[1].time <= passed[L].time /\ passed[L].time \in Nat
      BY <2>1, <3>1, LimParts DEF LimInv
    <3>3. passed # << >>
      BY <3>1, NotEmpty, Zenon
    <3> QED
      BY <3>2, <3>3 DEF Limit
  <2>4. t = now - passed[1].time /\ t \in Nat \ {0}
    <3>1. Oldest = 1
      BY <1>2, <1>3 DEF Oldest
    <3> QED
      BY <1>2, <2>2, <2>3, <3>1 DEF TrueElapsed
  <2>5. t <= Reach => delta = t
    BY <1>2, <2>2, <2>3, <2>4, ClockDeltaExact
  <2> HIDE DEF t, bytes, delta
  <2>6. t <= Reach => ~div /\ (over <=> late)
    BY <2>2, <2>4, <2>5
  <2>7. Reach \in Nat
    BY ReachFacts
  <2> QED
    BY <1>1, <2>4, <2>6, <2>7 DEF LimitExact, t
<1>4. CASE L # Count
  <2>1. lim.times[i] = 0
    <3>1. L < Count /\ L \in L .. Count - 1
      BY <1>2, <1>4
    <3> QED
      BY <3>1 DEF LimInv
  <2>2. t = 0
    <3>1. ~(Oldest >= 1)
      BY <1>2, <1>4 DEF Oldest
    <3> QED
      BY <3>1 DEF TrueElapsed
  <2>3. ~div /\ ~over
    BY <2>1
  <2> HIDE DEF t, bytes, div, over
  <2> QED
    BY <1>1, <2>2, <2>3 DEF LimitExact, t
<1> QED
  BY <1>3, <1>4

\* Time alone does not disturb the limiter.
LEMMA LimUnchanged ==
    ASSUME LimInv, now \in Nat, now' \in Nat, now' >= now, UNCHANGED <<lim, passed>>
    PROVE  LimInv'
<1>1. \A k \in 1 .. Len(passed) : passed[k].time <= now'
  <2> SUFFICES ASSUME NEW k \in 1 .. Len(passed) PROVE passed[k].time <= now'
    OBVIOUS
  <2>1. passed[k].time \in Nat
    BY LimParts
  <2>2. passed[k].time <= now
    BY DEF LimInv
  <2> QED
    BY <2>1, <2>2
<1>2. \A k : Slot(k)' = Slot(k)
  BY DEF Slot
<1>3. \A g : SumsUp(g)' <=> SumsUp(g)
  BY DEF SumsUp
<1> QED
  BY <1>1, <1>2, <1>3 DEF LimInv

\* What limit() does to a packet it lets pass.
LEMMA LimitPasses ==
    ASSUME LimInv, NEW n \in Sizes, Limit(n), ~UNCHANGED <<lim, passed>>
    PROVE  LET i == lim.pktidx
               p == [time |-> now, size |-> n]
           IN  /\ now' = now
               /\ lim' = [times |-> [lim.times EXCEPT ![i] = now],
                          sizes |-> [lim.sizes EXCEPT ![i] = n],
                          totb |-> NewTotal(n), pktidx |-> NextIndex(i)]
               /\ passed' = IF Len(Append(passed, p)) > Count
                            THEN Tail(Append(passed, p)) ELSE Append(passed, p)
               /\ passed # << >> => now > passed[Len(passed)].time
BY DEF Limit

\* A packet that passes while the ring is not full goes into the next free slot.
LEMMA LimitFills ==
    ASSUME ClockInv, LimInv, NEW n \in Sizes, Limit(n), ~UNCHANGED <<lim, passed>>,
           Len(passed) < Count
    PROVE  LimInv'
<1> DEFINE L == Len(passed)
           p == [time |-> now, size |-> n]
<1>1. L \in 0 .. Count - 1 /\ L \in Nat /\ Count \in Nat \ {0} /\ L < Count
  BY LimParts
<1>new. now' = now /\ now \in Nat \ {0} /\ n \in Nat
  <2>1. now' = now
    BY LimitPasses
  <2> QED
    BY <2>1, LimitAssumption DEF ClockInv
<1>ring. /\ lim.times \in [0 .. Count - 1 -> Nat] /\ lim.sizes \in [0 .. Count - 1 -> Nat]
         /\ lim.totb \in Nat
  BY LimParts
<1>index. lim.pktidx = L
  BY DEF LimInv
<1>2. p \in [time : Nat \ {0}, size : Nat] /\ p.time = now /\ p.size = n
  BY <1>new
<1>3. passed \in Seq([time : Nat \ {0}, size : Nat])
  BY DEF LimInv
<1> HIDE DEF p
<1>4. /\ Append(passed, p) \in Seq([time : Nat \ {0}, size : Nat])
      /\ Len(Append(passed, p)) = L + 1
      /\ \A k \in 1 .. L : Append(passed, p)[k] = passed[k]
      /\ Append(passed, p)[L + 1] = p
  BY <1>2, <1>3, AppendFacts
<1>5. passed' = Append(passed, p)
  <2>1. ~(L + 1 > Count)
    BY <1>1
  <2> QED
    BY <1>4, <2>1, LimitPasses DEF p
<1>6. /\ passed' \in Seq([time : Nat \ {0}, size : Nat]) /\ Len(passed') = L + 1
      /\ \A k \in 1 .. L : passed'[k] = passed[k]
      /\ passed'[L + 1] = p
  BY <1>4, <1>5
<1>7. lim.sizes[L] = 0
  <2>1. L \in L .. Count - 1
    BY <1>1
  <2> QED
    BY <1>1, <2>1 DEF LimInv
<1> HIDE DEF L
<1> DEFINE next == IF L + 1 = Count THEN 0 ELSE L + 1
<1>8. /\ NextIndex(L) = next /\ next \in 0 .. Count - 1
  <2>1. CASE L + 1 = Count
    <3>1. (L + 1) % Count = 0
      BY <1>1, <2>1
    <3> QED
      BY <1>1, <2>1, <3>1 DEF NextIndex
  <2>2. CASE L + 1 # Count
    <3>1. L + 1 \in 0 .. Count - 1
      BY <1>1, <2>2
    <3> QED
      BY <1>1, <2>2, <3>1, ModSmall DEF NextIndex
  <2> QED
    BY <2>1, <2>2
<1>9. /\ lim'.times = [lim.times EXCEPT ![L] = now]
      /\ lim'.sizes = [lim.sizes EXCEPT ![L] = n]
      /\ lim'.totb = lim.totb + n /\ lim'.pktidx = next
      /\ lim' \in [times : [0 .. Count - 1 -> Nat], sizes : [0 .. Count - 1 -> Nat],
                   totb : Nat, pktidx : 0 .. Count - 1]
  <2>1. NewTotal(n) = lim.totb + n
    BY <1>new, <1>ring, <1>index, <1>7 DEF NewTotal
  <2>2. lim' = [times |-> [lim.times EXCEPT ![L] = now],
                sizes |-> [lim.sizes EXCEPT ![L] = n],
                totb |-> lim.totb + n, pktidx |-> next]
    BY <1>index, <1>8, <2>1, LimitPasses
  <2> HIDE DEF next
  <2>3. /\ [lim.times EXCEPT ![L] = now] \in [0 .. Count - 1 -> Nat]
        /\ [lim.sizes EXCEPT ![L] = n] \in [0 .. Count - 1 -> Nat]
    BY <1>new, <1>ring
  <2>4. lim.totb + n \in Nat
    BY <1>new, <1>ring
  <2> QED
    BY <1>8, <2>2, <2>3, <2>4
<1>10. \A k \in 1 .. L + 1 : Slot(k)' = k - 1
  <2> SUFFICES ASSUME NEW k \in 1 .. L + 1 PROVE Slot(k)' = k - 1
    OBVIOUS
  <2>1. CASE L + 1 < Count
    BY <1>6, <2>1 DEF Slot
  <2>2. CASE ~(L + 1 < Count)
    <3>1. lim'.pktidx = 0 /\ Len(passed') = Count /\ Count = L + 1
      BY <1>1, <1>6, <1>9, <2>2
    <3>2. k - 1 < Count
      BY <1>1, <3>1
    <3> QED
      BY <1>1, <3>1, <3>2 DEF Slot
  <2> QED
    BY <2>1, <2>2
<1>11. \A k \in 1 .. L : /\ lim.times[k - 1] = passed[k].time
                         /\ lim.sizes[k - 1] = passed[k].size
                         /\ passed[k].time <= now
                         /\ passed[k].time \in Nat
  <2> SUFFICES ASSUME NEW k \in 1 .. Len(passed)
               PROVE  /\ lim.times[k - 1] = passed[k].time
                      /\ lim.sizes[k - 1] = passed[k].size
                      /\ passed[k].time <= now
                      /\ passed[k].time \in Nat
    BY DEF L
  <2>1. Slot(k) = k - 1
    BY DEF Slot
  <2> QED
    BY <2>1, LimParts DEF LimInv
<1>12. \A k \in 1 .. L + 1 : /\ passed'[k].time <= now'
                             /\ lim'.times[Slot(k)'] = passed'[k].time
                             /\ lim'.sizes[Slot(k)'] = passed'[k].size
  <2> SUFFICES ASSUME NEW k \in 1 .. L + 1
               PROVE  /\ passed'[k].time <= now
                      /\ lim'.times[k - 1] = passed'[k].time
                      /\ lim'.sizes[k - 1] = passed'[k].size
    BY <1>new, <1>10
  <2>1. CASE k = L + 1
    <3>1. passed'[k].time = now /\ passed'[k].size = n /\ k - 1 = L
      BY <1>1, <1>2, <1>6, <2>1
    <3>2. lim'.times[L] = now /\ lim'.sizes[L] = n
      BY <1>1, <1>ring, <1>9
    <3> QED
      BY <1>new, <3>1, <3>2
  <2>2. CASE k # L + 1
    <3>1. k \in 1 .. L /\ k - 1 # L /\ k - 1 \in 0 .. Count - 1
      BY <1>1, <2>2
    <3> QED
      <4>1. lim'.times[k - 1] = lim.times[k - 1] /\ lim'.sizes[k - 1] = lim.sizes[k - 1]
        BY <1>ring, <1>9, <3>1
      <4> QED
        BY <1>6, <1>11, <3>1, <4>1
  <2> QED
    BY <2>1, <2>2
<1>13. \A j, k \in 1 .. L + 1 : j <= k => passed'[j].time <= passed'[k].time
  <2> SUFFICES ASSUME NEW j \in 1 .. L + 1, NEW k \in 1 .. L + 1, j <= k
               PROVE  passed'[j].time <= passed'[k].time
    OBVIOUS
  <2>1. CASE k = L + 1
    BY <1>new, <1>2, <1>6, <1>12, <2>1
  <2>2. CASE k # L + 1
    <3>1. j \in 1 .. L /\ k \in 1 .. L
      BY <1>1, <2>2
    <3> QED
      BY <1>6, <3>1 DEF LimInv, L
  <2> QED
    BY <2>1, <2>2
<1>14. L + 1 < Count =>
          /\ lim'.pktidx = L + 1
          /\ \A i \in L + 1 .. Count - 1 : lim'.times[i] = 0 /\ lim'.sizes[i] = 0
  <2> SUFFICES ASSUME L + 1 < Count, NEW i \in L + 1 .. Count - 1
               PROVE  lim'.times[i] = 0 /\ lim'.sizes[i] = 0
    BY <1>1, <1>9
  <2>1. i \in L .. Count - 1 /\ i # L /\ i \in 0 .. Count - 1
    BY <1>1
  <2> QED
    <3>1. lim.times[i] = 0 /\ lim.sizes[i] = 0
      BY <1>1, <2>1 DEF LimInv, L
    <3>2. lim'.times[i] = lim.times[i] /\ lim'.sizes[i] = lim.sizes[i]
      BY <1>ring, <1>9, <2>1
    <3> QED
      BY <3>1, <3>2
<1>15. \E g : SumsUp(g)' /\ lim'.totb = g[L + 1]
  <2>1. PICK g : SumsUp(g) /\ lim.totb = g[L]
    BY DEF LimInv, L
  <2> DEFINE h == [k \in 0 .. L + 1 |-> IF k = L + 1 THEN lim.totb + n ELSE g[k]]
  <2>2. /\ g \in [0 .. L -> Nat] /\ g[0] = 0
        /\ \A k \in 1 .. L : g[k] = g[k - 1] + passed[k].size
        /\ \A j, k \in 0 .. L : j <= k => g[j] <= g[k]
    BY <2>1 DEF SumsUp, L
  <2>3. h \in [0 .. L + 1 -> Nat] /\ h[0] = 0 /\ h[L + 1] = lim'.totb
    <3>1. \A k \in 0 .. L + 1 : k # L + 1 => k \in 0 .. L
      BY <1>1
    <3>2. lim.totb + n \in Nat
      BY <1>new, <1>ring
    <3>3. h \in [0 .. L + 1 -> Nat]
      BY <2>2, <3>1, <3>2
    <3>4. 0 \in 0 .. L + 1 /\ 0 # L + 1 /\ L + 1 \in 0 .. L + 1
      BY <1>1
    <3> QED
      BY <1>9, <2>2, <3>3, <3>4
  <2>4. \A k \in 1 .. L + 1 : h[k] = h[k - 1] + passed'[k].size
    <3> SUFFICES ASSUME NEW k \in 1 .. L + 1 PROVE h[k] = h[k - 1] + passed'[k].size
      OBVIOUS
    <3>1. CASE k = L + 1
      <4>1. k - 1 = L /\ k \in 0 .. L + 1 /\ L \in 0 .. L + 1 /\ L # L + 1
        BY <1>1, <3>1
      <4>2. h[k] = lim.totb + n /\ h[k - 1] = lim.totb
        BY <2>1, <3>1, <4>1
      <4>3. passed'[k].size = n
        BY <1>2, <1>6, <3>1
      <4> QED
        BY <4>2, <4>3
    <3>2. CASE k # L + 1
      <4>1. /\ k \in 1 .. L /\ k \in 0 .. L + 1
            /\ k - 1 # L + 1 /\ k - 1 \in 0 .. L + 1
        BY <1>1, <3>2
      <4>2. h[k] = g[k] /\ h[k - 1] = g[k - 1]
        BY <3>2, <4>1
      <4>3. passed'[k] = passed[k]
        BY <1>6, <4>1
      <4> HIDE DEF h
      <4> QED
        BY <2>2, <4>1, <4>2, <4>3
    <3> QED
      BY <3>1, <3>2
  <2>5. \A j, k \in 0 .. L + 1 : j <= k => h[j] <= h[k]
    <3> SUFFICES ASSUME NEW j \in 0 .. L + 1, NEW k \in 0 .. L + 1, j <= k
                 PROVE  h[j] <= h[k]
      OBVIOUS
    <3>1. CASE k = L + 1 /\ j = L + 1
      BY <1>new, <1>ring, <3>1
    <3>2. CASE k = L + 1 /\ j # L + 1
      <4>1. j \in 0 .. L /\ L \in 0 .. L /\ j <= L
        BY <1>1, <3>2
      <4>2. g[j] <= lim.totb /\ g[j] \in Nat
        BY <2>1, <2>2, <4>1
      <4> QED
        BY <1>new, <1>ring, <3>2, <4>2
    <3>3. CASE k # L + 1
      <4>1. j \in 0 .. L /\ k \in 0 .. L /\ j # L + 1
        BY <1>1, <3>3
      <4> QED
        BY <2>2, <3>3, <4>1
    <3> QED
      BY <3>1, <3>2, <3>3
  <2> HIDE DEF h
  <2>pick. PICK f : f = h
    OBVIOUS
  <2>6. SumsUp(f)'
    BY <1>6, <2>3, <2>4, <2>5, <2>pick DEF SumsUp
  <2>7. lim'.totb = f[L + 1]
    BY <2>3, <2>pick
  <2> QED
    BY <2>6, <2>7, Zenon
<1>16. Len(passed') <= Count
  BY <1>1, <1>6
<1> QED
  BY <1>6, <1>9, <1>12, <1>13, <1>14, <1>15, <1>16 DEF LimInv

\* A packet that passes while the ring is full takes the place of the oldest.
LEMMA LimitSlides ==
    ASSUME ClockInv, LimInv, NEW n \in Sizes, Limit(n), ~UNCHANGED <<lim, passed>>,
           Len(passed) = Count
    PROVE  LimInv'
<1> DEFINE L == Len(passed)
           p == [time |-> now, size |-> n]
           i == lim.pktidx
<1>1. L = Count /\ L \in Nat \ {0} /\ i \in 0 .. L - 1
  BY LimParts
<1>new. now' = now /\ now \in Nat \ {0} /\ n \in Nat
  <2>1. now' = now
    BY LimitPasses
  <2> QED
    BY <2>1, LimitAssumption DEF ClockInv
<1>ring. /\ lim.times \in [0 .. Count - 1 -> Nat] /\ lim.sizes \in [0 .. Count - 1 -> Nat]
         /\ lim.totb \in Nat
  BY LimParts
<1>2. p \in [time : Nat \ {0}, size : Nat] /\ p.time = now /\ p.size = n
  BY <1>new
<1>3. passed \in Seq([time : Nat \ {0}, size : Nat])
  BY DEF LimInv
<1> HIDE DEF p
<1>4. passed' = Tail(Append(passed, p))
  <2>1. Len(Append(passed, p)) = L + 1
    <3> DEFINE R == [time : Nat \ {0}, size : Nat]
    <3>1. passed \in Seq(R) /\ p \in R
      BY <1>2, <1>3
    <3> HIDE DEF R
    <3> QED
      BY <3>1, AppendFacts
  <2>2. L + 1 > Count
    BY <1>1
  <2> QED
    BY <2>1, <2>2, LimitPasses DEF p
<1>5. /\ passed' \in Seq([time : Nat \ {0}, size : Nat]) /\ Len(passed') = L
      /\ \A k \in 1 .. L - 1 : passed'[k] = passed[k + 1]
      /\ passed'[L] = p
  <2>1. Len(passed) # 0
    BY <1>1
  <2> QED
    BY <1>2, <1>3, <1>4, <2>1, SlideFacts, SMTT(30)
\* The slots move on by one with the index.
<1>sum. PICK g : SumsUp(g) /\ lim.totb = g[L]
  BY DEF LimInv
<1>sums. /\ g \in [0 .. L -> Nat] /\ g[0] = 0
         /\ \A k \in 1 .. L : g[k] = g[k - 1] + passed[k].size
         /\ \A j, k \in 0 .. L : j <= k => g[j] <= g[k]
  BY <1>sum DEF SumsUp
<1> DEFINE slot(k) == IF i + k - 1 < Count THEN i + k - 1 ELSE i + k - 1 - Count
           next == IF i + 1 = Count THEN 0 ELSE i + 1
<1>6. \A k \in 1 .. L : Slot(k) = slot(k)
  BY <1>1 DEF Slot
<1>held. \A k \in 1 .. L : /\ lim.times[slot(k)] = passed[k].time
                        /\ lim.sizes[slot(k)] = passed[k].size
                        /\ passed[k].time <= now
                        /\ passed[k].time \in Nat /\ passed[k].size \in Nat
  BY <1>6, LimParts DEF LimInv
<1> HIDE DEF L, i
<1>7. NextIndex(i) = next /\ next \in 0 .. Count - 1
  <2>1. CASE i + 1 = Count
    <3>1. (i + 1) % Count = 0
      BY <1>1, <2>1
    <3> QED
      BY <1>1, <2>1, <3>1 DEF NextIndex
  <2>2. CASE i + 1 # Count
    <3>1. i + 1 \in 0 .. Count - 1
      BY <1>1, <2>2
    <3> QED
      BY <1>1, <2>2, <3>1, ModSmall DEF NextIndex
  <2> QED
    BY <2>1, <2>2
<1>10. lim.sizes[i] = g[1] /\ g[1] \in Nat /\ g[1] <= g[L]
  <2>1. 1 \in 1 .. L /\ slot(1) = i /\ 1 \in 0 .. L /\ L \in 0 .. L /\ 1 <= L /\ 1 - 1 = 0
    BY <1>1
  <2>2. lim.sizes[slot(1)] = passed[1].size /\ passed[1].size \in Nat
    BY <1>held, <2>1
  <2>4. g[1] = 0 + passed[1].size
    BY <1>sums, <2>1
  <2> QED
    BY <1>sums, <2>1, <2>2, <2>4
<1>11. /\ lim'.times = [lim.times EXCEPT ![i] = now]
       /\ lim'.sizes = [lim.sizes EXCEPT ![i] = n]
       /\ lim'.totb = g[L] + n - g[1] /\ lim'.pktidx = next
       /\ lim' \in [times : [0 .. Count - 1 -> Nat], sizes : [0 .. Count - 1 -> Nat],
                    totb : Nat, pktidx : 0 .. Count - 1]
  <2>1. NewTotal(n) = g[L] + n - g[1]
    BY <1>sum, <1>10 DEF NewTotal, i
  <2>2. lim' = [times |-> [lim.times EXCEPT ![i] = now],
                sizes |-> [lim.sizes EXCEPT ![i] = n],
                totb |-> g[L] + n - g[1], pktidx |-> next]
    BY <1>7, <2>1, LimitPasses DEF i
  <2>3. g[L] + n - g[1] \in Nat
    BY <1>new, <1>ring, <1>sum, <1>10
  <2> HIDE DEF next
  <2>4. /\ [lim.times EXCEPT ![i] = now] \in [0 .. Count - 1 -> Nat]
        /\ [lim.sizes EXCEPT ![i] = n] \in [0 .. Count - 1 -> Nat]
    BY <1>new, <1>ring
  <2> QED
    BY <1>7, <2>2, <2>3, <2>4
<1>12. \A k \in 1 .. L : Slot(k)' = IF k = L THEN i ELSE slot(k + 1)
  <2> SUFFICES ASSUME NEW k \in 1 .. L
               PROVE  Slot(k)' = IF k = L THEN i ELSE slot(k + 1)
    OBVIOUS
  <2>1. Slot(k)' = IF next + k - 1 < Count THEN next + k - 1 ELSE next + k - 1 - Count
    <3>1. ~(Len(passed') < Count)
      BY <1>1, <1>5
    <3> HIDE DEF next
    <3> QED
      BY <1>11, <3>1 DEF Slot
  <2> QED
    BY <1>1, <2>1
<1>13. \A k \in 1 .. L : slot(k) \in 0 .. Count - 1 /\ (k # 1 => slot(k) # i)
  <2> SUFFICES ASSUME NEW k \in 1 .. L
               PROVE  slot(k) \in 0 .. Count - 1 /\ (k # 1 => slot(k) # i)
    OBVIOUS
  <2> QED
    BY <1>1
<1> HIDE DEF slot
<1>14. \A k \in 1 .. L : /\ passed'[k].time <= now'
                         /\ lim'.times[Slot(k)'] = passed'[k].time
                         /\ lim'.sizes[Slot(k)'] = passed'[k].size
  <2> SUFFICES ASSUME NEW k \in 1 .. L
               PROVE  /\ passed'[k].time <= now
                      /\ lim'.times[Slot(k)'] = passed'[k].time
                      /\ lim'.sizes[Slot(k)'] = passed'[k].size
    BY <1>new
  <2>1. CASE k = L
    <3>1. Slot(k)' = i
      BY <1>12, <2>1
    <3>2. lim'.times[i] = now /\ lim'.sizes[i] = n
      BY <1>1, <1>ring, <1>11
    <3> QED
      BY <1>new, <1>2, <1>5, <2>1, <3>1, <3>2
  <2>2. CASE k # L
    <3>1. k \in 1 .. L - 1 /\ k + 1 \in 1 .. L /\ k + 1 # 1
      BY <1>1, <2>2
    <3>2. Slot(k)' = slot(k + 1) /\ passed'[k] = passed[k + 1]
      BY <1>5, <1>12, <2>2, <3>1
    <3>3. slot(k + 1) # i /\ slot(k + 1) \in 0 .. Count - 1
      BY <1>13, <3>1
    <3>4. /\ lim.times[slot(k + 1)] = passed[k + 1].time
          /\ lim.sizes[slot(k + 1)] = passed[k + 1].size
          /\ passed[k + 1].time <= now
      BY <1>held, <3>1
    <3>5. /\ lim'.times[slot(k + 1)] = lim.times[slot(k + 1)]
          /\ lim'.sizes[slot(k + 1)] = lim.sizes[slot(k + 1)]
      BY <1>ring, <1>11, <3>3
    <3> QED
      BY <3>2, <3>4, <3>5
  <2> QED
    BY <2>1, <2>2
<1>15. \A j, k \in 1 .. L : j <= k => passed'[j].time <= passed'[k].time
  <2> SUFFICES ASSUME NEW j \in 1 .. L, NEW k \in 1 .. L, j <= k
               PROVE  passed'[j].time <= passed'[k].time
    OBVIOUS
  <2>1. CASE k = L
    BY <1>new, <1>2, <1>5, <1>14, <2>1
  <2>2. CASE k # L
    <3>1. /\ j \in 1 .. L - 1 /\ k \in 1 .. L - 1
          /\ j + 1 \in 1 .. L /\ k + 1 \in 1 .. L /\ j + 1 <= k + 1
      BY <1>1, <2>2
    <3>2. passed[j + 1].time <= passed[k + 1].time
      BY <3>1 DEF LimInv, L
    <3> QED
      BY <1>5, <3>1, <3>2
  <2> QED
    BY <2>1, <2>2
<1>16. \E h : SumsUp(h)' /\ lim'.totb = h[L]
  <2> DEFINE h == [k \in 0 .. L |-> IF k = L THEN g[L] + n - g[1] ELSE g[k + 1] - g[1]]
  <2>1. \A k \in 0 .. L - 1 :
           /\ k + 1 \in 0 .. L /\ g[k + 1] \in Nat /\ g[1] <= g[k + 1] /\ g[k + 1] <= g[L]
    <3> SUFFICES ASSUME NEW k \in 0 .. L - 1
                 PROVE  /\ k + 1 \in 0 .. L /\ g[k + 1] \in Nat /\ g[1] <= g[k + 1]
                        /\ g[k + 1] <= g[L]
      OBVIOUS
    <3>1. k + 1 \in 0 .. L /\ 1 \in 0 .. L /\ L \in 0 .. L /\ 1 <= k + 1 /\ k + 1 <= L
      BY <1>1
    <3> QED
      BY <1>sums, <3>1
  <2>2. /\ h[L] = g[L] + n - g[1]
        /\ \A k \in 0 .. L - 1 : h[k] = g[k + 1] - g[1]
    BY <1>1
  <2>3. g[L] \in Nat /\ g[1] \in Nat /\ n \in Nat /\ g[1] <= g[L]
    BY <1>new, <1>ring, <1>sum, <1>10
  <2>4. h \in [0 .. L -> Nat]
    <3> SUFFICES ASSUME NEW k \in 0 .. L
                 PROVE  (IF k = L THEN g[L] + n - g[1] ELSE g[k + 1] - g[1]) \in Nat
      OBVIOUS
    <3>1. CASE k = L
      BY <2>3, <3>1
    <3>2. CASE k # L
      <4>1. k \in 0 .. L - 1
        BY <1>1, <3>2
      <4> QED
        BY <2>1, <2>3, <3>2, <4>1
    <3> QED
      BY <3>1, <3>2
  <2> HIDE DEF h
  <2>5. h[0] = 0
    <3>1. 0 \in 0 .. L - 1 /\ 0 + 1 = 1
      BY <1>1
    <3> QED
      BY <2>2, <2>3, <3>1
  <2>6. \A k \in 1 .. L : h[k] = h[k - 1] + passed'[k].size
    <3> SUFFICES ASSUME NEW k \in 1 .. L PROVE h[k] = h[k - 1] + passed'[k].size
      OBVIOUS
    <3>0. k - 1 \in 0 .. L - 1 /\ (k - 1) + 1 = k
      BY <1>1
    <3>1. h[k - 1] = g[k] - g[1] /\ g[k] \in Nat
      BY <2>1, <2>2, <3>0
    <3>2. CASE k = L
      <4>1. passed'[k].size = n
        BY <1>2, <1>5, <3>2
      <4> QED
        BY <2>2, <2>3, <3>1, <3>2, <4>1
    <3>3. CASE k # L
      <4>1. k \in 1 .. L - 1 /\ k \in 0 .. L - 1 /\ k + 1 \in 1 .. L /\ (k + 1) - 1 = k
        BY <1>1, <3>3
      <4>2. h[k] = g[k + 1] - g[1] /\ g[k + 1] = g[k] + passed[k + 1].size
        BY <1>sums, <2>2, <4>1
      <4>3. passed'[k].size = passed[k + 1].size /\ passed[k + 1].size \in Nat
        BY <1>5, <1>held, <4>1
      <4> QED
        BY <2>3, <3>1, <4>2, <4>3
    <3> QED
      BY <3>2, <3>3
  <2>7. \A j, k \in 0 .. L : j <= k => h[j] <= h[k]
    <3> SUFFICES ASSUME NEW j \in 0 .. L, NEW k \in 0 .. L, j <= k PROVE h[j] <= h[k]
      OBVIOUS
    <3>1. CASE j = L
      <4>1. k = L
        BY <1>1, <3>1
      <4> QED
        BY <2>2, <2>3, <3>1, <4>1
    <3>2. CASE j # L /\ k = L
      <4>1. j \in 0 .. L - 1
        BY <1>1, <3>2
      <4>2. h[j] = g[j + 1] - g[1] /\ g[j + 1] \in Nat /\ g[j + 1] <= g[L]
        BY <2>1, <2>2, <4>1
      <4> QED
        BY <2>2, <2>3, <3>2, <4>2
    <3>3. CASE j # L /\ k # L
      <4>1. /\ j \in 0 .. L - 1 /\ k \in 0 .. L - 1
            /\ j + 1 \in 0 .. L /\ k + 1 \in 0 .. L /\ j + 1 <= k + 1
        BY <1>1, <3>3
      <4>2. g[j + 1] <= g[k + 1] /\ g[j + 1] \in Nat /\ g[k + 1] \in Nat
        BY <1>sums, <4>1
      <4> QED
        BY <2>2, <2>3, <4>1, <4>2
    <3> QED
      BY <3>1, <3>2, <3>3
  <2>pick. PICK f : f = h
    OBVIOUS
  <2>8. SumsUp(f)'
    BY <1>5, <2>4, <2>5, <2>6, <2>7, <2>pick DEF SumsUp
  <2>9. lim'.totb = f[L]
    BY <1>11, <2>2, <2>pick
  <2> QED
    BY <2>8, <2>9, Zenon
<1>17. Len(passed') = L /\ L <= Count /\ ~(L < Count)
  BY <1>1, <1>5
<1> QED
  BY <1>5, <1>11, <1>14, <1>15, <1>16, <1>17 DEF LimInv

-----------------------------------------------------------------------------
(* The whole.                                                                *)

LEMMA InitInv == Init => IInv
<1> SUFFICES ASSUME Init PROVE IInv
  OBVIOUS
<1>1. PICK i \in Ivals : pacer = Idle(now, i)
  BY DEF Init
<1>2. /\ NsecsInSec \in Nat \ {0} /\ MaxTime \in Nat /\ NsecsInSec <= MaxTime
      /\ Period \in 1 .. NsecsInSec /\ Ivals \subseteq 1 .. NsecsInSec
      /\ Count \in Nat \ {0}
  BY ClockConstants, LimitAssumption
<1>3. ClockInv /\ now \in Nat \ {0}
  BY <1>2 DEF Init, ClockInv
<1>4. TimerInv /\ TimerExact
  <2>1. timer = [ts |-> now, last |-> now, fired |-> FALSE, at |-> now, since |-> 0,
                 overdue |-> 0]
    BY DEF Init
  <2> QED
    BY <1>2, <1>3, <2>1 DEF TimerInv, TimerExact
<1>5. PacerInv
  <2>1. Timespec(0) \in [sec : Int, nsec : Int]
    <3>1. Timespec(0).sec \in Nat /\ Timespec(0).nsec \in 0 .. NsecsInSec - 1
      BY TimespecParts
    <3> QED
      BY <1>2, <3>1 DEF Timespec
  <2>2. /\ pacer \in [timestamp : Nat, ival : Ivals, pc : {"out", "in", "sleep"},
                      loaded : Ivals \cup {0}, expire : [sec : Int, nsec : Int],
                      ns : [sec : Int, nsec : Int], wake : Int]
        /\ pacer.timestamp = now /\ pacer.pc = "out"
    BY <1>1, <1>3, <2>1 DEF Idle
  <2>3. sends \in Seq(Nat) /\ Len(sends) = 1 /\ sends[1] = now
    BY <1>3 DEF Init
  <2> QED
    BY <1>3, <2>2, <2>3 DEF PacerInv, SleepExact
<1>6. LimInv
  <2>1. /\ lim = [times |-> [i2 \in 0 .. Count - 1 |-> 0],
                  sizes |-> [i2 \in 0 .. Count - 1 |-> 0], totb |-> 0, pktidx |-> 0]
        /\ passed = << >>
    BY DEF Init
  <2>2. passed \in Seq([time : Nat \ {0}, size : Nat]) /\ Len(passed) = 0
    BY <2>1, EmptySeq
  <2>3. SumsUp([k \in 0 .. 0 |-> 0])
    BY <2>2 DEF SumsUp
  <2>4. \E g : SumsUp(g) /\ lim.totb = g[Len(passed)]
    BY <2>1, <2>2, <2>3
  <2>5. lim \in [times : [0 .. Count - 1 -> Nat], sizes : [0 .. Count - 1 -> Nat],
                 totb : Nat, pktidx : 0 .. Count - 1]
    BY <1>2, <2>1
  <2> QED
    BY <1>2, <2>1, <2>2, <2>4, <2>5 DEF LimInv
<1>7. LimitExact
  BY DEF Init, None, LimitExact
<1> QED
  BY <1>3, <1>4, <1>5, <1>6, <1>7 DEF IInv

LEMMA StepInv == IInv /\ [Next]_vars => IInv'
<1> SUFFICES ASSUME IInv, [Next]_vars PROVE IInv'
  OBVIOUS
<1>1. ClockInv /\ TimerInv /\ TimerExact /\ PacerInv /\ LimInv /\ LimitExact
  BY DEF IInv
<1>2. now \in Nat /\ now \in 1 .. MaxTime /\ MaxTime \in Nat
  BY <1>1, ClockConstants DEF ClockInv
\* A user that does not run is not disturbed by a clock that goes on.
<1>3. ASSUME now' \in Nat, now' >= now, timer' = timer PROVE TimerInv' /\ TimerExact'
  BY <1>1, <1>2, <1>3 DEF TimerInv, TimerExact
<1>4. ASSUME now' \in Nat, now' >= now, pacer' = pacer, sends' = sends PROVE PacerInv'
  BY <1>1, <1>2, <1>4 DEF PacerInv, SleepExact
<1>5. ASSUME now' \in Nat, now' >= now, UNCHANGED <<lim, passed, verdict>>
      PROVE  LimInv' /\ LimitExact'
  BY <1>1, <1>2, <1>5, LimUnchanged DEF LimitExact
<1>6. ASSUME now' = now PROVE ClockInv' /\ now' \in Nat /\ now' >= now
  BY <1>1, <1>2, <1>6 DEF ClockInv
<1>7. CASE Tick
  <2>1. now' \in 1 .. MaxTime /\ now' \in Nat /\ now' >= now
    BY <1>2, <1>7 DEF Tick
  <2> QED
    BY <1>3, <1>4, <1>5, <1>7, <2>1 DEF Tick, ClockInv, IInv
<1>8. CASE StCheck
  BY <1>1, <1>4, <1>5, <1>6, <1>8, StCheckInv DEF StCheck, IInv
<1>9. CASE ChangeRate \/ WaitCall \/ WaitOver \/ WaitSleep \/ WaitWake
  <2>1. now' = now /\ timer' = timer /\ UNCHANGED <<lim, passed, verdict>>
    BY <1>9 DEF ChangeRate, WaitCall, WaitOver, WaitSleep, WaitWake
  <2> QED
    BY <1>1, <1>3, <1>5, <1>6, <1>9, <2>1, PacerStep DEF IInv
<1>10. ASSUME NEW n \in Sizes, Limit(n) PROVE IInv'
  <2>1. now' = now /\ timer' = timer /\ pacer' = pacer /\ sends' = sends
    BY <1>10 DEF Limit
  <2>2. LimitExact'
    BY <1>1, <1>10, LimitMeasures
  <2>3. LimInv'
    <3>1. CASE UNCHANGED <<lim, passed>>
      BY <1>1, <1>2, <1>6, <2>1, <3>1, LimUnchanged
    <3>2. CASE ~UNCHANGED <<lim, passed>> /\ Len(passed) < Count
      BY <1>1, <1>10, <3>2, LimitFills
    <3>3. CASE ~UNCHANGED <<lim, passed>> /\ Len(passed) = Count
      BY <1>1, <1>10, <3>3, LimitSlides
    <3>4. Len(passed) < Count \/ Len(passed) = Count
      BY <1>1, LimParts
    <3> QED
      BY <3>1, <3>2, <3>3, <3>4
  <2> QED
    BY <1>3, <1>4, <1>6, <2>1, <2>2, <2>3 DEF IInv
<1>11. CASE UNCHANGED vars
  BY <1>3, <1>4, <1>5, <1>6, <1>11 DEF vars, IInv
<1> QED
  BY <1>7, <1>8, <1>9, <1>10, <1>11 DEF Next

LEMMA Invariance == Spec => []IInv
BY InitInv, StepInv, PTL DEF Spec

\* The clock, the indices and the totals of util.c stay in their ranges: the ring
\* index of limit() inside its arrays, its total never below zero.
THEOREM TypeCorrect == Spec => []TypeOK
<1>1. IInv => TypeOK
  <2> SUFFICES ASSUME IInv PROVE TypeOK
    OBVIOUS
  <2>1. ClockInv /\ TimerInv /\ PacerInv /\ LimInv
    BY DEF IInv
  <2>2. /\ timer.ts \in 1 .. now /\ timer.at \in 1 .. now /\ timer.overdue \in 0 .. now
        /\ now \in 1 .. MaxTime
    BY <2>1, ClockConstants DEF TimerInv, ClockInv
  <2>3. /\ pacer.timestamp \in 1 .. now /\ pacer.ival \in Ivals
        /\ pacer.loaded \in Ivals \cup {0} /\ pacer.pc \in {"out", "in", "sleep"}
    BY <2>1, <2>2 DEF PacerInv
  <2>4. lim.pktidx \in 0 .. Count - 1 /\ lim.totb \in Nat /\ Len(passed) <= Count
    BY <2>1, LimParts
  <2> QED
    BY <2>2, <2>3, <2>4 DEF TypeOK
<1> QED
  BY <1>1, Invariance, PTL

\* st_check never fires before its interval is over, and fires when it is polled
\* after it, unless clock_delta has wrapped since.
THEOREM TimerIsExact == Spec => []TimerExact
<1>1. IInv => TimerExact
  BY DEF IInv
<1> QED
  BY <1>1, Invariance, PTL

\* After a wrap, st_check fires within an interval if it is polled every second.
THEOREM OverdueTimerFires == Spec => []OverdueFires
<1>1. IInv => OverdueFires
  <2> SUFFICES ASSUME IInv, timer.overdue # 0 PROVE timer.at - timer.overdue < Period
    BY DEF OverdueFires
  <2>1. /\ timer.at \in Nat /\ timer.overdue \in Nat /\ timer.ts \in Nat
        /\ timer.ts <= timer.at
        /\ timer.at - timer.overdue <= ClockDelta(timer.at, timer.ts)
        /\ ClockDelta(timer.at, timer.ts) < Period
    BY DEF IInv, TimerInv
  <2>2. ClockDelta(timer.at, timer.ts) \in Nat
    BY <2>1, ClockDeltaNat
  <2>3. Period \in Int
    BY ClockConstants
  <2> QED
    BY <2>1, <2>2, <2>3
<1> QED
  BY <1>1, Invariance, PTL

\* periodic_wait sleeps exactly to the end of its interval, for a time that
\* nanosleep accepts, although an expiry may have a fraction of a whole second.
THEOREM SleepIsExact == Spec => []SleepExact
<1>1. IInv => SleepExact
  BY DEF IInv, PacerInv
<1> QED
  BY <1>1, Invariance, PTL

\* write_tfs_pkts never sends faster than the shortest interval it was set to,
\* however late it was before.
THEOREM NeverBursts == Spec => []NoBurst
<1>1. IInv => NoBurst
  <2> SUFFICES ASSUME IInv PROVE NoBurst
    OBVIOUS
  <2>1. /\ sends \in Seq(Nat) /\ Len(sends) \in 1 .. 3
        /\ \A i \in 1 .. Len(sends) - 1 : sends[i + 1] - sends[i] >= Shortest
        /\ pacer.ival \in Ivals
    BY DEF IInv, PacerInv
  <2>2. Shortest \in Nat
    <3>1. Shortest \in Ivals
      BY <2>1, ShortestFacts
    <3> QED
      BY <3>1, ClockConstants
  <2>3. \A i \in 1 .. Len(sends) : sends[i] \in Nat
    BY <2>1, ElementOfSeq
  <2>4. NoBurst <=> sends[Len(sends)] - sends[1] >= (Len(sends) - 1) * Shortest
    BY Zenon DEF NoBurst, Shortest
  <2>5. CASE Len(sends) = 1
    BY <2>2, <2>3, <2>4, <2>5
  <2>6. CASE Len(sends) = 2
    <3>1. sends[2] - sends[1] >= Shortest
      BY <2>1, <2>6
    <3> QED
      BY <2>2, <2>3, <2>4, <2>6, <3>1
  <2>7. CASE Len(sends) = 3
    <3>1. sends[2] - sends[1] >= Shortest /\ sends[3] - sends[2] >= Shortest
      BY <2>1, <2>7
    <3>2. sends[1] \in Nat /\ sends[2] \in Nat /\ sends[3] \in Nat
      BY <2>3, <2>7
    <3> QED
      BY <2>2, <2>4, <2>7, <3>1, <3>2
  <2> QED
    BY <2>1, <2>5, <2>6, <2>7
<1> QED
  BY <1>1, Invariance, PTL

\* limit() lets a packet pass if and only if the bytes of the last Count packets
\* are within the rate over the time since the oldest of them, and never divides
\* by zero, as long as that time is within the reach of clock_delta.
THEOREM LimiterIsExact == Spec => []LimitExact
<1>1. IInv => LimitExact
  BY DEF IInv
<1> QED
  BY <1>1, Invariance, PTL
=============================================================================
