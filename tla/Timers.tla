------------------------------- MODULE Timers -------------------------------
(* The clock arithmetic of util.c and its three users: the ACK timer that    *)
(* read_tfs_pkts polls (st_check), the pacer of write_tfs_pkts               *)
(* (periodic_wait) and the rate limiter of read_tfs_pkts (limit).            *)
(*                                                                           *)
(* They share nothing but the clock, so a behaviour is about one of them:    *)
(* `user` says which.  Time is counted in clock units; a struct timespec is  *)
(* the record of whole seconds and the rest.  A caller does more than a      *)
(* clock unit of work between two calls.                                     *)
EXTENDS Naturals, Sequences

CONSTANTS NsecsInSec,  \* clock units in a second: 10^9
          UintMod,     \* uint arithmetic is modulo this: 2^32
          Uint64Mod,   \* uint64_t arithmetic is modulo this: 2^64
          Period,      \* the ACK timer's interval, at most a second
          Ivals,       \* intervals the pacer is set to, at most a second
          Rate,        \* bytes per second the limiter lets pass
          Count,       \* packets the limiter remembers: 10
          Sizes,       \* sizes of outer packets
          MaxTime      \* where the clock stops

ASSUME ClockAssumption ==
    /\ NsecsInSec \in Nat \ {0} /\ UintMod \in Nat \ {0} /\ Uint64Mod \in Nat
    /\ MaxTime \in Nat
    /\ 3 * NsecsInSec < UintMod /\ UintMod + MaxTime < Uint64Mod
    /\ NsecsInSec <= MaxTime
    /\ Period \in 1 .. NsecsInSec
    /\ Ivals \subseteq 1 .. NsecsInSec
ASSUME LimitAssumption ==
    /\ Rate \in Nat \ {0} /\ Count \in Nat \ {0}
    /\ Sizes \subseteq Nat \ {0}

VARIABLES
    now,      \* CLOCK_MONOTONIC
    user,     \* "timer", "pacer" or "limiter"
    timer,    \* stimer_t: ts; the other fields are history, see Observed
    pacer,    \* struct periodic: timestamp, ival; periodic_wait: pc, the ival it
              \* loaded, expire, the sleep it asked for and when that ends
    sends,    \* when periodic_wait returned, the last three times (history)
    lim,      \* struct ratelimit: times, sizes, totb, pktidx
    passed,   \* the last packets limit() let pass, newest last (history)
    verdict   \* what limit() said last, of which bytes over what time (history)

vars == <<now, user, timer, pacer, sends, lim, passed, verdict>>

Timespec(t) == [sec |-> t \div NsecsInSec, nsec |-> t % NsecsInSec]

\* Variant of ClockDelta that keeps the result in a type that is too narrow.
ClockDeltaNarrow(recent, past) == (recent - past) % (Period + 1)

\* clock_delta: the seconds are multiplied in 32 bits.
ClockDelta(recent, past) ==
    LET r == Timespec(recent)
        p == Timespec(past)
        secs == ((r.sec - p.sec) * NsecsInSec) % UintMod
    IN  (Uint64Mod + r.nsec + secs - p.nsec) % Uint64Mod

\* The longest time clock_delta gets right: whole seconds that fit into a uint.
Reach == ((UintMod - 1) \div NsecsInSec) * NsecsInSec

\* The pacer between two calls of periodic_wait.
Idle(t, i) == [timestamp |-> t, ival |-> i, pc |-> "out", loaded |-> 0,
               expire |-> Timespec(0), ns |-> Timespec(0), wake |-> 0]

None == [elapsed |-> 0, bytes |-> 0, says |-> "none"]

\* st_reset, periodic_init and new_ratelimit.
Init ==
    /\ now \in 1 .. NsecsInSec
    /\ user \in {"timer", "pacer", "limiter"}
    /\ timer = [ts |-> now, last |-> now, fired |-> FALSE, at |-> now, since |-> 0,
                overdue |-> 0]
    /\ \E i \in Ivals : pacer = Idle(now, i)
    /\ sends = <<now>>
    /\ lim = [times |-> [i \in 0 .. Count - 1 |-> 0],
              sizes |-> [i \in 0 .. Count - 1 |-> 0], totb |-> 0, pktidx |-> 0]
    /\ passed = << >>
    /\ verdict = None

Tick ==
    /\ now < MaxTime
    /\ now' = now + 1
    /\ UNCHANGED <<user, timer, pacer, sends, lim, passed, verdict>>

-----------------------------------------------------------------------------
\* The ACK timer.

\* Has the timer expired?
Fires == ClockDelta(now, timer.ts) >= Period

\* History of a check: its result and time, the true time since the timer last
\* fired, and when the polls, no more than a second apart, first missed it.
Observed ==
    LET missed == ~Fires /\ now - timer.last >= Period
        often == now - timer.at <= NsecsInSec
    IN  [timer EXCEPT !.fired = Fires, !.at = now, !.since = now - timer.last,
                      !.last = IF Fires THEN now ELSE @,
                      !.overdue = IF ~missed THEN 0
                                  ELSE IF @ # 0 /\ often THEN @ ELSE now]

\* Variant of StCheck that does not reset the timer.
StCheckNoReset ==
    /\ user = "timer" /\ now > timer.at
    /\ timer' = Observed
    /\ UNCHANGED <<now, user, pacer, sends, lim, passed, verdict>>

\* st_check: a timer that has expired is reset to the current time.
StCheck ==
    /\ user = "timer" /\ now > timer.at
    /\ timer' = [Observed EXCEPT !.ts = IF Fires THEN now ELSE @]
    /\ UNCHANGED <<now, user, pacer, sends, lim, passed, verdict>>

-----------------------------------------------------------------------------
\* The pacer.

\* periodic_change_rate, called by the thread that receives reports.
ChangeRate ==
    /\ user = "pacer"
    /\ \E i \in Ivals : pacer' = [pacer EXCEPT !.ival = i]
    /\ UNCHANGED <<now, user, timer, sends, lim, passed, verdict>>

\* When the interval that began at start is over.
Expire(start, ival) ==
    LET nsec == start.nsec + ival
    IN  IF nsec > NsecsInSec
        THEN [sec |-> start.sec + 1, nsec |-> nsec - NsecsInSec]
        ELSE [start EXCEPT !.nsec = nsec]

\* periodic_wait is called and loads the interval.
WaitCall ==
    /\ user = "pacer" /\ pacer.pc = "out"
    /\ pacer' = [pacer EXCEPT !.pc = "in", !.loaded = pacer.ival,
                    !.expire = Expire(Timespec(pacer.timestamp), pacer.ival)]
    /\ UNCHANGED <<now, user, timer, sends, lim, passed, verdict>>

\* periodic_is_expired
IsExpired(t, expire) ==
    t.sec > expire.sec \/ (t.sec = expire.sec /\ t.nsec > expire.nsec)

\* Variant of Remaining that borrows a second without giving it back.
RemainingNoBorrow(t, expire) ==
    IF expire.nsec >= t.nsec
    THEN [sec |-> expire.sec - t.sec, nsec |-> expire.nsec - t.nsec]
    ELSE [sec |-> expire.sec - t.sec, nsec |-> NsecsInSec + expire.nsec - t.nsec]

\* How long to sleep from t to expire.
Remaining(t, expire) ==
    IF expire.nsec >= t.nsec
    THEN [sec |-> expire.sec - t.sec, nsec |-> expire.nsec - t.nsec]
    ELSE [sec |-> expire.sec - t.sec - 1, nsec |-> NsecsInSec + expire.nsec - t.nsec]

\* Variant of Return that starts the next interval where the last one ended.
ReturnCatchUp == Idle(pacer.timestamp + pacer.loaded, pacer.ival)

\* The next interval starts now, however late that is.
Return == Idle(now, pacer.ival)

Sent ==
    LET s == Append(sends, now)
    IN  sends' = IF Len(s) > 3 THEN Tail(s) ELSE s

\* The interval is over already: return at once.
WaitOver ==
    /\ user = "pacer" /\ pacer.pc = "in" /\ now > pacer.timestamp
    /\ IsExpired(Timespec(now), pacer.expire)
    /\ pacer' = Return
    /\ Sent
    /\ UNCHANGED <<now, user, timer, lim, passed, verdict>>

WaitSleep ==
    LET ns == Remaining(Timespec(now), pacer.expire)
    IN  /\ user = "pacer" /\ pacer.pc = "in" /\ now > pacer.timestamp
        /\ ~IsExpired(Timespec(now), pacer.expire)
        /\ pacer' = [pacer EXCEPT !.pc = "sleep", !.ns = ns,
                                  !.wake = now + ns.sec * NsecsInSec + ns.nsec]
        /\ UNCHANGED <<now, user, timer, sends, lim, passed, verdict>>

\* nanosleep accepts a fraction of less than a second only; interrupted, it
\* leaves the rest of the time in ns, and the loop sleeps on.
Valid(ns) == ns.nsec < NsecsInSec

\* nanosleep returns: the time is up.
WaitWake ==
    /\ user = "pacer" /\ pacer.pc = "sleep"
    /\ Valid(pacer.ns) /\ now >= pacer.wake
    /\ pacer' = Return
    /\ Sent
    /\ UNCHANGED <<now, user, timer, lim, passed, verdict>>

-----------------------------------------------------------------------------
\* The rate limiter.

\* Variant of NewTotal that counts the oldest packet for ever.
NewTotalKeepOldest(n) == lim.totb + n

\* The bytes of the remembered packets, with a new one in place of the oldest.
NewTotal(n) == lim.totb + n - lim.sizes[lim.pktidx]

\* History: the bytes and the time that limit() is about, from `passed`.
Oldest == Len(passed) + 1 - Count
TrueBytes(n) ==
    LET sum[k \in 0 .. Len(passed)] ==
            IF k = 0 THEN n
            ELSE sum[k - 1] + IF k > Oldest THEN passed[k].size ELSE 0
    IN  sum[Len(passed)]
TrueElapsed == IF Oldest >= 1 THEN now - passed[Oldest].time ELSE 0

\* Variant of NextIndex without the modulus.
NextIndexNoWrap(i) == i + 1

NextIndex(i) == (i + 1) % Count

\* limit(): n more bytes have arrived.
Limit(n) ==
    LET i == lim.pktidx
        ntotb == NewTotal(n)
        delta == ClockDelta(now, lim.times[i])
        full == lim.times[i] # 0
        div == full /\ delta = 0
        over == full /\ ~div /\ (ntotb * NsecsInSec) \div delta > Rate
    IN  /\ user = "limiter" /\ verdict.says # "div"
        /\ passed # << >> => now > passed[Len(passed)].time
        /\ IF div \/ over
           THEN UNCHANGED <<lim, passed>>
           ELSE /\ lim' = [times |-> [lim.times EXCEPT ![i] = now],
                           sizes |-> [lim.sizes EXCEPT ![i] = n],
                           totb |-> ntotb, pktidx |-> NextIndex(i)]
                /\ passed' = LET p == Append(passed, [time |-> now, size |-> n])
                             IN  IF Len(p) > Count THEN Tail(p) ELSE p
        /\ verdict' = [elapsed |-> TrueElapsed, bytes |-> TrueBytes(n),
                       says |-> IF div THEN "div" ELSE IF over THEN "drop" ELSE "pass"]
        /\ UNCHANGED <<now, user, timer, pacer, sends>>

-----------------------------------------------------------------------------
Next ==
    \/ Tick
    \/ StCheck
    \/ ChangeRate \/ WaitCall \/ WaitOver \/ WaitSleep \/ WaitWake
    \/ \E n \in Sizes : Limit(n)

Spec == Init /\ [][Next]_vars

-----------------------------------------------------------------------------
TypeOK ==
    /\ now \in 1 .. MaxTime
    /\ timer.ts \in 1 .. now /\ timer.at \in 1 .. now /\ timer.overdue \in 0 .. now
    /\ pacer.timestamp \in 1 .. now /\ pacer.ival \in Ivals /\ pacer.loaded \in Ivals \cup {0}
    /\ pacer.pc \in {"out", "in", "sleep"}
    /\ lim.pktidx \in 0 .. Count - 1 /\ lim.totb \in Nat
    /\ Len(passed) <= Count

\* st_check never fires early, and fires when it is polled after the interval,
\* unless nobody polled it for longer than clock_delta can measure.
TimerExact ==
    /\ timer.fired => timer.since >= Period
    /\ timer.since >= Period /\ timer.since <= Reach => timer.fired

\* When clock_delta has wrapped and an overdue timer did not fire, it fires
\* within one more interval, if it is polled every second from then on: a
\* report is delayed by a silence of the peer, and not lost.
OverdueFires == timer.overdue # 0 => timer.at - timer.overdue < Period

\* periodic_wait never asks nanosleep for a time it refuses, which would make
\* the retry loop spin for ever, and sleeps exactly to the end of the interval.
SleepExact ==
    pacer.pc = "sleep" =>
        Valid(pacer.ns) /\ pacer.wake = pacer.timestamp + pacer.loaded

\* The sender never goes faster than the shortest interval, not even after it
\* was late: there is no burst to catch up.
NoBurst ==
    LET ival == CHOOSE i \in Ivals : \A j \in Ivals : i <= j
    IN  sends[Len(sends)] - sends[1] >= (Len(sends) - 1) * ival

\* limit() measures what it should, the bytes of the last Count packets over the
\* time since the oldest of them, and lets a packet pass if and only if that is
\* within the rate, unless that time is longer than clock_delta can measure; it
\* never divides by zero before that either.
LimitExact ==
    verdict.says # "none" =>
        LET over == verdict.elapsed # 0
                    /\ (verdict.bytes * NsecsInSec) \div verdict.elapsed > Rate
        IN  \/ verdict.says = IF over THEN "drop" ELSE "pass"
            \/ verdict.elapsed > Reach
=============================================================================
