---------------------------- MODULE LoadControl ----------------------------
(***************************************************************************)
(* Load control (rbench-core.cpp): how many kernel rounds the next batch   *)
(* of a stressor has and how long the instance sleeps after it.            *)
(*                                                                         *)
(* strength_to_time, membw_to_time and network_pps_to_time have one body.  *)
(* It is stated here once, over exact fractions.  A measurement is n       *)
(* rounds that took run microseconds of CPU and idle microseconds of       *)
(* waiting, and did work units of what the stressor is asked for: 100*run  *)
(* for a strength in percent, bytes or packets for a rate.  So the load of *)
(* a measurement is work / (time it took) in all three.                    *)
(*                                                                         *)
(* With sgl_time = run/n, sgl_idle = idle/n and p the share of CPU time    *)
(* asked for, the doubles of the code come to                              *)
(*     x = aim*period*n / work             rounds, before round()          *)
(*     y / x = (work - aim*(run+idle)) / (aim*n)                           *)
(* and the sleep is y scaled by round(x)/x.  y is negative when the aim is *)
(* out of reach: sleep_for then returns at once.  When x or y comes out as *)
(* NaN (0/0 or inf-inf) the code takes `full` rounds and casts a NaN to    *)
(* int32_t, which on x86 is INT_MIN: again no sleep.                       *)
(***************************************************************************)
EXTENDS Integers

RoundDivBad(a, b) == IF a >= 0 THEN a \div b ELSE -((-a) \div b)

(* round() of C of the fraction a/b, b > 0: halves go away from zero.      *)
RoundDiv(a, b) == IF a >= 0 THEN (2 * a + b) \div (2 * b)
                            ELSE -((b - 2 * a) \div (2 * b))

(* Nothing asked for, or all the CPU time there is: run without a sleep.   *)
WantsAll(aim, work, run) == aim <= 0 \/ aim * run >= work

(* The doubles are not numbers: nothing measured, no period, or a sleep    *)
(* share of exactly zero.                                                  *)
NotANumber(aim, work, run, idle, n, period) ==
    n = 0 \/ run = 0 \/ period = 0 \/ work = aim * (run + idle)

FullBatchBad(full) == [rounds |-> 0, sleep |-> 0]

FullBatch(full) == [rounds |-> full, sleep |-> 0]

RoundsForBad(aim, work, n, period) == (aim * period * n) \div work

RoundsFor(aim, work, n, period) == RoundDiv(aim * period * n, work)

SleepForBad(rounds, aim, work, wall, n) ==
    RoundDiv(rounds * (work - aim * wall), work)

SleepForSwapped(rounds, aim, work, wall, n) ==
    RoundDiv(rounds * (aim * wall - work), aim * n)

SleepFor(rounds, aim, work, wall, n) ==
    RoundDiv(rounds * (work - aim * wall), aim * n)

(* The next batch.                                                         *)
ToTime(aim, work, run, idle, n, period, full) ==
    IF \/ WantsAll(aim, work, run)
       \/ NotANumber(aim, work, run, idle, n, period)
    THEN FullBatch(full)
    ELSE LET r == RoundsFor(aim, work, n, period)
         IN  [rounds |-> r, sleep |-> SleepFor(r, aim, work, run + idle, n)]

(***************************************************************************)
(* What ToTime promises, for a measurement that is a number and an aim     *)
(* that the CPU can do.                                                    *)
(***************************************************************************)
Regular(aim, work, run, idle, n, period) ==
    /\ ~ WantsAll(aim, work, run)
    /\ ~ NotANumber(aim, work, run, idle, n, period)

(* The load of the batch.  After a batch of r rounds and a sleep of s, at  *)
(* the speed measured, the time taken misses the time that r rounds should *)
(* take at the load asked for by at most half a microsecond: both sides    *)
(* are multiplied by aim*n.                                                *)
ShareKept(aim, work, run, idle, n, b) ==
    LET took   == b.rounds * (run + idle) + n * b.sleep
        should == b.rounds * work
    IN  /\ 2 * (aim * took - should) <= aim * n
        /\ 2 * (should - aim * took) <= aim * n

(* The period of the batch.  At the load asked for, the rounds of the      *)
(* batch fill the period up to half a round.                               *)
PeriodKept(aim, work, n, period, b) ==
    /\ 2 * (b.rounds * work - aim * period * n) <= work
    /\ 2 * (aim * period * n - b.rounds * work) <= work

(* A batch is empty exactly when one round is more than twice the work     *)
(* that a period may hold.                                                 *)
EmptyIff(aim, work, n, period, b) ==
    (b.rounds = 0) <=> 2 * aim * period * n < work

(* An instance sleeps for a negative time, which is not at all, only if    *)
(* waiting leaves it too little CPU time to reach the aim.                 *)
NoSleepMeansBehind(aim, work, run, idle, b) ==
    b.sleep < 0 => aim * (run + idle) > work
=============================================================================
