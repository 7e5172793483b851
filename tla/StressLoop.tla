----------------------------- MODULE StressLoop -----------------------------
(***************************************************************************)
(* One instance of a stressor: the thread that calibrates its kernel and   *)
(* then runs batches of rounds with a sleep between them, measures what it *)
(* achieved and regulates, until a limit ends it.                          *)
(*                                                                         *)
(* The machine decides what a round costs: `cost` is the CPU time and the  *)
(* waiting of one round, the waiting that every batch adds (spin) and how  *)
(* much longer than asked a sleep takes (over).  It changes at most        *)
(* MaxChanges times, when other programs come and go.  Times are           *)
(* microseconds and whole numbers.                                         *)
(***************************************************************************)
EXTENDS LoadControl, Stressors

CONSTANTS
    Tasks,         \* [kind, aim, period, limit, time]: what was asked for
    Costs,         \* [run, idle, spin, over]: what the machine may charge
    MaxChanges

NoLimit == 0       \* no -l: INT64_MAX rounds; no -t: a time limit of 0
FullRounds == 100  \* FULL_STRENGTH100_MODULE_ROUND and its two likes

ASSUME TaskAssumption ==
    Tasks \subseteq [kind : Kinds, aim : Nat, period : Nat, limit : Nat, time : Nat]

ASSUME CostAssumption ==
    /\ Costs \subseteq [run : Nat \ {0}, idle : Nat, spin : Nat, over : Nat]
    /\ MaxChanges \in Nat

VARIABLES
    task,          \* args
    cost, changes, \* the machine
    pc,            \* start, batch or exit
    batch,         \* module_runrounds, module_sleepus
    sums,          \* sum_krounds, sum_runtimeus, sum_runidleus, sum_sleepus
    roundCnt,      \* round_cnt modulo 8
    done,          \* knl_round_sumup
    clock,         \* time since t_start
    lows,          \* low_actl_strength_warning
    inWarning      \* in_low_actl_strength_warning

machine == <<cost, changes>>
control == <<batch, sums, roundCnt, lows, inWarning>>
vars == <<task, cost, changes, pc, batch, sums, roundCnt, done, clock, lows,
          inWarning>>

NoSums == [rounds |-> 0, run |-> 0, idle |-> 0, sleep |-> 0]

Init ==
    /\ task \in Tasks
    /\ cost \in Costs
    /\ changes = 0
    /\ pc = "start"
    /\ batch = FullBatch(0)
    /\ sums = NoSums
    /\ roundCnt = 0
    /\ done = 0
    /\ clock = 0
    /\ lows = 0
    /\ inWarning = FALSE

-----------------------------------------------------------------------------
(* What a measurement did of what was asked for, and how long it took.     *)
Work(s) == IF task.kind.byRate THEN PerRound * s.rounds ELSE 100 * s.run

Total(s) == s.run + s.idle + s.sleep

(* The comparisons of the code with the load achieved, Work/Total.  When   *)
(* Total is zero the load is NaN and every one of them is false.           *)
Below(s, off) == 2 * Work(s) < (2 * task.aim - off) * Total(s)
Above(s, off) == 2 * Work(s) > (2 * task.aim + off) * Total(s)

OutOfBand(s) == Below(s, task.kind.band) \/ Above(s, task.kind.band)

BatchFor(s) ==
    ToTime(task.aim, Work(s), s.run, s.idle, s.rounds, task.period, FullRounds)

(* What `rounds` rounds in a row measure.                                  *)
Measured(rounds, c) ==
    [rounds |-> rounds, run |-> rounds * c.run,
     idle |-> rounds * c.idle + c.spin, sleep |-> 0]

Slept(b, c) == IF b.sleep > 0 THEN b.sleep + c.over ELSE 0

OneBatch(b, c) == [Measured(b.rounds, c) EXCEPT !.sleep = Slept(b, c)]

Plus(s, t) == [f \in DOMAIN s |-> s[f] + t[f]]

(* A fifth of the past is forgotten at every regulation.                   *)
Decay(s) == [f \in DOMAIN s |-> s[f] - s[f] \div 5]

-----------------------------------------------------------------------------
(* The instance returns before it does anything.                           *)
Refuse ==
    /\ pc = "start"
    /\ task.kind.mayRefuse
    /\ pc' = "exit"
    /\ UNCHANGED <<task, machine, control, done, clock>>

(* The rounds of the calibration count for no limit.                       *)
Calibrate ==
    /\ pc = "start"
    /\ batch' = BatchFor(Measured(task.kind.calibration, cost))
    /\ pc' = "batch"
    /\ UNCHANGED <<task, machine, sums, roundCnt, done, clock, lows, inWarning>>

RoundLimitReachedBad(d) == task.limit # NoLimit /\ d > task.limit

RoundLimitReached(d) == task.limit # NoLimit /\ d >= task.limit

TimeLimitReached(t) == task.time # NoLimit /\ t >= task.time

(* What is only counted for a limit is not counted without one.            *)
CountIf(limit, total) == IF limit = NoLimit THEN 0 ELSE total

(* The counting part of an iteration: kernels, sleep, sums and limits.     *)
(* Its own statements take a microsecond even if nothing it measures does. *)
RunBatch(ended) ==
    LET one == OneBatch(batch, cost)
        d   == done + one.rounds
        t   == clock + Total(one) + 1
    IN  /\ pc = "batch"
        /\ ended <=> RoundLimitReached(d) \/ TimeLimitReached(t)
        /\ done' = CountIf(task.limit, d)
        /\ clock' = CountIf(task.time, t)
        /\ UNCHANGED <<task, machine>>

Added == Plus(sums, OneBatch(batch, cost))

Stop ==
    /\ RunBatch(TRUE)
    /\ pc' = "exit"
    /\ sums' = Added
    /\ UNCHANGED <<batch, roundCnt, lows, inWarning>>

GoOn ==
    /\ RunBatch(FALSE)
    /\ roundCnt # 7
    /\ roundCnt' = roundCnt + 1
    /\ sums' = Added
    /\ UNCHANGED <<pc, batch, lows, inWarning>>

NextBatchBad(s) == batch

(* The batch is recomputed only if the load is out of its band.            *)
NextBatch(s) == IF OutOfBand(s) THEN BatchFor(s) ELSE batch

LowsUnboundedBad(s) == IF Below(s, task.kind.warn) THEN lows + 1 ELSE 0

LowsAfterBad(s) == IF Below(s, task.kind.warn) THEN 1 ELSE 0

(* Consecutive low loads; the ninth is reported, and counting starts anew. *)
LowsAfter(s) == IF Below(s, task.kind.warn) THEN (lows + 1) % 9 ELSE 0

WarningAfterBad(s) == inWarning \/ LowsAfter(s) # lows + 1

(* From a warning until the load is no longer low.                         *)
WarningAfter(s) ==
    /\ Below(s, task.kind.warn)
    /\ inWarning \/ lows = 8

(* Every eighth iteration.                                                 *)
Regulate ==
    /\ RunBatch(FALSE)
    /\ roundCnt = 7
    /\ roundCnt' = 0
    /\ batch' = NextBatch(Added)
    /\ lows' = LowsAfter(Added)
    /\ inWarning' = WarningAfter(Added)
    /\ sums' = Decay(Added)
    /\ UNCHANGED pc

Step == Refuse \/ Calibrate \/ Stop \/ GoOn \/ Regulate

(* Other programs come or go.                                              *)
MachineChanges ==
    /\ pc # "exit"
    /\ changes < MaxChanges
    /\ changes' = changes + 1
    /\ cost' \in Costs \ {cost}
    /\ UNCHANGED <<task, pc, control, done, clock>>

Next == Step \/ MachineChanges

(* A thread that can run does.                                             *)
Spec == Init /\ [][Next]_vars /\ WF_vars(Step)

-----------------------------------------------------------------------------
Batches == [rounds : Nat, sleep : Int]
Sums == [rounds : Nat, run : Nat, idle : Nat, sleep : Nat]

TypeOK ==
    /\ task \in Tasks
    /\ cost \in Costs /\ changes \in 0 .. MaxChanges
    /\ pc \in {"start", "batch", "exit"}
    /\ batch \in Batches
    /\ sums \in Sums
    /\ roundCnt \in 0 .. 7
    /\ done \in Nat /\ clock \in Nat
    /\ lows \in 0 .. 8
    /\ inWarning \in BOOLEAN

(* A limit ends the instance with the batch that reaches it: no batch is   *)
(* begun at or after a limit, and without the last batch the round limit   *)
(* was not reached.                                                        *)
LimitsHold ==
    /\ pc = "batch" /\ task.limit # NoLimit => done < task.limit
    /\ pc = "batch" /\ task.time # NoLimit => clock < task.time
    /\ pc = "exit" /\ task.limit # NoLimit /\ task.time = NoLimit =>
         done - batch.rounds < task.limit

-----------------------------------------------------------------------------
(* The batch an exact measurement of the present cost would give.          *)
IdealBatch == BatchFor(Measured(task.kind.calibration, cost))

InBand(b) == ~ OutOfBand(OneBatch(b, cost))
TooLow(b) == Below(OneBatch(b, cost), task.kind.warn)

(* Running, and load control knows a batch with the load asked for.        *)
Reachable == pc = "batch" /\ InBand(IdealBatch)

OutOfReach == pc = "batch" /\ TooLow(IdealBatch)

(* Regulation: when the machine settles, the instance settles on a batch   *)
(* with the load asked for, if load control knows one, whatever it         *)
(* measured before.                                                        *)
SettledLoad == Reachable => InBand(batch)
LoadSettles == <>[]SettledLoad

(* A load that cannot be reached is reported, and stays reported until the *)
(* machine changes.                                                        *)
ShortLoad == OutOfReach => inWarning
ShortLoadReported == <>[]ShortLoad

(* A report does not outlive its cause.                                    *)
NoStaleReport == Reachable => ~ inWarning
ReportEnds == <>[]NoStaleReport

(* README, -l and -t: "the stressor will stop after N rounds", "after N    *)
(* seconds".                                                               *)
Stops == task.limit # NoLimit \/ task.time # NoLimit ~> pc = "exit"
=============================================================================
