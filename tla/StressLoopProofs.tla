-------------------------- MODULE StressLoopProofs --------------------------
(***************************************************************************)
(* The type invariant of StressLoop and the limits of an instance.         *)
(***************************************************************************)
EXTENDS StressLoop, LoadControlProofs

(* Load control answers every measurement with a batch.                    *)
LEMMA ToTimeType ==
    ASSUME NEW a \in Nat, NEW w \in Nat, NEW r \in Nat, NEW i \in Nat,
           NEW m \in Nat, NEW p \in Nat, NEW f \in Nat
    PROVE  ToTime(a, w, r, i, m, p, f) \in Batches
<1>1. CASE Regular(a, w, r, i, m, p)
  <2> DEFINE x == RoundsFor(a, w, m, p)
             d == a * m
             c == x * (w - a * (r + i))
  <2>1. ToTime(a, w, r, i, m, p, f) = [rounds |-> x, sleep |-> SleepFor(x, a, w, r + i, m)]
    BY <1>1 DEF Regular, ToTime
  <2>2. ToTime(a, w, r, i, m, p, f).rounds \in Nat
    BY <1>1, RoundsAreNatural
  <2>3. x \in Nat
    BY <2>1, <2>2
  <2>4. d \in Nat /\ d > 0
    BY <1>1, RegularParts
  <2>5. SleepFor(x, a, w, r + i, m) = RoundDiv(c, d)
    BY DEF SleepFor
  <2> HIDE DEF x
  <2>6. c \in Int
    BY <2>3
  <2> HIDE DEF c, d
  <2>7. RoundDiv(c, d) \in Int
    BY <2>4, <2>6, RoundDivBound
  <2> QED
    BY <2>1, <2>3, <2>5, <2>7 DEF Batches
<1>2. CASE ~ Regular(a, w, r, i, m, p)
  BY <1>2 DEF Regular, ToTime, FullBatch, Batches
<1> QED
  BY <1>1, <1>2

LEMMA KindType ==
    ASSUME NEW k \in Kinds
    PROVE  /\ k.calibration \in Nat
           /\ k.byRate \in BOOLEAN
<1> DEFINE Typed(x) == x.calibration \in Nat /\ x.byRate \in BOOLEAN
<1>1. /\ Typed(CpuInt) /\ Typed(CpuFloat) /\ Typed(CpuL1i) /\ Typed(SimdAvx)
      /\ Typed(SimdAvx512) /\ Typed(Tlb)
      /\ Typed(SmallCache) /\ Typed(LargeCache)
  BY DEF ByStrength, CpuInt, CpuFloat, CpuL1i, SimdAvx, SimdAvx512, Tlb,
         SmallCache, LargeCache
<1>2. Typed(MemBw) /\ Typed(UdpClient) /\ Typed(UdpServer)
  BY DEF ByRate, MemBw, UdpClient, UdpServer
<1> HIDE DEF Typed
<1>3. Typed(k)
  BY <1>1, <1>2, Zenon DEF Kinds
<1> QED
  BY <1>3 DEF Typed

LEMMA TaskType ==
    ASSUME task \in Tasks
    PROVE  /\ task.kind \in Kinds
           /\ task.aim \in Nat /\ task.period \in Nat
           /\ task.limit \in Nat /\ task.time \in Nat
  BY TaskAssumption

LEMMA CostType ==
    ASSUME NEW c \in Costs
    PROVE  c.run \in Nat /\ c.idle \in Nat /\ c.spin \in Nat /\ c.over \in Nat
  BY CostAssumption

LEMMA MeasuredType ==
    ASSUME NEW c \in Costs, NEW r \in Nat
    PROVE  Measured(r, c) \in Sums
<1>1. r * c.run \in Nat /\ r * c.idle + c.spin \in Nat
  BY CostType
<1> QED
  BY <1>1 DEF Measured, Sums

LEMMA OneBatchType ==
    ASSUME NEW c \in Costs, NEW b \in Batches
    PROVE  /\ OneBatch(b, c) \in Sums
           /\ OneBatch(b, c).rounds = b.rounds
<1>1. b.rounds \in Nat /\ b.sleep \in Int
  BY DEF Batches
<1>2. Measured(b.rounds, c) \in Sums
  BY <1>1, MeasuredType
<1>3. Slept(b, c) \in Nat
  BY <1>1, CostType DEF Slept
<1>4. Measured(b.rounds, c).rounds = b.rounds
  BY DEF Measured
<1> QED
  BY <1>2, <1>3, <1>4 DEF OneBatch, Sums

LEMMA TotalType ==
    ASSUME NEW s \in Sums
    PROVE  Total(s) \in Nat
  BY DEF Sums, Total

LEMMA BatchForType ==
    ASSUME task \in Tasks, NEW s \in Sums
    PROVE  BatchFor(s) \in Batches
<1>1. s.rounds \in Nat /\ s.run \in Nat /\ s.idle \in Nat
  BY DEF Sums
<1>2. Work(s) \in Nat
  BY <1>1, RateAssumption DEF Work
<1>3. FullRounds \in Nat
  BY DEF FullRounds
<1> QED
  BY <1>1, <1>2, <1>3, TaskType, ToTimeType DEF BatchFor

LEMMA PlusType ==
    ASSUME NEW s \in Sums, NEW t \in Sums
    PROVE  Plus(s, t) \in Sums
  BY DEF Sums, Plus

LEMMA DecayType ==
    ASSUME NEW s \in Sums
    PROVE  Decay(s) \in Sums
<1>1. \A k \in Nat : k - k \div 5 \in Nat
  <2> SUFFICES ASSUME NEW k \in Nat PROVE k - k \div 5 \in Nat
    OBVIOUS
  <2> DEFINE q == k \div 5
  <2>1. q \in Int /\ 5 * q <= k /\ k < 5 * q + 5
    BY DivBound
  <2> HIDE DEF q
  <2>2. k - q \in Nat
    BY <2>1
  <2> QED
    BY <2>2 DEF q
<1> QED
  BY <1>1 DEF Sums, Decay

-----------------------------------------------------------------------------
(* What the counting part of an iteration leaves.                          *)
LEMMA RunBatchType ==
    ASSUME TypeOK, NEW e \in BOOLEAN, RunBatch(e)
    PROVE  /\ task' = task /\ cost' = cost /\ changes' = changes
           /\ done' \in Nat /\ clock' \in Nat
           /\ Added \in Sums
<1>1. cost \in Costs /\ batch \in Batches /\ sums \in Sums
      /\ done \in Nat /\ clock \in Nat
  BY DEF TypeOK
<1> DEFINE one == OneBatch(batch, cost)
<1>2. one \in Sums
  BY <1>1, OneBatchType
<1>3. Added \in Sums
  BY <1>1, <1>2, PlusType DEF Added
<1>4. one.rounds \in Nat /\ Total(one) \in Nat
  BY <1>2, TotalType DEF Sums
<1>5. /\ done' = CountIf(task.limit, done + one.rounds)
      /\ clock' = CountIf(task.time, clock + Total(one) + 1)
  BY DEF RunBatch
<1> HIDE DEF one
<1>6. done' \in Nat /\ clock' \in Nat
  BY <1>1, <1>4, <1>5 DEF CountIf
<1>7. task' = task /\ cost' = cost /\ changes' = changes
  BY DEF RunBatch, machine
<1> QED
  BY <1>3, <1>6, <1>7

(* Every variable of an instance keeps to its type: no batch, however the  *)
(* measurement came out, has a negative number of rounds.                  *)
THEOREM LoopTypeCorrect == Spec => []TypeOK
<1>1. Init => TypeOK
  <2> SUFFICES ASSUME Init PROVE TypeOK
    OBVIOUS
  <2>1. FullBatch(0) \in Batches /\ NoSums \in Sums
    BY DEF FullBatch, Batches, NoSums, Sums
  <2>2. 0 \in 0 .. MaxChanges
    BY CostAssumption
  <2>3. /\ task \in Tasks /\ cost \in Costs /\ changes = 0 /\ pc = "start"
        /\ batch = FullBatch(0) /\ sums = NoSums
    BY DEF Init
  <2>4. /\ roundCnt = 0 /\ done = 0 /\ clock = 0 /\ lows = 0
        /\ inWarning = FALSE
    BY DEF Init
  <2>5. /\ roundCnt \in 0 .. 7 /\ done \in Nat /\ clock \in Nat
        /\ lows \in 0 .. 8
    BY <2>4
  <2>6. inWarning \in BOOLEAN
    BY <2>4
  <2>7. changes \in 0 .. MaxChanges /\ batch \in Batches /\ sums \in Sums
    BY <2>1, <2>2, <2>3
  <2> QED
    BY <2>3, <2>5, <2>6, <2>7 DEF TypeOK
<1>2. TypeOK /\ [Next]_vars => TypeOK'
  <2> SUFFICES ASSUME TypeOK, [Next]_vars PROVE TypeOK'
    OBVIOUS
  <2>1. CASE Refuse
    BY <2>1 DEF TypeOK, Refuse, machine, control
  <2>2. CASE Calibrate
    <3>1. batch' \in Batches
      <4> DEFINE s == Measured(task.kind.calibration, cost)
      <4>1. task.kind.calibration \in Nat
        BY TaskType, KindType DEF TypeOK
      <4>2. s \in Sums
        BY <4>1, MeasuredType DEF TypeOK
      <4> HIDE DEF s
      <4>3. BatchFor(s) \in Batches
        BY <4>2, BatchForType DEF TypeOK
      <4> QED
        BY <2>2, <4>3 DEF Calibrate, s
    <3> QED
      BY <2>2, <3>1 DEF TypeOK, Calibrate, machine
  <2>3. CASE Stop
    <3>1. RunBatch(TRUE)
      BY <2>3 DEF Stop
    <3>2. /\ task' = task /\ cost' = cost /\ changes' = changes
          /\ done' \in Nat /\ clock' \in Nat /\ Added \in Sums
      BY <3>1, RunBatchType
    <3> QED
      BY <2>3, <3>2 DEF TypeOK, Stop
  <2>4. CASE GoOn
    <3>1. RunBatch(FALSE)
      BY <2>4 DEF GoOn
    <3>2. /\ task' = task /\ cost' = cost /\ changes' = changes
          /\ done' \in Nat /\ clock' \in Nat /\ Added \in Sums
      BY <3>1, RunBatchType
    <3>3. roundCnt' \in 0 .. 7
      BY <2>4 DEF TypeOK, GoOn
    <3> QED
      BY <2>4, <3>2, <3>3 DEF TypeOK, GoOn
  <2>5. CASE Regulate
    <3>1. RunBatch(FALSE)
      BY <2>5 DEF Regulate
    <3>2. /\ task' = task /\ cost' = cost /\ changes' = changes
          /\ done' \in Nat /\ clock' \in Nat /\ Added \in Sums
      BY <3>1, RunBatchType
    <3>3. batch' \in Batches
      BY <2>5, <3>2, BatchForType DEF TypeOK, Regulate, NextBatch
    <3>4. sums' \in Sums
      BY <2>5, <3>2, DecayType DEF Regulate
    <3>5. lows' \in 0 .. 8
      BY <2>5 DEF TypeOK, Regulate, LowsAfter
    <3>6. inWarning' \in BOOLEAN
      BY <2>5 DEF Regulate, WarningAfter, Below
    <3>7. pc' = pc /\ roundCnt' = 0
      BY <2>5 DEF Regulate
    <3> QED
      BY <3>2, <3>3, <3>4, <3>5, <3>6, <3>7 DEF TypeOK
  <2>6. CASE MachineChanges
    <3>1. cost' \in Costs /\ changes' \in 0 .. MaxChanges
      BY <2>6, CostAssumption DEF TypeOK, MachineChanges
    <3> QED
      BY <2>6, <3>1 DEF TypeOK, MachineChanges, control
  <2>7. CASE UNCHANGED vars
    BY <2>7 DEF TypeOK, vars
  <2> QED
    BY <2>1, <2>2, <2>3, <2>4, <2>5, <2>6, <2>7 DEF Next, Step
<1> QED
  BY <1>1, <1>2, PTL DEF Spec

(* What the inductive step needs besides the limits: the counters start    *)
(* below every limit, and the batch that ends an instance is the last one. *)
LimitsInv ==
    /\ pc = "start" => done = 0 /\ clock = 0
    /\ LimitsHold

(* An instance never begins a batch at or after its limits, and without    *)
(* its last batch it had not reached its round limit.                      *)
THEOREM LimitsAreKept == Spec => []LimitsHold
<1>1. Init => LimitsInv
  BY DEF Init, LimitsInv, LimitsHold
<1>2. TypeOK /\ LimitsInv /\ [Next]_vars => LimitsInv'
  <2> SUFFICES ASSUME TypeOK, LimitsInv, [Next]_vars PROVE LimitsInv'
    OBVIOUS
  <2>0. /\ done \in Nat /\ clock \in Nat /\ batch.rounds \in Nat
        /\ task.limit \in Nat /\ task.time \in Nat
    BY TaskType DEF TypeOK, Batches
  <2>1. CASE Refuse
    <3>1. pc' = "exit" /\ done' = 0
      BY <2>1 DEF Refuse, LimitsInv
    <3>2. batch' = batch /\ task' = task
      BY <2>1 DEF Refuse, control
    <3>3. task.limit # NoLimit => 0 - batch.rounds < task.limit
      BY <2>0 DEF NoLimit
    <3> QED
      BY <3>1, <3>2, <3>3 DEF LimitsInv, LimitsHold
  <2>2. CASE Calibrate
    <3>1. pc' = "batch" /\ done' = 0 /\ clock' = 0 /\ task' = task
      BY <2>2 DEF Calibrate, LimitsInv
    <3>2. /\ task.limit # NoLimit => 0 < task.limit
          /\ task.time # NoLimit => 0 < task.time
      BY <2>0 DEF NoLimit
    <3> QED
      BY <3>1, <3>2 DEF LimitsInv, LimitsHold
  <2>3. CASE Stop
    <3>1. /\ pc = "batch" /\ pc' = "exit"
          /\ done' = CountIf(task.limit, done + OneBatch(batch, cost).rounds)
          /\ batch' = batch /\ task' = task
      BY <2>3 DEF Stop, RunBatch
    <3>2. OneBatch(batch, cost).rounds = batch.rounds
      BY OneBatchType DEF TypeOK
    <3>3. task.limit # NoLimit => done < task.limit
      BY <3>1 DEF LimitsInv, LimitsHold
    <3>4. task.limit # NoLimit => done' - batch.rounds = done
      BY <2>0, <3>1, <3>2 DEF CountIf
    <3> QED
      BY <3>1, <3>3, <3>4 DEF LimitsInv, LimitsHold
  <2>4. ASSUME RunBatch(FALSE), pc' = pc PROVE LimitsInv'
    <3> DEFINE d == done + OneBatch(batch, cost).rounds
               t == clock + Total(OneBatch(batch, cost)) + 1
    <3>1. /\ pc = "batch" /\ pc' = "batch" /\ task' = task
          /\ ~ RoundLimitReached(d) /\ ~ TimeLimitReached(t)
          /\ done' = CountIf(task.limit, d) /\ clock' = CountIf(task.time, t)
      BY <2>4 DEF RunBatch
    <3>2. d \in Nat /\ t \in Nat
      <4>1. OneBatch(batch, cost) \in Sums
        BY OneBatchType DEF TypeOK
      <4> QED
        BY <2>0, <4>1, TotalType DEF Sums
    <3> HIDE DEF d, t
    <3>3. /\ task.limit # NoLimit => done' = d /\ d < task.limit
          /\ task.time # NoLimit => clock' = t /\ t < task.time
      BY <2>0, <3>1, <3>2 DEF CountIf, RoundLimitReached, TimeLimitReached
    <3> QED
      BY <3>1, <3>3 DEF LimitsInv, LimitsHold
  <2>5. CASE GoOn
    BY <2>4, <2>5 DEF GoOn
  <2>6. CASE Regulate
    BY <2>4, <2>6 DEF Regulate
  <2>7. CASE MachineChanges \/ UNCHANGED vars
    BY <2>7 DEF LimitsInv, LimitsHold, MachineChanges, control, vars
  <2> QED
    BY <2>1, <2>2, <2>3, <2>5, <2>6, <2>7 DEF Next, Step
<1>3. LimitsInv => LimitsHold
  BY DEF LimitsInv
<1> QED
  BY <1>1, <1>2, <1>3, LoopTypeCorrect, PTL DEF Spec
=============================================================================
