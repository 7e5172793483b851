---------------------------- MODULE MCStressLoop ----------------------------
(***************************************************************************)
(* Instances of StressLoop.  A period is 500 microseconds here, a hundred  *)
(* rounds and more; PerRound and RateBound are scaled to it.               *)
(***************************************************************************)
EXTENDS StressLoop

Task(kind, aim, limit, time) ==
    [kind |-> kind, aim |-> aim, period |-> 500, limit |-> limit, time |-> time]

(* One percent of 100 microseconds is less than half a round.              *)
TinyTask(kind, limit, time) ==
    [kind |-> kind, aim |-> 1, period |-> 100, limit |-> limit, time |-> time]

Cost(run, idle, spin, over) ==
    [run |-> run, idle |-> idle, spin |-> spin, over |-> over]

(* A load in percent, and rates that are called low at different bounds.   *)
LoadTasks ==
    {Task(CpuInt, 50, NoLimit, NoLimit), Task(MemBw, 100, NoLimit, NoLimit),
     Task(UdpClient, 100, NoLimit, NoLimit)}

(* Every kind of stressor with a limit of rounds; a load, a rate and one    *)
(* that refuses with a limit of time or both; a limit that several batches  *)
(* go into; and batches that are empty.  At 50%, 83 rounds are one batch.   *)
LimitTasks ==
    {Task(k, 50, 83, NoLimit) : k \in Kinds}
      \cup {Task(k, 50, NoLimit, 6000) : k \in {CpuInt, Tlb, MemBw}}
      \cup {Task(CpuInt, 50, 83, 6000), Task(MemBw, 100, 1000, 6000)}
      \cup {TinyTask(LargeCache, NoLimit, 600), TinyTask(LargeCache, 50, NoLimit)}

AllTasks == LoadTasks \cup LimitTasks

(* Alone on the machine; next to others; with too many others for 50%.     *)
(* The microsecond of spin matters to empty batches: one that was measured *)
(* as taking no time has a load of 0/0, and would never be recomputed.     *)
AllCosts == {Cost(3, 0, 1, 0), Cost(4, 1, 1, 1), Cost(4, 7, 1, 0)}
=============================================================================
