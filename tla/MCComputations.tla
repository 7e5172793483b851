--------------------------- MODULE MCComputations ---------------------------
(***************************************************************************)
(* The computations of the program that no other thread takes part in,     *)
(* each on its own: `subject` is the one that runs, the others rest.       *)
(*                                                                         *)
(* load       a measurement in a box, and the batch load control makes of  *)
(*            it (module LoadControl)                                      *)
(* generator  random numbers (module Mwc)                                  *)
(* code       the generated kernel of cpu-l1i (module L1iKernel)           *)
(* buffers    the memory of cache, tlb and mem-bw (module Buffers)         *)
(***************************************************************************)
EXTENDS LoadControl, Mwc, L1iKernel, Buffers

CONSTANTS Subjects, Aims, Rounds, Times, Idles, Periods, PerRound, Full

ASSUME BoxAssumption ==
    /\ Aims \subseteq Nat /\ Rounds \subseteq Nat /\ Times \subseteq Nat
    /\ Idles \subseteq Nat /\ Periods \subseteq Nat
    /\ PerRound \in Nat \ {0} /\ Full \in Nat

(* Default seeds and others.                                               *)
SomeSeeds == {<<1, 200>>, <<77, 3>>}

Cache(type, level, line, number, suffix) ==
    [type |-> type, level |-> level, line |-> line, number |-> number, suffix |-> suffix]

Missing == Cache(NoEntry, 0, 0, 0, "")

(* A machine with three levels; one that stops short of the third; one     *)
(* that does not say how long a line is; and one without caches.           *)
SomeSysfs ==
    {<<Cache("Data", 1, 64, 4, ""), Cache("Instruction", 1, 32, 9, ""),
       Cache("Unified", 2, 32, 90, ""), Cache("Unified", 3, 64, 2, "B"), Missing>>,
     <<Cache("Data", 1, 64, 4, ""), Cache("Unified", 2, 16, 1, "K"), Missing,
       Cache("Unified", 3, 64, 20, "")>>,
     <<Cache("Data", 1, 0, 16, ""), Cache("Unified", 3, 64, 1, "")>>, << >>}

VARIABLES subject, load

vars == <<subject, load, genVars, codeVars, bufVars>>

(* n rounds with run and idle microseconds in all, at a strength or a rate. *)
Box == [aim : Aims, byRate : BOOLEAN, n : Rounds, run : Times, idle : Idles,
        period : Periods]

Idle == [aim |-> 0, byRate |-> FALSE, n |-> 0, run |-> 0, idle |-> 0, period |-> 0]

Init ==
    /\ subject \in Subjects
    /\ load \in IF subject = "load" THEN Box ELSE {Idle}
    /\ IF subject = "generator" THEN MwcInit ELSE MwcFrom(<<0, 0>>)
    /\ L1iInit
    /\ IF subject = "buffers" THEN BufInit ELSE BufFrom("tlb", << >>, 0, 1, 0)

Next ==
    \/ subject = "generator" /\ MwcNext /\ UNCHANGED <<subject, load, codeVars, bufVars>>
    \/ subject = "code" /\ L1iNext /\ UNCHANGED <<subject, load, genVars, bufVars>>
    \/ subject = "buffers" /\ BufNext /\ UNCHANGED <<subject, load, genVars, codeVars>>

Spec == Init /\ [][Next]_vars

-----------------------------------------------------------------------------
Work == IF load.byRate THEN PerRound * load.n ELSE 100 * load.run

NextBatch == ToTime(load.aim, Work, load.run, load.idle, load.n, load.period, Full)

IsRegular == Regular(load.aim, Work, load.run, load.idle, load.n, load.period)

(* The three functions keep the load asked for and fill the period up to   *)
(* half a kernel round, whatever is rounded.                               *)
KeepsLoad ==
    IsRegular =>
        /\ ShareKept(load.aim, Work, load.run, load.idle, load.n, NextBatch)
        /\ PeriodKept(load.aim, Work, load.n, load.period, NextBatch)

(* They ask for an empty batch only if a round does not fit twice over,    *)
(* and leave the sleep out only if the aim is out of reach; this is what   *)
(* the LOW STRENGTH warning is about.                                      *)
EmptyOrBehind ==
    IsRegular =>
        /\ EmptyIff(load.aim, Work, load.n, load.period, NextBatch)
        /\ NoSleepMeansBehind(load.aim, Work, load.run, load.idle, NextBatch)
=============================================================================
