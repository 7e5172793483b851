----------------------------- MODULE Stressors -----------------------------
(***************************************************************************)
(* What tells the stressors with a regulated load apart.  They share one   *)
(* loop (module StressLoop), written out once in each of their sources.    *)
(*                                                                         *)
(* calibration  rounds run before the loop to measure a round              *)
(* byRate       the load is a rate, PerRound units a round, not a          *)
(*              percentage of CPU time                                     *)
(* band         the load is recomputed when it is more than band/2 off,    *)
(*              in percent or in units of rate                             *)
(* warn         it is called low when it is more than warn/2 below         *)
(* mayRefuse    the instance may return before it calibrates: no memory, a *)
(*              cache too large for uint32_t, no AVX512 in this build      *)
(***************************************************************************)
EXTENDS Integers

CONSTANTS
    PerRound,      \* units of rate in one round: BYTES_ADD_KERNEL, packets
    RateBound      \* MEMBW_CONTROL_LBOUND, NETWORK_PPS_CONTROL_LBOUND

ASSUME RateAssumption == PerRound \in Nat \ {0} /\ RateBound \in Nat

ByStrength(rounds, refuse) ==
    [calibration |-> rounds, byRate |-> FALSE, band |-> 1, warn |-> 2,
     mayRefuse |-> refuse]

ByRate(rounds, lowAt) ==
    [calibration |-> rounds, byRate |-> TRUE, band |-> 2 * RateBound,
     warn |-> 2 * lowAt * RateBound, mayRefuse |-> FALSE]

CpuInt     == ByStrength(5000, FALSE)
CpuFloat   == ByStrength(5000, FALSE)
CpuL1i     == ByStrength(500, FALSE)
SimdAvx    == ByStrength(5000, FALSE)
SimdAvx512 == ByStrength(5000, TRUE)
Tlb        == ByStrength(1000, TRUE)

(* min(max(10^9/size, 500), 5000) rounds: a small cache and a large one.   *)
SmallCache == ByStrength(5000, TRUE)
LargeCache == ByStrength(500, TRUE)

MemBw      == ByRate(10000, 2)
UdpClient  == ByRate(5000, 1)
UdpServer  == ByRate(2000, 1)

Kinds == {CpuInt, CpuFloat, CpuL1i, SimdAvx, SimdAvx512, Tlb, SmallCache,
          LargeCache, MemBw, UdpClient, UdpServer}
=============================================================================
