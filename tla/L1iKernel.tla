----------------------------- MODULE L1iKernel -----------------------------
(***************************************************************************)
(* The machine code that rbench-cpu-l1igen.cpp prints for the stressor     *)
(* cpu-l1i: labels that each count down and jump on, so that following     *)
(* them touches every line of the instruction cache.                       *)
(*                                                                         *)
(* The label .LABAL<b*64+c> is the pair <<b, c>>, block b and column c.    *)
(* The blocks 0 .. LoopCount-1 come from printloop, the block LoopCount    *)
(* from printendloop.  `visits` is an observer.                            *)
(***************************************************************************)
EXTENDS Integers

CONSTANTS
    LoopCount,     \* loopcount, 3000
    Columns,       \* 64
    RoundTime      \* roundtime, 1

ASSUME L1iAssumption ==
    LoopCount \in Nat /\ Columns \in Nat \ {0} /\ RoundTime \in Nat \ {0}

VARIABLES
    label,         \* where the program counter is, or Returned
    r9, r10,
    visits         \* how often each label was executed

codeVars == <<label, r9, r10, visits>>

Returned == <<-1, -1>>

Labels == (0 .. LoopCount) \X (1 .. Columns)

StartBad == LoopCount * RoundTime * Columns

(* printhead, before the one is added to it.                               *)
Start == (LoopCount + 1) * RoundTime * Columns

L1iInit ==
    /\ label = <<0, 1>>
    /\ r9 = RoundTime
    /\ r10 = 1 + Start
    /\ visits = [l \in Labels |-> 0]

CountDown ==
    /\ r10' = r10 - 1
    /\ visits' = [visits EXCEPT ![label] = @ + 1]

(* printloop: on to the same column of the next block.                     *)
Across ==
    /\ label # Returned /\ label[1] < LoopCount
    /\ CountDown
    /\ label' = <<label[1] + 1, label[2]>>
    /\ UNCHANGED r9

Back == label' = <<0, label[2] + 1>>

(* printendloop: back to the next column of the first block.               *)
NextColumn ==
    /\ label # Returned /\ label[1] = LoopCount /\ label[2] < Columns
    /\ CountDown
    /\ Back
    /\ UNCHANGED r9

(* Its last label: dec %r9, jne .LBEGIN_FOR.                               *)
LastLabel ==
    /\ label # Returned /\ label[1] = LoopCount /\ label[2] = Columns
    /\ CountDown
    /\ r9' = r9 - 1
    /\ label' = IF r9' # 0 THEN <<0, 1>> ELSE Returned

L1iNext == Across \/ NextColumn \/ LastLabel

-----------------------------------------------------------------------------
(* rbench-cpu-l1igen.cpp, on the exit status: "should return 1"; and the   *)
(* whole of the code was executed, each label of it once a round.          *)
ReturnsOne ==
    label = Returned =>
        /\ r10 = 1
        /\ \A l \in Labels : visits[l] = RoundTime
=============================================================================
