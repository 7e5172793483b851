------------------------- MODULE ComputationsProofs -------------------------
(***************************************************************************)
(* The invariants of MCComputations, for every choice of its constants.    *)
(***************************************************************************)
EXTENDS MCComputations, LoadControlProofs, MwcProofs, WellFoundedInduction

-----------------------------------------------------------------------------
(* Load control: the measurement never leaves the box it starts in.        *)
InBox == /\ load.aim \in Nat /\ load.n \in Nat /\ load.run \in Nat
         /\ load.idle \in Nat /\ load.period \in Nat /\ Work \in Nat

LEMMA InBoxAlways == Spec => []InBox
<1>1. Init => InBox
  <2> SUFFICES ASSUME load \in Box \/ load = Idle PROVE InBox
    BY DEF Init
  <2>1. CASE load \in Box
    <3>1. /\ load.aim \in Nat /\ load.n \in Nat /\ load.run \in Nat
          /\ load.idle \in Nat /\ load.period \in Nat
      BY <2>1, BoxAssumption DEF Box
    <3> QED
      BY <3>1, BoxAssumption DEF InBox, Work
  <2>2. CASE load = Idle
    BY <2>2, BoxAssumption DEF Idle, InBox, Work
  <2> QED
    BY <2>1, <2>2
<1>2. InBox /\ [Next]_vars => InBox'
  <2> SUFFICES load' = load => (InBox => InBox')
    BY DEF Next, vars
  <2> QED
    BY DEF InBox, Work
<1> QED
  BY <1>1, <1>2, PTL DEF Spec

(* For every box of measurements the three functions of load control keep  *)
(* the load asked for, and fill the period up to half a round.             *)
THEOREM LoadAlwaysKept == Spec => []KeepsLoad
<1>1. InBox => KeepsLoad
  <2> SUFFICES ASSUME InBox, IsRegular PROVE KeepsLoad
    BY DEF KeepsLoad
  <2>1. ShareKept(load.aim, Work, load.run, load.idle, load.n, NextBatch)
    BY BatchKeepsShare, BoxAssumption DEF InBox, IsRegular, NextBatch
  <2>2. PeriodKept(load.aim, Work, load.n, load.period, NextBatch)
    BY BatchKeepsPeriod, BoxAssumption DEF InBox, IsRegular, NextBatch
  <2> QED
    BY <2>1, <2>2 DEF KeepsLoad
<1> QED
  BY <1>1, InBoxAlways, PTL

(* For every box of measurements they ask for an empty batch exactly when  *)
(* a round is too long, and drop the sleep only if the aim is out of reach. *)
THEOREM EmptyOnlyIfTooBig == Spec => []EmptyOrBehind
<1>1. InBox => EmptyOrBehind
  <2> SUFFICES ASSUME InBox, IsRegular PROVE EmptyOrBehind
    BY DEF EmptyOrBehind
  <2>1. EmptyIff(load.aim, Work, load.n, load.period, NextBatch)
    BY BatchEmptyIff, BoxAssumption DEF InBox, IsRegular, NextBatch
  <2>2. NoSleepMeansBehind(load.aim, Work, load.run, load.idle, NextBatch)
    BY BatchSleepsIfAhead, BoxAssumption DEF InBox, IsRegular, NextBatch
  <2> QED
    BY <2>1, <2>2 DEF EmptyOrBehind
<1> QED
  BY <1>1, InBoxAlways, PTL

-----------------------------------------------------------------------------
(* The generated kernel: the labels before the present one, column by      *)
(* column, were executed once more often than the others, and r10 counts   *)
(* what is left of RoundTime times all labels.                             *)
AllLabels == (LoopCount + 1) * Columns

Before(l) == \/ l[2] < label[2]
             \/ l[2] = label[2] /\ l[1] < label[1]

CodeInv ==
    /\ label \in Labels \cup {Returned}
    /\ visits \in [Labels -> Int]
    /\ label \in Labels =>
         /\ r9 \in Int /\ r9 > 0
         /\ r10 = 1 + AllLabels * r9 - (label[2] - 1) * (LoopCount + 1) - label[1]
         /\ \A l \in Labels :
              visits[l] = (RoundTime - r9) + (IF Before(l) THEN 1 ELSE 0)
    /\ ReturnsOne

LEMMA LabelParts ==
    /\ LoopCount \in Nat /\ Columns \in Nat /\ Columns > 0
    /\ RoundTime \in Nat /\ RoundTime > 0
    /\ AllLabels \in Nat
    /\ \A l \in Labels : /\ l = <<l[1], l[2]>>
                         /\ l[1] \in 0 .. LoopCount
                         /\ l[2] \in 1 .. Columns
    /\ \A b \in 0 .. LoopCount, c \in 1 .. Columns : <<b, c>> \in Labels
    /\ Returned \notin Labels
  BY L1iAssumption DEF Labels, Returned, AllLabels

LEMMA CodeInvStarts == L1iInit => CodeInv
<1> SUFFICES ASSUME L1iInit PROVE CodeInv
  OBVIOUS
<1> USE LabelParts
<1>1. label = <<0, 1>> /\ label \in Labels
  BY DEF L1iInit
<1>2. visits \in [Labels -> Int] /\ \A l \in Labels : visits[l] = 0
  BY DEF L1iInit
<1>3. \A l \in Labels : ~ Before(l)
  BY <1>1 DEF Before
<1>4. r9 = RoundTime /\ r10 = 1 + AllLabels * RoundTime
  BY DEF L1iInit, Start, AllLabels
<1> QED
  BY <1>1, <1>2, <1>3, <1>4 DEF CodeInv, ReturnsOne

LEMMA CodeInvSteps == CodeInv /\ [L1iNext]_codeVars => CodeInv'
<1> SUFFICES ASSUME CodeInv, [L1iNext]_codeVars PROVE CodeInv'
  OBVIOUS
<1> USE LabelParts
<1>u. CASE UNCHANGED codeVars
  BY <1>u DEF CodeInv, codeVars, ReturnsOne, Before
<1> SUFFICES ASSUME label \in Labels, CountDown, L1iNext PROVE CodeInv'
  BY <1>u DEF CodeInv, L1iNext, Across, NextColumn, LastLabel
<1> DEFINE b == label[1]
           c == label[2]
<1>1. /\ label = <<b, c>> /\ b \in 0 .. LoopCount /\ c \in 1 .. Columns
      /\ r9 \in Int /\ r9 > 0
      /\ r10 = 1 + AllLabels * r9 - (c - 1) * (LoopCount + 1) - b
      /\ visits \in [Labels -> Int]
      /\ \A l \in Labels : visits[l] = (RoundTime - r9) + (IF Before(l) THEN 1 ELSE 0)
  BY DEF CodeInv
<1>2. /\ r10' = r10 - 1
      /\ visits' \in [Labels -> Int]
      /\ \A l \in Labels :
           visits'[l] = (RoundTime - r9) + (IF Before(l) \/ l = label THEN 1 ELSE 0)
  BY <1>1 DEF CountDown, Before
<1>3. CASE Across
  <2>1. label' = <<b + 1, c>> /\ label' \in Labels /\ r9' = r9
    BY <1>1, <1>3 DEF Across
  <2>2. \A l \in Labels : Before(l)' <=> Before(l) \/ l = label
    BY <1>1, <2>1 DEF Before
  <2>3. \A l \in Labels : visits'[l] = (RoundTime - r9') + (IF Before(l)' THEN 1 ELSE 0)
    BY <1>2, <2>1, <2>2
  <2>4. r10' = 1 + AllLabels * r9' - (label'[2] - 1) * (LoopCount + 1) - label'[1]
    <3>1. label'[1] = b + 1 /\ label'[2] = c
      BY <2>1
    <3> DEFINE left == AllLabels * r9 - (c - 1) * (LoopCount + 1)
    <3>2. r10 = 1 + left - b /\ left \in Int
      BY <1>1
    <3>3. r10' = 1 + left - (b + 1)
      <4> HIDE DEF left
      <4> QED
        BY <1>1, <1>2, <3>2
    <3> QED
      BY <2>1, <3>1, <3>3
  <2>5. ReturnsOne'
    BY <2>1 DEF ReturnsOne
  <2> QED
    BY <1>1, <1>2, <2>1, <2>3, <2>4, <2>5 DEF CodeInv
<1>4. CASE NextColumn
  <2>1. b = LoopCount /\ label' = <<0, c + 1>> /\ label' \in Labels /\ r9' = r9
    BY <1>1, <1>4 DEF NextColumn, Back
  <2>2. \A l \in Labels : Before(l)' <=> Before(l) \/ l = label
    BY <1>1, <2>1 DEF Before
  <2>3. \A l \in Labels : visits'[l] = (RoundTime - r9') + (IF Before(l)' THEN 1 ELSE 0)
    BY <1>2, <2>1, <2>2
  <2>4. r10' = 1 + AllLabels * r9' - (label'[2] - 1) * (LoopCount + 1) - label'[1]
    BY <1>1, <1>2, <2>1
  <2>5. ReturnsOne'
    BY <2>1 DEF ReturnsOne
  <2> QED
    BY <1>1, <1>2, <2>1, <2>3, <2>4, <2>5 DEF CodeInv
<1>5. CASE LastLabel
  <2>1. /\ b = LoopCount /\ c = Columns /\ r9' = r9 - 1
        /\ label' = IF r9' # 0 THEN <<0, 1>> ELSE Returned
    BY <1>1, <1>5 DEF LastLabel
  <2>2. \A l \in Labels : Before(l) \/ l = label
    BY <1>1, <2>1 DEF Before
  <2>3. \A l \in Labels : visits'[l] = RoundTime - r9'
    BY <1>1, <1>2, <2>1, <2>2
  <2>4. r10' = 1 + AllLabels * r9'
    <3>1. AllLabels * r9' = AllLabels * r9 - AllLabels
      BY <1>1, <2>1
    <3>2. (Columns - 1) * (LoopCount + 1) + LoopCount + 1 = AllLabels
      BY DEF AllLabels
    <3> QED
      BY <1>1, <1>2, <2>1, <3>1, <3>2
  <2>5. CASE r9' = 0
    <3>1. label' = Returned
      BY <2>1, <2>5
    <3>2. r10' = 1
      <4>1. AllLabels * 0 = 0
        OBVIOUS
      <4>2. r10' = 1 + AllLabels * 0
        BY <2>4, <2>5
      <4> QED
        BY <4>1, <4>2
    <3>3. \A l \in Labels : visits'[l] = RoundTime
      BY <2>3, <2>5
    <3>4. ReturnsOne'
      BY <3>1, <3>2, <3>3 DEF ReturnsOne
    <3> QED
      BY <1>2, <3>1, <3>4 DEF CodeInv
  <2>6. CASE r9' # 0
    <3>1. label' = <<0, 1>> /\ label' \in Labels
      BY <2>1, <2>6
    <3>2. \A l \in Labels : ~ Before(l)'
      BY <3>1 DEF Before
    <3> QED
      BY <1>1, <1>2, <2>1, <2>3, <2>4, <2>6, <3>1, <3>2 DEF CodeInv, ReturnsOne
  <2> QED
    BY <2>5, <2>6
<1> QED
  BY <1>3, <1>4, <1>5 DEF L1iNext

(* The code that rbench-cpu-l1igen.cpp prints returns 1, as its comment    *)
(* says, and has executed each of its labels once a round, whatever the    *)
(* size of the cache it was made for.                                      *)
THEOREM KernelReturnsOne == Spec => []ReturnsOne
<1>1. Init => CodeInv
  BY CodeInvStarts DEF Init
<1>2. CodeInv /\ [Next]_vars => CodeInv'
  <2> SUFFICES [Next]_vars => [L1iNext]_codeVars
    BY CodeInvSteps
  <2> QED
    BY DEF Next, vars, codeVars
<1>3. CodeInv => ReturnsOne
  BY DEF CodeInv
<1> QED
  BY <1>1, <1>2, <1>3, PTL DEF Spec

-----------------------------------------------------------------------------
LEMMA GeneratorInvariant == Spec => []GenInv
<1>1. Init => GenInv
  <2> SUFFICES ASSUME Init PROVE GenInv
    OBVIOUS
  <2>1. PICK seed \in Seeds \cup {<<0, 0>>} : MwcFrom(seed)
    BY DEF Init, MwcInit
  <2>2. seed \in (0 .. Word - 1) \X (0 .. Word - 1)
    BY MwcAssumption, Powers
  <2> QED
    BY <2>1, <2>2, StateStarts
<1>2. GenInv /\ [Next]_vars => GenInv'
  <2> SUFFICES [Next]_vars => [MwcNext]_genVars
    BY GenInvSteps
  <2> QED
    BY DEF Next, vars, genVars
<1> QED
  BY <1>1, <1>2, PTL DEF Spec

(* The words of the generator (mwc_t) keep their width, and no modn        *)
(* returns before it has a value, for every width of a byte.               *)
THEOREM GeneratorTypeCorrect == Spec => []MwcTypeOK
  BY GeneratorInvariant, PTL DEF GenInv

(* mwc16, mwc8 and mwc1 deal out every part of a saved word once, whatever *)
(* is drawn in between, for every width of a byte and every seed.          *)
THEOREM NoPartTwice == Spec => []EveryPartOnce
  BY GeneratorInvariant, DealtOut, PTL

(* Every modn takes its value from below a multiple of its bound, and does *)
(* not throw away more than half, for every width and every bound.         *)
THEOREM DrawsUnbiased == Spec => []Unbiased
  BY GeneratorInvariant, DrawnFairly, PTL

-----------------------------------------------------------------------------
(* Buffers: where the kernels write, for every size, page size and machine *)
(* inside their mapping but for the ways that module Buffers names, and,   *)
(* with one array for several instances, in slices that do not meet.       *)
(* A set of numbers has a least member, and one that is bounded a greatest. *)
LEMMA SmallestExists ==
    ASSUME NEW S, S \subseteq Nat, S # {}
    PROVE  Min(S) \in S /\ \A y \in S : Min(S) <= y
<1> DEFINE R == OpToRel(<, Nat)
<1>1. IsWellFoundedOn(R, Nat)
  BY NatLessThanWellFounded
<1>2. \A x, y \in Nat : y < x => <<y, x>> \in R
  BY DEF OpToRel
<1> HIDE DEF R
<1>3. PICK x \in S : \A y \in S : ~ (<<y, x>> \in R)
  BY <1>1, WFMin
<1>4. \A y \in S : x <= y
  <2> SUFFICES ASSUME NEW y \in S, y < x PROVE FALSE
    OBVIOUS
  <2>1. <<y, x>> \in R
    BY <1>2
  <2> QED
    BY <1>3, <2>1
<1> QED
  BY <1>4 DEF Min

LEMMA LargestExists ==
    ASSUME NEW S, NEW top \in Nat, S \subseteq 0 .. top, S # {}
    PROVE  Max(S) \in S
<1> DEFINE T == {top - x : x \in S}
<1>1. T \subseteq Nat
  OBVIOUS
<1>2. T # {}
  <2>1. PICK x : x \in S
    OBVIOUS
  <2>2. top - x \in T
    BY <2>1
  <2> QED
    BY <2>2
<1>3. Min(T) \in T /\ \A y \in T : Min(T) <= y
  BY <1>1, <1>2, SmallestExists, Zenon
<1>4. PICK x \in S : top - x = Min(T)
  BY <1>3
<1>5. \A y \in S : x >= y
  <2> SUFFICES ASSUME NEW y \in S PROVE x >= y
    OBVIOUS
  <2>1. top - x <= top - y
    BY <1>3, <1>4
  <2> QED
    BY <2>1
<1> QED
  BY <1>5 DEF Max

LEMMA Remainder ==
    ASSUME NEW c \in Nat, NEW d \in Nat, d > 0
    PROVE  /\ c \div d \in Nat /\ d * (c \div d) <= c
           /\ c % d \in Nat /\ c % d < d /\ c % d <= c
           /\ c < d => c % d = c
  OBVIOUS

LEMMA MinusOneWraps ==
    ASSUME NEW d \in Nat, d > 0
    PROVE  (-1) % d = d - 1
  OBVIOUS

-----------------------------------------------------------------------------
LEMMA UnitsCount == \A suffix : Unit(suffix) \in Nat
  BY DEF Unit

(* What read_cpuinfo found: a list of caches with numbers in them.         *)
CachesInv ==
    \E top \in Nat :
        /\ DOMAIN caches = 1 .. top
        /\ \A i \in 1 .. top : caches[i].line \in Nat /\ caches[i].size \in Nat

Entries == [type : STRING, level : Nat, line : Nat, number : Nat, suffix : STRING]

LEMMA CachesRead ==
    ASSUME NEW sys \in Seq(Entries), caches = ReadCaches(sys)
    PROVE  CachesInv
<1> DEFINE gone == {i \in 1 .. Len(sys) : sys[i].type = NoEntry}
           last == IF gone = {} THEN Len(sys) ELSE Min(gone) - 1
<1>1. Len(sys) \in Nat /\ \A i \in 1 .. Len(sys) : sys[i] \in Entries
  OBVIOUS
<1>2. last \in Nat /\ last <= Len(sys)
  <2>1. CASE gone = {}
    BY <1>1, <2>1
  <2>2. CASE gone # {}
    <3>1. gone \subseteq Nat
      BY <1>1
    <3>2. Min(gone) \in gone
      <4> HIDE DEF gone
      <4> QED
        BY <2>2, <3>1, SmallestExists
    <3> QED
      BY <1>1, <2>2, <3>2
  <2> QED
    BY <2>1, <2>2
<1>3. caches = [i \in 1 .. last |->
                  [type |-> sys[i].type, level |-> sys[i].level, line |-> sys[i].line,
                   size |-> sys[i].number * Unit(sys[i].suffix)]]
  BY DEF ReadCaches
<1> HIDE DEF last
<1>4. ASSUME NEW i \in 1 .. last
      PROVE  caches[i].line \in Nat /\ caches[i].size \in Nat
  <2>1. sys[i].line \in Nat /\ sys[i].number \in Nat
    <3>1. sys[i] \in Entries
      BY <1>1, <1>2, <1>4
    <3> QED
      BY <3>1 DEF Entries
  <2>2. sys[i].number * Unit(sys[i].suffix) \in Nat
    BY <2>1, UnitsCount
  <2> QED
    BY <1>3, <1>4, <2>1, <2>2
<1> QED
  BY <1>2, <1>3, <1>4 DEF CachesInv

LEMMA LineIsNumber == CachesInv => LineSize \in Nat
<1> SUFFICES ASSUME CachesInv PROVE LineSize \in Nat
  OBVIOUS
<1>1. PICK top \in Nat :
        /\ DOMAIN caches = 1 .. top
        /\ \A i \in 1 .. top : caches[i].line \in Nat /\ caches[i].size \in Nat
  BY DEF CachesInv
<1> DEFINE small == {i \in DOMAIN caches : /\ caches[i].type # "Instruction"
                                           /\ size > caches[i].size}
<1>2. CASE small = {}
  BY <1>2 DEF LineSize, UniversalLine
<1>3. CASE small # {}
  <2>1. small \subseteq 0 .. top
    BY <1>1
  <2>2. Max(small) \in small
    <3> HIDE DEF small
    <3> QED
      BY <1>3, <2>1, LargestExists
  <2>3. LineSize = caches[Max(small)].line
    BY <1>3 DEF LineSize
  <2> QED
    BY <1>1, <2>2, <2>3
<1> QED
  BY <1>2, <1>3

LEMMA CacheSizeIsNumber == CachesInv => DataCacheSize(3) \in Nat
<1> SUFFICES ASSUME CachesInv PROVE DataCacheSize(3) \in Nat
  OBVIOUS
<1>1. PICK top \in Nat :
        /\ DOMAIN caches = 1 .. top
        /\ \A i \in 1 .. top : caches[i].line \in Nat /\ caches[i].size \in Nat
  BY DEF CachesInv
<1> DEFINE fits == {i \in DOMAIN caches : /\ caches[i].level = 3
                                          /\ caches[i].type \in {"Unified", "Data"}}
<1>2. CASE fits = {}
  BY <1>2 DEF DataCacheSize
<1>3. CASE fits # {}
  <2>1. fits \subseteq Nat
    BY <1>1
  <2>2. Min(fits) \in fits
    <3> HIDE DEF fits
    <3> QED
      BY <1>3, <2>1, SmallestExists
  <2>3. DataCacheSize(3) = caches[Min(fits)].size
    BY <1>3 DEF DataCacheSize
  <2> QED
    BY <1>1, <2>2, <2>3
<1> QED
  BY <1>2, <1>3

-----------------------------------------------------------------------------
fixed == <<kind, caches, size, count, block>>

FixedInv ==
    /\ kind \in {"cache", "tlb", "mem-bw", "payload"}
    /\ CachesInv
    /\ size \in Nat /\ count \in Nat \ {0} /\ block \in Nat
    /\ kind = "payload" => size > 0

(* An address an instance may have written, and one in its own slice.      *)
Inside(a) ==
    \/ a = Untouched \/ MappingWrapped \/ NoSlice
    \/ kind = "tlb" /\ a = Aligned + (WordSize - 1) * Page
    \/ kind = "payload" /\ a \in block + size .. block + InformSize - 1
    \/ a \in block .. block + Mapped - 1

InSlice(i, a) ==
    kind = "mem-bw" /\ ~ NoSlice /\ a # Untouched =>
        Aligned + Elem * Slice(i) <= a /\ a < Aligned + Elem * Slice(i + 1)

PtrInv ==
    /\ ptr \in [Instances -> Nat]
    /\ kind = "mem-bw" /\ ~ NoSlice => \A i \in Instances : ptr[i] < SliceLen

AtInv ==
    /\ at \in [Instances -> Int]
    /\ \A i \in Instances : Inside(at[i]) /\ InSlice(i, at[i])

BufInv ==
    /\ FixedInv
    /\ run = "run" => ~ Divides
    /\ PtrInv
    /\ AtInv

LEMMA Lengths ==
    ASSUME FixedInv
    PROVE  /\ Align \in Nat /\ ArrayLen \in Nat /\ SliceLen \in Nat
           /\ SliceLen * count <= ArrayLen
           /\ Align > 0 => /\ Aligned \in Nat /\ block <= Aligned
                           /\ Aligned <= block + Align
           /\ Page \in Nat /\ Page > 0 /\ Elem \in Nat /\ Elem > 0
           /\ WordSize \in Nat /\ WordSize > 0
<1>1. LineSize \in Nat /\ DataCacheSize(3) \in Nat
  BY LineIsNumber, CacheSizeIsNumber DEF FixedInv
<1>2. Align \in Nat
  BY <1>1, BufferAssumption DEF Align
<1>3. ArrayLen \in Nat
  BY <1>1 DEF ArrayLen
<1>4. SliceLen \in Nat /\ SliceLen * count <= ArrayLen
  <2>1. count \in Nat /\ count > 0
    BY DEF FixedInv
  <2>2. /\ ArrayLen \div count \in Nat
        /\ count * (ArrayLen \div count) <= ArrayLen
    BY <1>3, <2>1, Remainder
  <2> DEFINE q == ArrayLen \div count
  <2>3. q \in Nat /\ count * q <= ArrayLen
    BY <2>2
  <2> HIDE DEF q
  <2>4. q * count = count * q
    BY <2>1, <2>3
  <2> QED
    BY <2>3, <2>4 DEF SliceLen, q
<1>5. ASSUME Align > 0
      PROVE  Aligned \in Nat /\ block <= Aligned /\ Aligned <= block + Align
  <2>1. block \in Nat
    BY DEF FixedInv
  <2>2. block % Align \in Nat /\ block % Align < Align
    BY <1>2, <1>5, <2>1, Remainder
  <2> QED
    BY <1>2, <2>1, <2>2 DEF Aligned
<1> QED
  BY <1>2, <1>3, <1>4, <1>5, BufferAssumption

(* Nothing here depends on what the kernels change.                        *)
LEMMA SameLayout ==
    UNCHANGED fixed =>
        /\ FixedInv' <=> FixedInv
        /\ Divides' <=> Divides
        /\ Instances' = Instances /\ SliceLen' = SliceLen
        /\ NoSlice' <=> NoSlice
        /\ \A a : Inside(a)' <=> Inside(a)
        /\ \A i, a : InSlice(i, a)' <=> InSlice(i, a)
<1> SUFFICES ASSUME UNCHANGED fixed
             PROVE  /\ FixedInv' <=> FixedInv
                    /\ Divides' <=> Divides
                    /\ Instances' = Instances /\ SliceLen' = SliceLen
                    /\ NoSlice' <=> NoSlice
                    /\ \A a : Inside(a)' <=> Inside(a)
                    /\ \A i, a : InSlice(i, a)' <=> InSlice(i, a)
  OBVIOUS
<1> USE DEF fixed
<1>1. CachesInv' <=> CachesInv
  BY DEF CachesInv
<1>2. LineSize' = LineSize
  BY DEF LineSize
<1>3. DataCacheSize(3)' = DataCacheSize(3)
  BY DEF DataCacheSize
<1>4. Align' = Align /\ ArrayLen' = ArrayLen
  BY <1>2, <1>3 DEF Align, ArrayLen
<1>5. Aligned' = Aligned /\ SliceLen' = SliceLen
  BY <1>4 DEF Aligned, SliceLen
<1>6. Mapped' = Mapped
  BY <1>4 DEF Mapped
<1>7. Instances' = Instances
  BY DEF Instances
<1>8. (NoSlice' <=> NoSlice) /\ (MappingWrapped' <=> MappingWrapped)
  BY <1>4, <1>5 DEF NoSlice, MappingWrapped
<1>9. ASSUME NEW a PROVE Inside(a)' <=> Inside(a)
  BY <1>5, <1>6, <1>8 DEF Inside
<1>10. ASSUME NEW i, NEW a PROVE InSlice(i, a)' <=> InSlice(i, a)
  BY <1>5, <1>8 DEF InSlice, Slice
<1>11. Divides' <=> Divides
  BY <1>4 DEF Divides
<1>12. FixedInv' <=> FixedInv
  BY <1>1 DEF FixedInv
<1> QED
  BY <1>5, <1>7, <1>8, <1>9, <1>10, <1>11, <1>12

-----------------------------------------------------------------------------
(* Each kernel's address.                                                  *)
LEMMA CacheAddress ==
    ASSUME FixedInv, kind = "cache", Align > 0, NEW draw \in 0 .. size - 1
    PROVE  Inside(Aligned + draw) /\ Aligned + draw \in Int
<1>1. size \in Nat /\ block \in Nat
  BY DEF FixedInv
<1>2. /\ Align \in Nat /\ Aligned \in Nat /\ WordSize \in Nat
      /\ block <= Aligned /\ Aligned <= block + Align
  BY Lengths
<1>3. CASE size + Align >= WordSize
  BY <1>1, <1>2, <1>3 DEF Inside, MappingWrapped
<1>4. CASE size + Align < WordSize
  <2>1. Mapped = size + Align
    <3>1. (size + Align) % WordSize = size + Align
      BY <1>1, <1>2, <1>4, Remainder
    <3> QED
      BY <3>1 DEF Mapped
  <2>2. Aligned + draw \in block .. block + Mapped - 1
    BY <1>1, <1>2, <2>1
  <2> QED
    BY <2>2 DEF Inside
<1> QED
  BY <1>1, <1>2, <1>3, <1>4

LEMMA TlbAddress ==
    ASSUME FixedInv, kind = "tlb", NEW draw \in PageDraws
    PROVE  Inside(Aligned + PageOf(draw) * Page) /\ Aligned + PageOf(draw) * Page \in Int
<1> DEFINE pages == size \div Page
<1>1. size \in Nat /\ block \in Nat
  BY DEF FixedInv
<1>2. /\ Page \in Nat /\ Page > 0 /\ Align = Page /\ WordSize \in Nat /\ WordSize > 0
      /\ Aligned \in Nat /\ block <= Aligned /\ Aligned <= block + Align
  BY Lengths DEF Align
<1>3. pages \in Nat /\ Page * pages <= size
  BY <1>1, <1>2, Remainder
<1>4. draw \in Nat /\ (draw > 0 => draw < pages)
  <2> HIDE DEF pages
  <2>1. {pages, 1} \subseteq 0 .. pages + 1 /\ {pages, 1} # {}
    BY <1>3
  <2>2. Max({pages, 1}) \in {pages, 1}
    <3>1. pages + 1 \in Nat
      BY <1>3
    <3> QED
      BY <2>1, <3>1, LargestExists, Zenon
  <2>3. draw \in 0 .. Max({pages, 1}) - 1
    BY DEF PageDraws, pages
  <2> QED
    BY <1>3, <2>2, <2>3
<1>5. CASE draw = 0
  <2>1. PageOf(draw) = WordSize - 1
    BY <1>2, <1>5, MinusOneWraps DEF PageOf
  <2>2. Aligned + PageOf(draw) * Page \in Int
    BY <1>2, <2>1
  <2> QED
    BY <2>1, <2>2 DEF Inside
<1>6. CASE draw > 0
  <2> DEFINE p == PageOf(draw)
  <2>1. p \in Nat /\ p <= draw - 1
    BY <1>2, <1>4, <1>6, Remainder DEF PageOf
  <2> HIDE DEF p, pages
  <2>2. p + 1 <= pages
    BY <1>3, <1>4, <1>6, <2>1
  <2>3. Page * (p + 1) <= Page * pages
    BY <1>2, <1>3, <2>1, <2>2
  <2>4. Page * (p + 1) = p * Page + Page /\ p * Page \in Nat
    BY <1>2, <2>1
  <2>5. p * Page < size
    <3> HIDE DEF p
    <3> DEFINE x == p * Page
               y == Page * pages
    <3>1. x + Page <= y /\ y <= size /\ x \in Nat /\ y \in Int
      BY <1>2, <1>3, <2>3, <2>4
    <3> HIDE DEF x, y
    <3>2. x < size
      BY <1>1, <1>2, <3>1
    <3> QED
      BY <3>2 DEF x
  <2>6. Mapped = size + Page
    BY <1>2 DEF Mapped
  <2>7. Aligned + p * Page \in block .. block + Mapped - 1
    BY <1>1, <1>2, <2>4, <2>5, <2>6
  <2> QED
    BY <2>7 DEF Inside, p
<1> QED
  BY <1>4, <1>5, <1>6

LEMMA SliceAddress ==
    ASSUME FixedInv, kind = "mem-bw", NEW i \in Instances, NEW p \in Nat,
           NoSlice \/ p < SliceLen
    PROVE  LET a == Aligned + Elem * (Slice(i) + p)
           IN  Inside(a) /\ InSlice(i, a) /\ a \in Int
<1> DEFINE a == Aligned + Elem * (Slice(i) + p)
<1>1. /\ Page \in Nat /\ Page > 0 /\ Align = Page
      /\ SliceLen \in Nat /\ ArrayLen \in Nat /\ SliceLen * count <= ArrayLen
      /\ Elem \in Nat /\ Elem > 0
      /\ Aligned \in Nat /\ block <= Aligned /\ Aligned <= block + Align
  BY Lengths DEF Align
<1>2. count \in Nat /\ block \in Nat /\ i \in Nat /\ i + 1 <= count
  BY DEF FixedInv, Instances
<1>3. Slice(i) \in Nat /\ Slice(i + 1) = Slice(i) + SliceLen
  BY <1>1, <1>2 DEF Slice
<1>4. a \in Int
  BY <1>1, <1>3
<1>5. CASE NoSlice
  BY <1>4, <1>5 DEF Inside, InSlice
<1>6. CASE ~ NoSlice
  <2> DEFINE s == Slice(i)
             t == Slice(i + 1)
  <2>1. s \in Nat /\ t = s + SliceLen /\ p < SliceLen
    BY <1>3, <1>6
  <2>2. t <= ArrayLen
    <3>1. SliceLen * (i + 1) <= SliceLen * count
      BY <1>1, <1>2
    <3>2. t = SliceLen * (i + 1)
      BY DEF Slice
    <3>3. SliceLen * count \in Int /\ SliceLen * (i + 1) \in Int
      BY <1>1, <1>2
    <3> HIDE DEF t
    <3> QED
      BY <1>1, <3>1, <3>2, <3>3
  <2> HIDE DEF s, t
  <2>3. Elem * s <= Elem * (s + p) /\ Elem * (s + p) < Elem * t /\ Elem * t <= Elem * ArrayLen
    <3>1. t \in Nat /\ s <= s + p /\ s + p + 1 <= t
      BY <1>1, <2>1
    <3>2. Elem * s <= Elem * (s + p)
      BY <1>1, <2>1
    <3>3. Elem * (s + p + 1) <= Elem * t
      BY <1>1, <2>1, <3>1
    <3>4. Elem * (s + p + 1) = Elem * (s + p) + Elem
      BY <1>1, <2>1
    <3>5. Elem * t <= Elem * ArrayLen
      BY <1>1, <2>2, <3>1
    <3>6. Elem * (s + p) \in Int /\ Elem * t \in Int
      BY <1>1, <2>1, <3>1
    <3> QED
      BY <1>1, <3>2, <3>3, <3>4, <3>5, <3>6
  <2> DEFINE x == Elem * s
             y == Elem * (s + p)
             u == Elem * t
             v == Elem * ArrayLen
  <2>4. x \in Nat /\ y \in Nat /\ u \in Nat /\ v \in Nat
    BY <1>1, <2>1
  <2>5. Mapped = v + Align
    BY <1>1 DEF Mapped
  <2>6. a = Aligned + y
    BY DEF s
  <2> HIDE DEF a, x, y, u, v
  <2>7. x <= y /\ y < u /\ u <= v
    BY <2>3 DEF x, y, u, v
  <2>8. a \in block .. block + Mapped - 1
    BY <1>1, <1>2, <2>4, <2>5, <2>6, <2>7
  <2>9. Aligned + x <= a /\ a < Aligned + u
    BY <1>1, <2>4, <2>6, <2>7
  <2>10. InSlice(i, a)
    BY <2>9 DEF InSlice, x, u, s, t
  <2> QED
    BY <2>8, <2>10, <1>4 DEF Inside, a
<1> QED
  BY <1>5, <1>6

LEMMA PayloadAddress ==
    ASSUME FixedInv, kind = "payload",
           NEW off \in FillOffsets(size) \cup ChecksumOffsets(size) \cup 0 .. InformSize - 1
    PROVE  Inside(block + off) /\ block + off \in Int
<1>1. size \in Nat /\ size > 0 /\ block \in Nat /\ InformSize \in Nat /\ InformSize > 3
  BY BufferAssumption DEF FixedInv
<1>2. Mapped = size
  BY DEF Mapped
<1>3. size % 4 \in Nat /\ size % 4 <= size
  BY <1>1, Remainder
<1>4. off \in 0 .. size - 1 \/ off \in 0 .. InformSize - 1
  <2>1. CASE off \in FillOffsets(size)
    <3>1. off \in 0 .. 3 \/ \E i \in 0 .. (size % 4) - 1 : off = size - 1 - i
      BY <2>1 DEF FillOffsets
    <3> QED
      BY <1>1, <1>3, <3>1
  <2>2. CASE off \in ChecksumOffsets(size)
    BY <1>1, <2>2 DEF ChecksumOffsets
  <2> QED
    BY <2>1, <2>2
<1>5. off \in 0 .. size - 1 \/ off \in size .. InformSize - 1
  BY <1>1, <1>4
<1> QED
  BY <1>1, <1>2, <1>5 DEF Inside

-----------------------------------------------------------------------------
(* A kernel that writes where it may keeps every instance where it was.    *)
LEMMA TouchKeeps ==
    ASSUME BufInv, UNCHANGED fixed, NEW i \in Instances, NEW a \in Int, Touch(i, a),
           Inside(a), InSlice(i, a)
    PROVE  AtInv'
<1>1. at' = [at EXCEPT ![i] = a] /\ at \in [Instances -> Int]
  BY DEF Touch, BufInv, AtInv
<1>2. \A j \in Instances : Inside(at'[j]) /\ InSlice(j, at'[j])
  BY <1>1 DEF BufInv, AtInv
<1>3. at' \in [Instances -> Int]
  BY <1>1
<1> QED
  BY <1>2, <1>3, SameLayout DEF AtInv

LEMMA BufInvStarts ==
    ASSUME NEW k \in {"cache", "tlb", "mem-bw", "payload"}, NEW sys \in Seq(Entries),
           NEW s \in Nat, NEW threads \in Nat \ {0}, NEW b \in Nat,
           k = "payload" => s > 0, BufFrom(k, sys, s, threads, b)
    PROVE  BufInv
<1>1. CachesInv
  BY CachesRead DEF BufFrom
<1>2. FixedInv
  BY <1>1 DEF BufFrom, FixedInv
<1>3. run # "run"
  BY DEF BufFrom
<1>4. PtrInv
  <2>1. ptr = [i \in Instances |-> 0]
    BY DEF BufFrom
  <2>2. ~ NoSlice /\ kind = "mem-bw" => SliceLen > 0
    BY <1>2, Lengths DEF NoSlice
  <2> QED
    BY <2>1, <2>2 DEF PtrInv
<1>5. AtInv
  <2>1. at = [i \in Instances |-> Untouched] /\ Untouched \in Int
    BY DEF BufFrom, Untouched
  <2> QED
    BY <2>1 DEF AtInv, Inside, InSlice
<1> QED
  BY <1>2, <1>3, <1>4, <1>5 DEF BufInv

LEMMA BufInvSteps == BufInv /\ [BufNext]_bufVars => BufInv'
<1> SUFFICES ASSUME BufInv, [BufNext]_bufVars PROVE BufInv'
  OBVIOUS
<1>1. UNCHANGED fixed
  BY DEF BufNext, bufVars, fixed, GiveUp, MapBuffer, Kernel, CacheKernel, TlbKernel,
         MemBwKernel, Payload
<1>2. FixedInv /\ FixedInv'
  BY <1>1, SameLayout DEF BufInv
<1>3. run' = "run" => ~ Divides'
  <2>1. run' = "run" => run = "run" \/ ~ Divides
    BY DEF BufNext, bufVars, GiveUp, MapBuffer, Kernel, CacheKernel, TlbKernel,
           MemBwKernel, Payload
  <2> QED
    BY <1>1, <2>1, SameLayout DEF BufInv
<1>4. ASSUME UNCHANGED ptr PROVE PtrInv'
  BY <1>1, <1>4, SameLayout DEF BufInv, PtrInv, fixed
<1>5. ASSUME UNCHANGED <<ptr, at>> PROVE BufInv'
  <2>1. AtInv'
    BY <1>1, <1>5, SameLayout DEF BufInv, AtInv
  <2> QED
    BY <1>2, <1>3, <1>4, <1>5, <2>1 DEF BufInv
<1>6. ASSUME NEW i \in Instances, CacheKernel(i) PROVE BufInv'
  <2>1. PICK draw \in 0 .. size - 1 : Touch(i, Aligned + draw)
    BY <1>6 DEF CacheKernel
  <2>2. kind = "cache" /\ UNCHANGED ptr /\ Align > 0
    BY <1>2, <1>6, Lengths DEF CacheKernel, BufInv, Divides
  <2>3. Inside(Aligned + draw) /\ Aligned + draw \in Int
    BY <1>2, <2>2, CacheAddress
  <2>4. InSlice(i, Aligned + draw)
    BY <2>2 DEF InSlice
  <2>5. AtInv'
    BY <1>1, <2>1, <2>3, <2>4, TouchKeeps
  <2> QED
    BY <1>2, <1>3, <1>4, <2>2, <2>5 DEF BufInv
<1>7. ASSUME NEW i \in Instances, TlbKernel(i) PROVE BufInv'
  <2>1. PICK draw \in PageDraws : Touch(i, Aligned + PageOf(draw) * Page)
    BY <1>7 DEF TlbKernel
  <2>2. kind = "tlb" /\ UNCHANGED ptr
    BY <1>7 DEF TlbKernel
  <2>3. Inside(Aligned + PageOf(draw) * Page) /\ Aligned + PageOf(draw) * Page \in Int
    BY <1>2, <2>2, TlbAddress
  <2>4. InSlice(i, Aligned + PageOf(draw) * Page)
    BY <2>2 DEF InSlice
  <2>5. AtInv'
    BY <1>1, <2>1, <2>3, <2>4, TouchKeeps
  <2> QED
    BY <1>2, <1>3, <1>4, <2>2, <2>5 DEF BufInv
<1>8. ASSUME NEW i \in Instances, MemBwKernel(i) PROVE BufInv'
  <2>1. /\ Touch(i, Aligned + Elem * (Slice(i) + ptr[i])) /\ kind = "mem-bw"
        /\ ptr' = [ptr EXCEPT ![i] = After(@)]
    BY <1>8 DEF MemBwKernel
  <2>2. /\ ptr \in [Instances -> Nat]
        /\ ~ NoSlice => \A j \in Instances : ptr[j] < SliceLen
    BY <2>1 DEF BufInv, PtrInv
  <2> DEFINE a == Aligned + Elem * (Slice(i) + ptr[i])
  <2>3. Inside(a) /\ InSlice(i, a) /\ a \in Int
    BY <1>2, <2>1, <2>2, SliceAddress
  <2> HIDE DEF a
  <2>4. AtInv'
    BY <1>1, <2>1, <2>3, TouchKeeps DEF a
  <2>5. After(ptr[i]) \in Nat /\ (~ NoSlice => After(ptr[i]) < SliceLen)
    <3>1. SliceLen \in Nat /\ ptr[i] \in Nat
      BY <1>2, <2>2, Lengths
    <3>2. ~ NoSlice => SliceLen > 0
      BY <2>1, <3>1 DEF NoSlice
    <3> QED
      BY <3>1, <3>2 DEF After
  <2>6. ptr' \in [Instances -> Nat] /\ (~ NoSlice => \A j \in Instances : ptr'[j] < SliceLen)
    BY <2>1, <2>2, <2>5
  <2>7. PtrInv'
    BY <1>1, <2>6, SameLayout DEF PtrInv
  <2> QED
    BY <1>2, <1>3, <2>4, <2>7 DEF BufInv
<1>9. ASSUME NEW i \in Instances, Payload(i) PROVE BufInv'
  <2>1. PICK off \in FillOffsets(size) \cup ChecksumOffsets(size) \cup 0 .. InformSize - 1 :
          Touch(i, block + off)
    BY <1>9 DEF Payload
  <2>2. kind = "payload" /\ UNCHANGED ptr
    BY <1>9 DEF Payload
  <2>3. Inside(block + off) /\ block + off \in Int
    BY <1>2, <2>2, PayloadAddress
  <2>4. InSlice(i, block + off)
    BY <2>2 DEF InSlice
  <2>5. AtInv'
    BY <1>1, <2>1, <2>3, <2>4, TouchKeeps
  <2> QED
    BY <1>2, <1>3, <1>4, <2>2, <2>5 DEF BufInv
<1>10. GiveUp \/ MapBuffer \/ UNCHANGED bufVars => UNCHANGED <<ptr, at>>
  BY DEF GiveUp, MapBuffer, bufVars
<1> QED
  BY <1>5, <1>6, <1>7, <1>8, <1>9, <1>10 DEF BufNext, Kernel

LEMMA InsideMeansInside == BufInv => AccessesInside
<1> SUFFICES ASSUME BufInv, NEW i \in Instances, at[i] # Untouched, ~ MappingWrapped,
                    ~ PageWrapped(i), ~ NoSlice, ~ ShortPayload(i)
             PROVE  at[i] \in block .. block + Mapped - 1
  BY DEF AccessesInside
<1>1. Inside(at[i])
  BY DEF BufInv, AtInv
<1> QED
  BY <1>1 DEF Inside, PageWrapped, ShortPayload

LEMMA SlicesDoNotMeet == BufInv => OwnSlice
<1> SUFFICES ASSUME BufInv, NEW i \in Instances, NEW j \in Instances, kind = "mem-bw",
                    ~ NoSlice, i < j, at[i] # Untouched, at[j] # Untouched
             PROVE  /\ at[i] < Aligned + Elem * Slice(j)
                    /\ Aligned + Elem * Slice(j) <= at[j]
  BY DEF OwnSlice
<1>1. /\ at[i] < Aligned + Elem * Slice(i + 1) /\ at[i] \in Int
      /\ Aligned + Elem * Slice(j) <= at[j]
  BY DEF BufInv, AtInv, InSlice
<1>2. /\ i \in Nat /\ j \in Nat /\ i + 1 <= j
      /\ SliceLen \in Nat /\ Elem \in Nat /\ Aligned \in Nat
  <2>1. FixedInv /\ Align = Page
    BY DEF BufInv, Align
  <2> QED
    BY <2>1, Lengths DEF Instances, FixedInv
<1>3. Slice(i + 1) <= Slice(j) /\ Slice(i + 1) \in Nat /\ Slice(j) \in Nat
  BY <1>2 DEF Slice
<1>4. Elem * Slice(i + 1) <= Elem * Slice(j)
  <2> DEFINE s == Slice(i + 1)
             t == Slice(j)
  <2> HIDE DEF s, t
  <2>1. s \in Nat /\ t \in Nat /\ s <= t
    BY <1>3 DEF s, t
  <2>2. Elem * s <= Elem * t
    BY <1>2, <2>1
  <2> QED
    BY <2>2 DEF s, t
<1> QED
  BY <1>1, <1>2, <1>3, <1>4

LEMMA BuffersInvariant == Spec => []BufInv
<1>1. Init => BufInv
  <2> SUFFICES ASSUME Init PROVE BufInv
    OBVIOUS
  <2>1. CASE BufInit
    <3>1. PICK k \in {"cache", "tlb", "mem-bw", "payload"}, sys \in Sysfs, s \in Sizes,
               threads \in Counts, b \in Blocks :
            (k = "payload" => s > 0) /\ BufFrom(k, sys, s, threads, b)
      BY <2>1 DEF BufInit
    <3>2. /\ sys \in Seq(Entries) /\ s \in Nat /\ threads \in Nat \ {0} /\ b \in Nat
      BY BufferAssumption DEF Entries
    <3> QED
      BY <3>1, <3>2, BufInvStarts
  <2>2. CASE BufFrom("tlb", << >>, 0, 1, 0)
    <3>1. << >> \in Seq(Entries)
      OBVIOUS
    <3>2. 0 \in Nat /\ 1 \in Nat \ {0}
      OBVIOUS
    <3>3. "tlb" \in {"cache", "tlb", "mem-bw", "payload"} /\ "tlb" # "payload"
      OBVIOUS
    <3>4. BufFrom("tlb", << >>, 0, 1, 0)
      BY <2>2
    <3> QED
      BY <3>1, <3>2, <3>3, <3>4, BufInvStarts, Zenon
  <2> QED
    BY <2>1, <2>2 DEF Init
<1>2. BufInv /\ [Next]_vars => BufInv'
  <2> SUFFICES [Next]_vars => [BufNext]_bufVars
    BY BufInvSteps
  <2> QED
    BY DEF Next, vars, bufVars
<1> QED
  BY <1>1, <1>2, PTL DEF Spec

(* cache, tlb, mem-bw and the payload of udp-client: no access is outside  *)
(* the memory an instance has, but for the four ways that are named, for   *)
(* every size, page, line and address that mmap may return.                *)
THEOREM AllAccessesInside == Spec => []AccessesInside
  BY BuffersInvariant, InsideMeansInside, PTL

(* mem-bw: no two instances ever write one element of their common array,  *)
(* however many there are and whatever the size of the third-level cache.  *)
THEOREM EverySliceOwned == Spec => []OwnSlice
  BY BuffersInvariant, SlicesDoNotMeet, PTL
=============================================================================
