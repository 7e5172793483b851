--------------------------- MODULE ProgramProofs ---------------------------
(***************************************************************************)
(* Proofs about the command line and about the whole of main, for every    *)
(* set of options and a command line of any length: what parse_opts stores *)
(* fits its fields, a supported line is understood as Usage has it, and    *)
(* the launcher, started on whatever parse_opts left, keeps what           *)
(* LauncherProofs proves of it.                                            *)
(***************************************************************************)
EXTENDS Program, Usage, FiniteSetTheorems, WellFoundedInduction, TLAPS

-----------------------------------------------------------------------------
\* What parse_opts stores fits its field, option by option.

LEMMA WholeType == \A v \in Int : Whole(v) \in [lo : Int, hi : Int]
BY CommandLineAssumption DEF Whole

LEMMA AddressType == AnyAddress \in Address
<1>1. "0" \in Ips
  BY DEF Ips
<1> QED
  BY <1>1 DEF AnyAddress, Address

LEMMA NewTaskType ==
  ASSUME NEW name \in Stressors
  PROVE  /\ NewTask(name) \in Task
         /\ CheckTask(name) \in Task
<1>1. ASSUME NEW word \in [lo : Int, hi : Int]
      PROVE  [Blank(name) EXCEPT !.word = word] \in Task
  <2> DEFINE Periods == 0..Half - 1
             Threads == 1..Cpus
  <2>1. 1 \in Threads /\ 100000 \in Periods
    BY CommandLineAssumption
  <2>2. {} \in SUBSET (Flags \cup {"check", "limited"})
    OBVIOUS
  <2> HIDE DEF Periods, Threads
  <2>3. [Blank(name) EXCEPT !.word = word] =
          [name |-> name, threads |-> 1, strength |-> 100, rounds |-> 0, time |-> 0, flags |-> {},
           period |-> 100000, word |-> word, netaddr |-> AnyAddress, to_addr |-> AnyAddress]
    BY DEF Blank
  <2> QED
    BY <1>1, <2>1, <2>2, <2>3, AddressType DEF Task, Threads, Periods
<1>2. DefaultWord(name) \in [lo : Int, hi : Int]
  <2>1. name \in Caches => CacheSize[LevelOf[name]] \in Int
    BY CommandLineAssumption DEF Caches, LevelOf
  <2>2. 8 * 1024 * Mega \in Int /\ 1024 * Mega \in Int
    BY CommandLineAssumption
  <2> QED
    BY <2>1, <2>2, WholeType DEF DefaultWord
<1>3. Whole(CacheSize[1]) \in [lo : Int, hi : Int]
  BY CommandLineAssumption, WholeType
<1> QED
  BY <1>1, <1>2, <1>3 DEF NewTask, CheckTask

LEMMA LimitType ==
  ASSUME NEW task \in Task
  PROVE  Limit(task) \in Task
BY CommandLineAssumption DEF Limit, Task

LEMMA ReadType ==
  ASSUME TypeOK, NEW o \in Options, Read(o)
  PROVE  line' \in Seq(Options)
BY DEF TypeOK, Read

\* An assignment through pargs keeps the tasks what they are.
LEMMA PutType ==
  ASSUME TypeOK, NEW o \in Options, NEW args, target # 0 => args \in Task, Put(o, args)
  PROVE  TypeOK'
<1>1. tasks' \in Seq(Task) /\ Len(tasks') = Len(tasks)
  BY DEF Put, TypeOK
<1> QED
  BY <1>1, ReadType DEF Put, TypeOK

LEMMA ArgsType ==
  ASSUME TypeOK, target # 0
  PROVE  Args \in Task
BY DEF TypeOK, Args

\* The fields of a task that an option may assign.
LEMMA FieldType ==
  ASSUME NEW a \in Task
  PROVE  /\ \A v \in Int : [a EXCEPT !.rounds = v, !.flags = @ \cup {"limited"}] \in Task
         /\ \A v \in 1..Cpus : [a EXCEPT !.threads = v] \in Task
         /\ \A v \in Nat : [a EXCEPT !.time = v] \in Task
         /\ \A v \in 1..100 : [a EXCEPT !.strength = v] \in Task
         /\ \A v \in [lo : Int, hi : Int] : [a EXCEPT !.word = v] \in Task
         /\ \A v \in Int : [a EXCEPT !.word.lo = v] \in Task /\ [a EXCEPT !.word.hi = v] \in Task
         /\ \A v \in Address :
              [a EXCEPT !.netaddr = v] \in Task /\ [a EXCEPT !.to_addr = v] \in Task
         /\ \A v \in 0..Half - 1 : [a EXCEPT !.period = v] \in Task
<1> USE DEF Task
<1>1. \A v \in Int : [a EXCEPT !.rounds = v, !.flags = @ \cup {"limited"}] \in Task
  OBVIOUS
<1>2. /\ \A v \in 1..Cpus : [a EXCEPT !.threads = v] \in Task
      /\ \A v \in Nat : [a EXCEPT !.time = v] \in Task
      /\ \A v \in 1..100 : [a EXCEPT !.strength = v] \in Task
  OBVIOUS
<1>3. \A v \in [lo : Int, hi : Int] : [a EXCEPT !.word = v] \in Task
  OBVIOUS
<1>4. \A v \in Int : [a EXCEPT !.word.lo = v] \in Task /\ [a EXCEPT !.word.hi = v] \in Task
  OBVIOUS
<1>5. \A v \in Address : [a EXCEPT !.netaddr = v] \in Task /\ [a EXCEPT !.to_addr = v] \in Task
  OBVIOUS
<1>6. \A v \in 0..Half - 1 : [a EXCEPT !.period = v] \in Task
  OBVIOUS
<1> QED
  BY <1>1, <1>2, <1>3, <1>4, <1>5, <1>6

LEMMA HalfFits == \A v \in Int : v % Half \in 0..Half - 1 /\ v % Half \in Int
BY CommandLineAssumption

LEMMA NetAddressType ==
  ASSUME NEW a \in [ip : Ips, port : Int]
  PROVE  NetAddress(a) \in Address
<1> DEFINE Ports == 0..65535
           Cut(p) == p % 65536
<1>1. \A p \in Int : Cut(p) \in Ports
  OBVIOUS
<1>2. NetAddress(a) = [a EXCEPT !.port = Cut(a.port)]
  BY DEF NetAddress
<1>3. Address = [ip : Ips, port : Ports]
  BY DEF Address
<1> HIDE DEF Ports, Cut
<1>4. [a EXCEPT !.port = Cut(a.port)] \in [ip : Ips, port : Ports]
  BY <1>1
<1> QED
  BY <1>2, <1>3, <1>4, Zenon

LEMMA CheckedAreStressors ==
  /\ Len(CheckedNames) \in Nat
  /\ \A k \in 1..Len(CheckedNames) : CheckedNames[k] \in Stressors
BY DEF CheckedNames, Stressors, Caches, Udp

-----------------------------------------------------------------------------
LEMMA InitTypeOK == Init => TypeOK
BY DEF Init, TypeOK

\* The numbers and addresses that Options gives.
LEMMA OptionType ==
  /\ \A name \in {"limited", "ninstance", "time", "strength", "mem-bandwidth", "cache-size",
                  "page-tot", "diskfile-size", "pack-size", "pack-per-sec", "period"} :
       \A o \in Given(name) : o.n \in Int
  /\ \A name \in {"addr", "addr-to"} : \A o \in Given(name) : o.n \in [ip : Ips, port : Int]
  /\ \A name : Given(name) \subseteq Options
BY OptionsAssumption DEF Given

\* The options that assign a field through pargs.
LEMMA AssignmentsType ==
  ASSUME TypeOK,
         \/ Limited \/ Ninstance \/ Time \/ Strength \/ Period \/ RunUnknown \/ Unknown
  PROVE  TypeOK'
<1>1. ASSUME NEW o \in Options, Ignore(o)
      PROVE  TypeOK'
  BY <1>1, ArgsType, PutType DEF Ignore
<1>2. CASE Limited
  <2>1. PICK o \in Given("limited") :
        Put(o, [Args EXCEPT !.rounds = o.n, !.flags = @ \cup {"limited"}])
    BY <1>2 DEF Limited
  <2>2. o.n \in Int /\ o \in Options
    BY OptionType
  <2>3. target # 0 => [Args EXCEPT !.rounds = o.n, !.flags = @ \cup {"limited"}] \in Task
    BY <2>2, ArgsType, FieldType
  <2> QED
    BY <2>1, <2>2, <2>3, PutType
<1>3. CASE Ninstance
  <2>1. PICK o \in Given("ninstance") : Put(o, [Args EXCEPT !.threads = Clamp(o.n, 1, Cpus)])
    BY <1>3 DEF Ninstance
  <2>2. o.n \in Int /\ o \in Options
    BY OptionType
  <2>3. Clamp(o.n, 1, Cpus) \in 1..Cpus
    BY <2>2, CommandLineAssumption DEF Clamp
  <2>4. target # 0 => [Args EXCEPT !.threads = Clamp(o.n, 1, Cpus)] \in Task
    BY <2>3, ArgsType, FieldType
  <2> QED
    BY <2>1, <2>2, <2>4, PutType
<1>4. CASE Time
  <2>1. PICK o \in Given("time") : Put(o, [Args EXCEPT !.time = IF o.n <= 0 THEN 0 ELSE o.n])
    BY <1>4 DEF Time
  <2>2. o.n \in Int /\ o \in Options
    BY OptionType
  <2>3. (IF o.n <= 0 THEN 0 ELSE o.n) \in Nat
    BY <2>2
  <2>4. target # 0 => [Args EXCEPT !.time = IF o.n <= 0 THEN 0 ELSE o.n] \in Task
    BY <2>3, ArgsType, FieldType
  <2> QED
    BY <2>1, <2>2, <2>4, PutType
<1>5. CASE Strength
  <2>1. PICK o \in Given("strength") :
          Ignore(o) \/ Put(o, [Args EXCEPT !.strength = Clamp(o.n, 1, 100)])
    BY <1>5 DEF Strength
  <2>2. o.n \in Int /\ o \in Options
    BY OptionType
  <2>3. Clamp(o.n, 1, 100) \in 1..100
    BY <2>2 DEF Clamp
  <2>4. target # 0 => [Args EXCEPT !.strength = Clamp(o.n, 1, 100)] \in Task
    BY <2>3, ArgsType, FieldType
  <2> QED
    BY <1>1, <2>1, <2>2, <2>4, PutType
<1>6. CASE Period
  <2>1. PICK o \in Given("period") : Put(o, [Args EXCEPT !.period = o.n % Half])
    BY <1>6 DEF Period
  <2>2. o.n \in Int /\ o \in Options
    BY OptionType
  <2>3. o.n % Half \in 0..Half - 1
    BY <2>2, HalfFits
  <2>4. target # 0 => [Args EXCEPT !.period = o.n % Half] \in Task
    BY <2>3, ArgsType, FieldType
  <2> QED
    BY <2>1, <2>2, <2>4, PutType
<1>7. CASE RunUnknown \/ Unknown
  BY <1>1, <1>7, OptionType DEF RunUnknown, Unknown
<1> QED
  BY <1>2, <1>3, <1>4, <1>5, <1>6, <1>7

\* The options that assign the union, and the addresses.
LEMMA SettingsType ==
  ASSUME TypeOK,
         \/ MemBandwidth \/ CacheSizeOption \/ PageTot \/ DiskfileSize \/ PackSize \/ PackPerSec
         \/ Addr \/ AddrTo
  PROVE  TypeOK'
<1>1. ASSUME NEW o \in Options, Ignore(o)
      PROVE  TypeOK'
  BY <1>1, ArgsType, PutType DEF Ignore
<1>2. ASSUME NEW o \in Options, NEW v \in Int, Put(o, [Args EXCEPT !.word = Whole(v)])
      PROVE  TypeOK'
  <2>1. Whole(v) \in [lo : Int, hi : Int]
    BY WholeType
  <2>2. target # 0 => [Args EXCEPT !.word = Whole(v)] \in Task
    BY <2>1, ArgsType, FieldType
  <2> QED
    BY <1>2, <2>2, PutType
<1>3. CASE MemBandwidth
  <2>1. PICK o \in Given("mem-bandwidth") :
          Put(o, [Args EXCEPT !.word = Whole(IF o.n <= 0 THEN 0 ELSE Mega * o.n)])
    BY <1>3 DEF MemBandwidth
  <2>2. o \in Options /\ (IF o.n <= 0 THEN 0 ELSE Mega * o.n) \in Int
    BY OptionType, CommandLineAssumption
  <2> QED
    BY <1>2, <2>1, <2>2
<1>4. CASE CacheSizeOption
  <2>1. PICK o \in Given("cache-size") : Put(o, [Args EXCEPT !.word = Whole(o.n % Half)])
    BY <1>4 DEF CacheSizeOption
  <2>2. o \in Options /\ o.n % Half \in Int
    BY OptionType, HalfFits
  <2> QED
    BY <1>2, <2>1, <2>2
<1>5. CASE PageTot
  <2>1. PICK o \in Given("page-tot") : Put(o, [Args EXCEPT !.word = Whole(Mega * o.n)])
    BY <1>5 DEF PageTot
  <2>2. o \in Options /\ Mega * o.n \in Int
    BY OptionType, CommandLineAssumption
  <2> QED
    BY <1>2, <2>1, <2>2
<1>6. CASE DiskfileSize
  <2>1. PICK o \in Given("diskfile-size") :
          Put(o, [Args EXCEPT !.word = Whole(HundredMegaAtLeast(Mega * o.n))])
    BY <1>6 DEF DiskfileSize
  <2>2. o \in Options /\ HundredMegaAtLeast(Mega * o.n) \in Int
    BY OptionType, CommandLineAssumption DEF HundredMegaAtLeast
  <2> QED
    BY <1>2, <2>1, <2>2
<1>7. CASE PackSize
  <2>1. PICK o \in Given("pack-size") : Ignore(o) \/ Put(o, [Args EXCEPT !.word.hi = o.n])
    BY <1>7 DEF PackSize
  <2>2. o.n \in Int /\ o \in Options
    BY OptionType
  <2>3. target # 0 => [Args EXCEPT !.word.hi = o.n] \in Task
    BY <2>2, ArgsType, FieldType
  <2> QED
    BY <1>1, <2>1, <2>2, <2>3, PutType
<1>8. CASE PackPerSec
  <2>1. PICK o \in Given("pack-per-sec") : Ignore(o) \/ Put(o, [Args EXCEPT !.word.lo = o.n])
    BY <1>8 DEF PackPerSec
  <2>2. o.n \in Int /\ o \in Options
    BY OptionType
  <2>3. target # 0 => [Args EXCEPT !.word.lo = o.n] \in Task
    BY <2>2, ArgsType, FieldType
  <2> QED
    BY <1>1, <2>1, <2>2, <2>3, PutType
<1>9. CASE Addr
  <2>1. PICK o \in Given("addr") :
          Ignore(o) \/ Put(o, [Args EXCEPT !.netaddr = NetAddress(o.n)])
    BY <1>9 DEF Addr
  <2>2. o \in Options /\ NetAddress(o.n) \in Address
    BY OptionType, NetAddressType
  <2>3. target # 0 => [Args EXCEPT !.netaddr = NetAddress(o.n)] \in Task
    BY <2>2, ArgsType, FieldType
  <2> QED
    BY <1>1, <2>1, <2>2, <2>3, PutType
<1>10. CASE AddrTo
  <2>1. PICK o \in Given("addr-to") :
          Ignore(o) \/ Put(o, [Args EXCEPT !.to_addr = NetAddress(o.n)])
    BY <1>10 DEF AddrTo
  <2>2. o \in Options /\ NetAddress(o.n) \in Address
    BY OptionType, NetAddressType
  <2>3. target # 0 => [Args EXCEPT !.to_addr = NetAddress(o.n)] \in Task
    BY <2>2, ArgsType, FieldType
  <2> QED
    BY <1>1, <2>1, <2>2, <2>3, PutType
<1> QED
  BY <1>3, <1>4, <1>5, <1>6, <1>7, <1>8, <1>9, <1>10

LEMMA RunType ==
  ASSUME TypeOK, Run
  PROVE  TypeOK'
<1>1. PICK o \in Given("run") :
        /\ o.name \in Stressors /\ Read(o)
        /\ tasks' = Append(tasks, NewTask(o.name)) /\ target' = Len(tasks')
        /\ UNCHANGED <<flags, phase>>
  BY DEF Run
<1>2. o \in Options /\ NewTask(o.name) \in Task
  BY <1>1, OptionType, NewTaskType
<1>3. tasks' \in Seq(Task) /\ Len(tasks') \in Nat
  BY <1>1, <1>2 DEF TypeOK
<1>4. line' \in Seq(Options)
  BY <1>1, <1>2, ReadType
<1> QED
  BY <1>1, <1>3, <1>4 DEF TypeOK

LEMMA LimitedDefaultType ==
  ASSUME TypeOK, LimitedDefault
  PROVE  TypeOK'
<1> DEFINE new == [Limit(Args) EXCEPT !.flags = @ \cup {"limited"}]
<1>1. PICK o \in Given("limited-default") :
        /\ Read(o)
        /\ IF target = 0
           THEN phase' = "undefined" /\ UNCHANGED tasks
           ELSE /\ tasks' = [tasks EXCEPT ![target] = new]
                /\ UNCHANGED phase
        /\ UNCHANGED <<target, flags>>
  BY DEF LimitedDefault
<1>2. line' \in Seq(Options)
  BY <1>1, OptionType, ReadType
<1>3. CASE target = 0
  BY <1>1, <1>2, <1>3 DEF TypeOK
<1>4. CASE target # 0
  <2>1. new \in Task
    <3>1. Limit(Args) \in Task
      BY <1>4, ArgsType, LimitType
    <3> QED
      BY <3>1 DEF Task
  <2>2. tasks' = [tasks EXCEPT ![target] = new]
    BY <1>1, <1>4
  <2> HIDE DEF new
  <2>3. target \in 1..Len(tasks) /\ tasks \in Seq(Task)
    BY <1>4 DEF TypeOK
  <2>4. tasks' \in Seq(Task) /\ Len(tasks') = Len(tasks)
    BY <2>1, <2>2, <2>3
  <2> QED
    BY <1>1, <1>2, <1>4, <2>4 DEF TypeOK
<1> QED
  BY <1>3, <1>4

LEMMA FlagType ==
  ASSUME TypeOK, Flag
  PROVE  TypeOK'
<1>1. PICK f \in Flags : \E o \in Given(f) :
        Read(o) /\ flags' = flags \cup {f} /\ UNCHANGED <<tasks, target, phase>>
  BY DEF Flag
<1>2. PICK o \in Given(f) : Read(o) /\ flags' = flags \cup {f} /\ UNCHANGED <<tasks, target, phase>>
  BY <1>1
<1> QED
  BY <1>2, OptionType, ReadType DEF TypeOK

LEMMA CheckType ==
  ASSUME TypeOK, Check
  PROVE  TypeOK'
<1> DEFINE n == Len(tasks) + Len(CheckedNames)
           T(k) == IF k <= Len(tasks) THEN tasks[k] ELSE CheckTask(CheckedNames[k - Len(tasks)])
<1>1. PICK o \in Given("check") :
        /\ Read(o)
        /\ flags' = flags \cup {"check", "limited"}
        /\ tasks' = [k \in 1..n |-> Limit(T(k))]
        /\ target' = Len(tasks')
        /\ UNCHANGED phase
  BY DEF Check
<1>2. n \in Nat
  BY CheckedAreStressors DEF TypeOK
<1>3. ASSUME NEW k \in 1..n
      PROVE  T(k) \in Task
  <2>1. CASE k <= Len(tasks)
    BY <2>1 DEF TypeOK
  <2>2. CASE ~(k <= Len(tasks))
    <3>1. k - Len(tasks) \in 1..Len(CheckedNames)
      BY <2>2, CheckedAreStressors DEF TypeOK
    <3> QED
      BY <2>2, <3>1, CheckedAreStressors, NewTaskType
  <2> QED
    BY <2>1, <2>2
<1>4. \A k \in 1..n : Limit(T(k)) \in Task
  BY <1>3, LimitType
<1> HIDE DEF n, T
<1>5. tasks' \in Seq(Task) /\ Len(tasks') = n
  BY <1>1, <1>2, <1>4
<1>6. line' \in Seq(Options)
  BY <1>1, OptionType, ReadType
<1> QED
  BY <1>1, <1>2, <1>5, <1>6 DEF TypeOK

LEMMA EndType ==
  ASSUME TypeOK, End
  PROVE  TypeOK'
<1>1. DOMAIN tasks = 1..Len(tasks) /\ Len(tasks) \in Nat
  BY DEF TypeOK
<1>2. \A t \in Task : [t EXCEPT !.flags = @ \cup flags] \in Task
  BY DEF TypeOK, Task
<1>3. ASSUME NEW k \in DOMAIN tasks
      PROVE  [tasks[k] EXCEPT !.flags = @ \cup flags] \in Task
  <2>1. tasks[k] \in Task
    BY <1>1 DEF TypeOK
  <2> QED
    BY <1>2, <2>1
<1>4. tasks' \in Seq(Task) /\ Len(tasks') = Len(tasks)
  BY <1>1, <1>3 DEF End
<1> QED
  BY <1>4 DEF End, TypeOK

LEMMA NextTypeOK ==
  ASSUME TypeOK, [Next]_vars
  PROVE  TypeOK'
<1>1. CASE UNCHANGED vars
  BY <1>1 DEF vars, TypeOK
<1> QED
  BY <1>1, AssignmentsType, SettingsType, RunType, LimitedDefaultType, FlagType, CheckType, EndType
  DEF Next

\* For every command line, in any order and of any length: what parse_opts
\* stores fits the fields it is cast to, a strength is a percentage, and no task
\* has more instances than there are processors.
THEOREM CommandLineTypeCorrect == Spec => []TypeOK
BY InitTypeOK, NextTypeOK, PTL DEF Spec

-----------------------------------------------------------------------------
\* What a line asks of a task before the global flags are known.

Rank(r) == Cardinality({q \in Runs : q < r})

LimitedFlag(r) == IF Own(r, {"limited", "limited-default"}) = {} THEN {} ELSE {"limited"}
Threads(r) == Clamp(Asked(r, "ninstance", 1), 1, Cpus)
Strengths(r) == Clamp(Asked(r, "strength", 100), 1, 100)
Times(r) == NotBelow(Asked(r, "time", 0), 0)
Periods(r) == Asked(r, "period", 100000) % Half
NetAddrs(r) == NetAddress(Asked(r, "addr", AnyAddress))
ToAddrs(r) == NetAddress(Asked(r, "addr-to", AnyAddress))

Local(r) == [
  name |-> line[r].name, threads |-> Threads(r), strength |-> Strengths(r),
  rounds |-> AskedRounds(r), time |-> Times(r), flags |-> LimitedFlag(r), period |-> Periods(r),
  netaddr |-> NetAddrs(r), to_addr |-> ToAddrs(r), word |-> AskedWord(r)]

\* The k-th task is what the k-th -r and its options ask for.
Understood ==
  /\ phase # "undefined"
  /\ Len(tasks) = Cardinality(Runs)
  /\ target = Len(tasks)
  /\ flags = {f \in Flags : \E i \in DOMAIN line : line[i].opt = f}
  /\ \A k \in DOMAIN tasks : \E r \in Runs :
       Rank(r) = k - 1 /\ tasks[k] = IF phase = "parsed" THEN AskedTask(r) ELSE Local(r)

-----------------------------------------------------------------------------
\* The largest of a set of places on the line.

LEMMA MaxIs ==
  ASSUME NEW S \in SUBSET Int, NEW m \in S, \A y \in S : y <= m
  PROVE  Max(S) = m
<1>1. \A y \in S : m >= y
  OBVIOUS
<1>2. \A x \in S : (\A y \in S : x >= y) => x = m
  OBVIOUS
<1> QED
  BY <1>1, <1>2 DEF Max

LEMMA MaxExists ==
  ASSUME NEW n \in Nat, NEW S \in SUBSET (1..n), S # {}
  PROVE  Max(S) \in S /\ \A y \in S : y <= Max(S)
<1> DEFINE R == OpToRel(<, Nat)
           T == {x \in Nat : n - x \in S}
<1>1. IsWellFoundedOn(R, Nat)
  BY NatLessThanWellFounded
<1>2. T # {} /\ T \subseteq Nat
  <2>1. PICK s : s \in S
    OBVIOUS
  <2>2. n - s \in T
    BY <2>1
  <2> QED
    BY <2>2
<1>3. \A x, y \in Nat : y < x => <<y, x>> \in R
  BY DEF OpToRel
<1> HIDE DEF R
<1>4. PICK x \in T : \A y \in T : ~(<<y, x>> \in R)
  BY <1>1, <1>2, WFMin
<1>5. n - x \in S /\ x \in Nat
  BY <1>4
<1>6. \A s \in S : s <= n - x
  <2> SUFFICES ASSUME NEW s \in S, ~(s <= n - x) PROVE FALSE
    OBVIOUS
  <2>1. s \in 1..n
    OBVIOUS
  <2>2. n - s \in T /\ n - s \in Nat
    BY <2>1
  <2>3. n - s < x
    BY <1>5, <2>1
  <2>4. <<n - s, x>> \in R
    BY <1>3, <1>5, <2>2, <2>3
  <2> QED
    BY <1>4, <2>2, <2>4
<1>7. Max(S) = n - x
  BY <1>5, <1>6, MaxIs
<1> QED
  BY <1>5, <1>6, <1>7

-----------------------------------------------------------------------------
\* One option more on the line.

Named(o) == o.opt = "run" /\ o.name \in Stressors

\* Does o count among the options called names?
Counts(o, names) ==
  /\ o.opt \in names
  /\ o.opt \in {"pack-size", "pack-per-sec"} => o.n > 0
  /\ o.opt \in {"addr", "addr-to"} => o.n # Malformed

Keeps(r, names) ==
  /\ Own(r, names)' = Own(r, names)
  /\ Own(r, names) # {} => line'[Max(Own(r, names))] = line[Max(Own(r, names))]

Gets(r, names, o) ==
  /\ Own(r, names)' # {}
  /\ line'[Max(Own(r, names)')] = o

IsLast(r) == \A q \in Runs : q <= r

LEMMA RunsType ==
  ASSUME TypeOK
  PROVE  /\ Len(line) \in Nat /\ DOMAIN line = 1..Len(line)
         /\ Runs \subseteq 1..Len(line) /\ IsFiniteSet(Runs) /\ Cardinality(Runs) \in Nat
<1>1. Len(line) \in Nat /\ DOMAIN line = 1..Len(line)
  BY DEF TypeOK
<1>2. Runs \subseteq 1..Len(line)
  BY <1>1 DEF Runs
<1>3. IsFiniteSet(Runs)
  <2>1. IsFiniteSet(1..Len(line))
    BY <1>1, FS_Interval
  <2> QED
    BY <1>2, <2>1, FS_Subset
<1> QED
  BY <1>1, <1>2, <1>3, FS_CardinalityType

LEMMA ReadLine ==
  ASSUME TypeOK, NEW o \in Options, Read(o)
  PROVE  /\ DOMAIN line' = 1..Len(line) + 1
         /\ line'[Len(line) + 1] = o
         /\ \A i \in DOMAIN line : line'[i] = line[i]
         /\ Named(o) => Runs' = Runs \cup {Len(line) + 1}
         /\ ~Named(o) => Runs' = Runs
<1>1. /\ DOMAIN line' = 1..Len(line) + 1
      /\ line'[Len(line) + 1] = o
      /\ \A i \in DOMAIN line : line'[i] = line[i]
  BY DEF TypeOK, Read
<1>2. Len(line) \in Nat /\ DOMAIN line = 1..Len(line)
  BY DEF TypeOK
<1>3. \A i : i \in Runs' <=> i \in Runs \/ (i = Len(line) + 1 /\ Named(o))
  BY <1>1, <1>2 DEF Runs, Named
<1> QED
  BY <1>1, <1>3

\* The options of a stressor, after one option more.
LEMMA OwnAfter ==
  ASSUME TypeOK, NEW o \in Options, Read(o), NEW r \in Runs, NEW names
  PROVE  /\ Named(o) \/ ~IsLast(r) \/ ~Counts(o, names) => Keeps(r, names)
         /\ ~Named(o) /\ IsLast(r) /\ Counts(o, names) => Gets(r, names, o)
<1> DEFINE n == Len(line) + 1
<1>1. /\ n \in Nat /\ DOMAIN line = 1..n - 1 /\ DOMAIN line' = 1..n
      /\ line'[n] = o /\ \A i \in DOMAIN line : line'[i] = line[i]
  BY RunsType, ReadLine
<1>2. Runs \subseteq 1..n - 1
  BY RunsType
<1>3. Runs' = Runs \/ Runs' = Runs \cup {n}
  BY ReadLine
<1>4. ASSUME NEW i \in 1..n - 1
      PROVE  i \in Own(r, names)' <=> i \in Own(r, names)
  <2>1. /\ i \in DOMAIN line /\ i \in DOMAIN line' /\ line'[i] = line[i]
        /\ i \in Runs' <=> i \in Runs
    BY <1>1, <1>3
  <2>2. (\A q \in Runs' : q < i => q <= r) <=> (\A q \in Runs : q < i => q <= r)
    <3>1. ~(n < i)
      BY <1>1
    <3> QED
      BY <1>3, <3>1
  <2> HIDE DEF n
  <2> QED
    BY <2>1, <2>2 DEF Own
<1>5. n \notin Own(r, names) /\ Own(r, names) \subseteq 1..n - 1 /\ Own(r, names)' \subseteq 1..n
  BY <1>1 DEF Own
<1>6. n \in Own(r, names)' <=> ~Named(o) /\ IsLast(r) /\ Counts(o, names)
  <2>1. n \in Runs' <=> Named(o)
    BY <1>1, <1>2, ReadLine
  <2>2. n \in Own(r, names)' <=>
          /\ n \in 1..n /\ n \notin Runs' /\ r < n
          /\ (\A q \in Runs' : q < n => q <= r) /\ Counts(o, names)
    BY <1>1 DEF Own, Counts
  <2>3. r < n /\ n \in 1..n
    BY <1>1, <1>2
  <2>4. (\A q \in Runs' : q < n => q <= r) <=> IsLast(r)
    <3>1. \A q \in Runs : q < n
      BY <1>1, <1>2
    <3>2. ~(n < n)
      BY <1>1
    <3> HIDE DEF n
    <3> QED
      BY <1>3, <3>1, <3>2 DEF IsLast
  <2> QED
    BY <2>1, <2>2, <2>3, <2>4
<1>7. CASE n \notin Own(r, names)'
  <2>1. Own(r, names)' = Own(r, names)
    <3>1. \A i : i \in Own(r, names)' => i \in 1..n - 1
      BY <1>1, <1>5, <1>7
    <3> QED
      BY <1>4, <1>5, <3>1
  <2>2. Own(r, names) # {} => Max(Own(r, names)) \in 1..n - 1
    <3>1. n - 1 \in Nat /\ Own(r, names) \in SUBSET (1..n - 1)
      BY <1>5, RunsType
    <3> HIDE DEF n
    <3> QED
      BY <3>1, MaxExists
  <2> QED
    BY <1>1, <1>6, <1>7, <2>1, <2>2 DEF Keeps
<1>8. CASE n \in Own(r, names)'
  <2>1. Max(Own(r, names)') = n
    <3>1. \A y \in Own(r, names)' : y \in Int /\ y <= n
      BY <1>1, <1>5
    <3> QED
      BY <1>8, <3>1, MaxIs
  <2> QED
    BY <1>1, <1>6, <1>8, <2>1 DEF Gets
<1> QED
  BY <1>7, <1>8

LEMMA OwnOfNew ==
  ASSUME TypeOK, NEW o \in Options, Read(o), NEW names
  PROVE  \A r : r = Len(line) + 1 => Own(r, names)' = {}
BY RunsType, ReadLine DEF Own

-----------------------------------------------------------------------------
\* The place of a stressor among those of the line.

LEMMA RankType ==
  ASSUME TypeOK
  PROVE  \A r \in Runs : Rank(r) \in Nat
BY RunsType, FS_Subset, FS_CardinalityType DEF Rank

LEMMA RankUnique ==
  ASSUME TypeOK, NEW a \in Runs, NEW b \in Runs, a < b
  PROVE  Rank(a) # Rank(b)
<1> DEFINE A == {q \in Runs : q < a}
           B == {q \in Runs : q < b}
<1>1. a \in Int /\ b \in Int /\ Runs \subseteq Int
  BY RunsType
<1>2. A \in SUBSET B /\ A # B
  <2>1. \A q \in Runs : q < a => q < b
    BY <1>1
  <2>2. a \in B /\ a \notin A
    BY <1>1
  <2> QED
    BY <2>1, <2>2
<1>3. IsFiniteSet(B)
  BY RunsType, FS_Subset
<1> QED
  BY <1>2, <1>3, FS_Subset DEF Rank

LEMMA RankOfLast ==
  ASSUME TypeOK, NEW r \in Runs
  PROVE  Rank(r) = Cardinality(Runs) - 1 <=> IsLast(r)
<1> DEFINE A == {q \in Runs : q < r}
<1>1. r \in Int /\ Runs \subseteq Int
  BY RunsType
<1>2. IsFiniteSet(Runs \ {r}) /\ Cardinality(Runs \ {r}) = Cardinality(Runs) - 1
  BY RunsType, FS_RemoveElement
<1>3. A \in SUBSET (Runs \ {r})
  BY <1>1
<1>4. Cardinality(A) = Cardinality(Runs \ {r}) <=> A = Runs \ {r}
  BY <1>2, <1>3, FS_Subset
<1>5. A = Runs \ {r} <=> IsLast(r)
  <2>1. \A q \in Runs : q <= r <=> q < r \/ q = r
    BY <1>1
  <2> QED
    BY <1>3, <2>1 DEF IsLast
<1> QED
  BY <1>2, <1>4, <1>5 DEF Rank

LEMMA RankAfter ==
  ASSUME TypeOK, NEW o \in Options, Read(o), NEW r \in Runs
  PROVE  Rank(r)' = Rank(r)
<1>1. {q \in Runs' : q < r} = {q \in Runs : q < r}
  BY RunsType, ReadLine
<1> QED
  BY <1>1 DEF Rank

-----------------------------------------------------------------------------
\* A supported line is one without its last option too, and that option belongs to
\* the last stressor before it.

LEMMA SupportedBefore ==
  ASSUME TypeOK, NEW o \in Options, Read(o), Supported'
  PROVE  /\ Supported
         /\ o.opt \notin DiskSize
         /\ \/ o.opt \in Flags
            \/ Named(o)
            \/ \E r \in Runs : IsLast(r) /\ Suits(o, line[r].name)
<1> DEFINE Before(i) == {r \in Runs : r < i}
<1>n. PICK n \in Nat : n = Len(line) + 1
  BY RunsType
<1>1. /\ n \in 1..n /\ DOMAIN line = 1..n - 1 /\ DOMAIN line' = 1..n
      /\ line'[n] = o /\ \A i \in DOMAIN line : line'[i] = line[i]
      /\ Runs \subseteq 1..n - 1
  BY <1>n, RunsType, ReadLine
<1>2. Runs' = Runs \/ Runs' = Runs \cup {n}
  BY <1>n, ReadLine
<1>3. \A i \in 1..n : {r \in Runs' : r < i} = Before(i)
  <2>1. \A i \in 1..n : ~(n < i)
    BY <1>1
  <2> QED
    BY <1>2, <2>1
<1>4. ASSUME NEW i \in 1..n, Before(i) # {}
      PROVE  /\ RunOf(i)' = RunOf(i)
             /\ RunOf(i) \in Before(i)
             /\ line'[RunOf(i)'] = line[RunOf(i)]
  <2>1. RunOf(i)' = RunOf(i)
    BY <1>3 DEF RunOf
  <2>2. Before(i) \in SUBSET (1..n - 1) /\ n - 1 \in Nat
    <3>1. Before(i) \subseteq Runs /\ n - 1 \in Nat
      BY <1>n, RunsType
    <3> QED
      BY <1>1, <3>1
  <2>3. RunOf(i) \in Before(i)
    BY <1>4, <2>2, MaxExists DEF RunOf
  <2> QED
    BY <1>1, <2>1, <2>2, <2>3
<1>5. \A i \in 1..n : Placed(i)' /\ line'[i].opt \notin DiskSize
  BY <1>1 DEF Supported, Proper, SizesDisk
<1>6. Supported
  <2> SUFFICES ASSUME NEW i \in 1..n - 1 PROVE Placed(i) /\ line[i].opt \notin DiskSize
    BY <1>1 DEF Supported, Proper, SizesDisk
  <2>1. i \in 1..n /\ line'[i] = line[i] /\ i # n
    BY <1>1
  <2>2. Placed(i)' /\ line[i].opt \notin DiskSize
    BY <1>5, <2>1
  <2>4. i \in Runs' <=> i \in Runs
    BY <1>2, <2>1
  <2>5. ASSUME NEW r \in Runs', r < i, Suits(line'[i], line'[RunOf(i)'].name)
        PROVE  Placed(i)
    <3>1. r \in Before(i)
      BY <1>3, <2>1, <2>5
    <3>2. line'[RunOf(i)'] = line[RunOf(i)]
      BY <1>4, <2>1, <3>1
    <3> QED
      BY <2>1, <2>5, <3>1, <3>2 DEF Placed
  <2> QED
    BY <2>1, <2>2, <2>4, <2>5 DEF Placed
<1>7. o.opt \notin DiskSize
  BY <1>1, <1>5
<1>8. ASSUME o.opt \notin Flags, ~Named(o)
      PROVE  \E r \in Runs : IsLast(r) /\ Suits(o, line[r].name)
  <2>1. n \in 1..n /\ Placed(n)'
    BY <1>1, <1>5
  <2>2. n \notin Runs'
    BY <1>n, <1>1, <1>8, ReadLine
  <2>3. \E r \in Runs' : r < n /\ Suits(o, line'[RunOf(n)'].name)
    BY <1>1, <1>8, <2>1, <2>2 DEF Placed
  <2>4. Before(n) # {} /\ Suits(o, line[RunOf(n)].name) /\ RunOf(n) \in Before(n)
    BY <1>3, <1>4, <2>1, <2>3
  <2>5. Before(n) = Runs
    <3>1. \A r \in Runs : r < n
      BY <1>1
    <3> QED
      BY <3>1
  <2>6. Runs \in SUBSET (1..n - 1) /\ n - 1 \in Nat
    BY <1>n, <1>1, RunsType
  <2>7. IsLast(Max(Runs))
    BY <2>4, <2>5, <2>6, MaxExists DEF IsLast
  <2> QED
    BY <2>4, <2>5, <2>7 DEF RunOf
<1> QED
  BY <1>6, <1>7, <1>8

-----------------------------------------------------------------------------
\* What a task is asked for, after one option more.

Limits == {"limited", "limited-default"}
SizeKinds == {{"mem-bandwidth"}, {"cache-size"}, {"page-tot"}, DiskSize,
              {"pack-size"}, {"pack-per-sec"}}
Kinds == SizeKinds \cup
  {Limits, {"ninstance"}, {"strength"}, {"time"}, {"period"}, {"addr"}, {"addr-to"}}

LEMMA AskedKept ==
  ASSUME NEW r, NEW name, Keeps(r, {name})
  PROVE  \A d : Asked(r, name, d)' = Asked(r, name, d)
BY DEF Keeps, Asked

LEMMA AskedGot ==
  ASSUME NEW r, NEW name, NEW o, Gets(r, {name}, o)
  PROVE  \A d : Asked(r, name, d)' = o.n
BY DEF Gets, Asked

LEMMA WordKept ==
  ASSUME NEW r, line'[r] = line[r], \A names \in SizeKinds : Keeps(r, names)
  PROVE  AskedWord(r)' = AskedWord(r)
BY DEF SizeKinds, Keeps, AskedWord, AskedCache, Asked

LEMMA LimitsKept ==
  ASSUME NEW r, Keeps(r, Limits)
  PROVE  AskedRounds(r)' = AskedRounds(r) /\ LimitedFlag(r)' = LimitedFlag(r)
BY DEF Limits, Keeps, AskedRounds, LimitedFlag

LEMMA FieldsKept ==
  ASSUME NEW r
  PROVE  /\ Keeps(r, {"ninstance"}) => Threads(r)' = Threads(r)
         /\ Keeps(r, {"strength"}) => Strengths(r)' = Strengths(r)
         /\ Keeps(r, {"time"}) => Times(r)' = Times(r)
         /\ Keeps(r, {"period"}) => Periods(r)' = Periods(r)
         /\ Keeps(r, {"addr"}) => NetAddrs(r)' = NetAddrs(r)
         /\ Keeps(r, {"addr-to"}) => ToAddrs(r)' = ToAddrs(r)
<1>1. Keeps(r, {"ninstance"}) => Threads(r)' = Threads(r)
  BY AskedKept DEF Threads
<1>2. Keeps(r, {"strength"}) => Strengths(r)' = Strengths(r)
  BY AskedKept DEF Strengths
<1>3. Keeps(r, {"time"}) => Times(r)' = Times(r)
  BY AskedKept DEF Times
<1>4. Keeps(r, {"period"}) => Periods(r)' = Periods(r)
  BY AskedKept DEF Periods
<1>5. Keeps(r, {"addr"}) => NetAddrs(r)' = NetAddrs(r)
  BY AskedKept DEF NetAddrs
<1>6. Keeps(r, {"addr-to"}) => ToAddrs(r)' = ToAddrs(r)
  BY AskedKept DEF ToAddrs
<1> QED
  BY <1>1, <1>2, <1>3, <1>4, <1>5, <1>6

\* Only the field that the option is about changes.
LEMMA LocalChanged ==
  ASSUME NEW r, line'[r] = line[r]
  PROVE  /\ (\A names \in Kinds : Keeps(r, names)) => Local(r)' = Local(r)
         /\ (\A names \in Kinds \ {{"ninstance"}} : Keeps(r, names)) =>
              Local(r)' = [Local(r) EXCEPT !.threads = Threads(r)']
         /\ (\A names \in Kinds \ {{"strength"}} : Keeps(r, names)) =>
              Local(r)' = [Local(r) EXCEPT !.strength = Strengths(r)']
         /\ (\A names \in Kinds \ {{"time"}} : Keeps(r, names)) =>
              Local(r)' = [Local(r) EXCEPT !.time = Times(r)']
         /\ (\A names \in Kinds \ {{"period"}} : Keeps(r, names)) =>
              Local(r)' = [Local(r) EXCEPT !.period = Periods(r)']
         /\ (\A names \in Kinds \ {{"addr"}} : Keeps(r, names)) =>
              Local(r)' = [Local(r) EXCEPT !.netaddr = NetAddrs(r)']
         /\ (\A names \in Kinds \ {{"addr-to"}} : Keeps(r, names)) =>
              Local(r)' = [Local(r) EXCEPT !.to_addr = ToAddrs(r)']
         /\ (\A names \in Kinds \ {Limits} : Keeps(r, names)) =>
              Local(r)' = [Local(r) EXCEPT !.rounds = AskedRounds(r)', !.flags = LimitedFlag(r)']
         /\ (\A names \in Kinds \ SizeKinds : Keeps(r, names)) =>
              Local(r)' = [Local(r) EXCEPT !.word = AskedWord(r)']
<1> DEFINE Rest(x) ==
             /\ {"ninstance"} \notin x => Threads(r)' = Threads(r)
             /\ {"strength"} \notin x => Strengths(r)' = Strengths(r)
             /\ {"time"} \notin x => Times(r)' = Times(r)
             /\ {"period"} \notin x => Periods(r)' = Periods(r)
             /\ {"addr"} \notin x => NetAddrs(r)' = NetAddrs(r)
             /\ {"addr-to"} \notin x => ToAddrs(r)' = ToAddrs(r)
             /\ Limits \notin x =>
                  AskedRounds(r)' = AskedRounds(r) /\ LimitedFlag(r)' = LimitedFlag(r)
             /\ x \cap SizeKinds = {} => AskedWord(r)' = AskedWord(r)
<1>1. Local(r)' = [name |-> line[r].name, threads |-> Threads(r)', strength |-> Strengths(r)',
                   rounds |-> AskedRounds(r)', time |-> Times(r)', flags |-> LimitedFlag(r)',
                   period |-> Periods(r)', netaddr |-> NetAddrs(r)', to_addr |-> ToAddrs(r)',
                   word |-> AskedWord(r)']
  BY DEF Local
<1>2. ASSUME NEW x, \A names \in Kinds \ x : Keeps(r, names)
      PROVE  Rest(x)
  <2>1. x \cap SizeKinds = {} => AskedWord(r)' = AskedWord(r)
    BY <1>2, WordKept DEF Kinds
  <2>2. Limits \notin x => AskedRounds(r)' = AskedRounds(r) /\ LimitedFlag(r)' = LimitedFlag(r)
    BY <1>2, LimitsKept DEF Kinds
  <2>3. \A f \in {"ninstance", "strength", "time", "period", "addr", "addr-to"} :
          {f} \notin x => Keeps(r, {f})
    BY <1>2 DEF Kinds
  <2> QED
    BY <2>1, <2>2, <2>3, FieldsKept
<1>3. /\ \A f, g \in {"ninstance", "strength", "time", "period", "addr", "addr-to"} :
           /\ {f} \notin {Limits} /\ {f} \notin SizeKinds
           /\ {f} \in {{g}} <=> f = g
           /\ {{f}} \cap SizeKinds = {} /\ Limits \notin {{f}}
      /\ Limits \notin SizeKinds /\ {Limits} \cap SizeKinds = {}
  BY DEF Limits, SizeKinds, DiskSize
<1> HIDE DEF Rest
<1>4. (\A names \in Kinds : Keeps(r, names)) => Local(r)' = Local(r)
  <2>1. (\A names \in Kinds : Keeps(r, names)) => Rest({})
    BY <1>2
  <2> QED
    BY <1>1, <2>1 DEF Local, Rest
<1>5. ASSUME \A names \in Kinds \ {{"ninstance"}} : Keeps(r, names)
      PROVE  Local(r)' = [Local(r) EXCEPT !.threads = Threads(r)']
  <2>1. Rest({{"ninstance"}})
    BY <1>2, <1>5
  <2> QED
    BY <1>1, <1>3, <2>1 DEF Local, Rest
<1>6. ASSUME \A names \in Kinds \ {{"strength"}} : Keeps(r, names)
      PROVE  Local(r)' = [Local(r) EXCEPT !.strength = Strengths(r)']
  <2>1. Rest({{"strength"}})
    BY <1>2, <1>6
  <2> QED
    BY <1>1, <1>3, <2>1 DEF Local, Rest
<1>7. ASSUME \A names \in Kinds \ {{"time"}} : Keeps(r, names)
      PROVE  Local(r)' = [Local(r) EXCEPT !.time = Times(r)']
  <2>1. Rest({{"time"}})
    BY <1>2, <1>7
  <2> QED
    BY <1>1, <1>3, <2>1 DEF Local, Rest
<1>8. ASSUME \A names \in Kinds \ {{"period"}} : Keeps(r, names)
      PROVE  Local(r)' = [Local(r) EXCEPT !.period = Periods(r)']
  <2>1. Rest({{"period"}})
    BY <1>2, <1>8
  <2> QED
    BY <1>1, <1>3, <2>1 DEF Local, Rest
<1>9. ASSUME \A names \in Kinds \ {{"addr"}} : Keeps(r, names)
      PROVE  Local(r)' = [Local(r) EXCEPT !.netaddr = NetAddrs(r)']
  <2>1. Rest({{"addr"}})
    BY <1>2, <1>9
  <2> QED
    BY <1>1, <1>3, <2>1 DEF Local, Rest
<1>10. ASSUME \A names \in Kinds \ {{"addr-to"}} : Keeps(r, names)
      PROVE  Local(r)' = [Local(r) EXCEPT !.to_addr = ToAddrs(r)']
  <2>1. Rest({{"addr-to"}})
    BY <1>2, <1>10
  <2> QED
    BY <1>1, <1>3, <2>1 DEF Local, Rest
<1>11. ASSUME \A names \in Kinds \ {Limits} : Keeps(r, names)
      PROVE  Local(r)' = [Local(r) EXCEPT !.rounds = AskedRounds(r)', !.flags = LimitedFlag(r)']
  <2>1. Rest({Limits})
    BY <1>2, <1>11
  <2>2. /\ Threads(r)' = Threads(r) /\ Strengths(r)' = Strengths(r) /\ Times(r)' = Times(r)
        /\ Periods(r)' = Periods(r) /\ NetAddrs(r)' = NetAddrs(r) /\ ToAddrs(r)' = ToAddrs(r)
        /\ AskedWord(r)' = AskedWord(r)
    BY <1>3, <2>1 DEF Rest
  <2> DEFINE t == [Local(r) EXCEPT !.rounds = AskedRounds(r)']
  <2>3. t = [name |-> line[r].name, threads |-> Threads(r), strength |-> Strengths(r),
             rounds |-> AskedRounds(r)', time |-> Times(r), flags |-> LimitedFlag(r),
             period |-> Periods(r), netaddr |-> NetAddrs(r), to_addr |-> ToAddrs(r),
             word |-> AskedWord(r)]
    BY DEF Local
  <2>4. [Local(r) EXCEPT !.rounds = AskedRounds(r)', !.flags = LimitedFlag(r)'] =
          [t EXCEPT !.flags = LimitedFlag(r)']
    BY DEF Local
  <2> HIDE DEF t
  <2>5. [t EXCEPT !.flags = LimitedFlag(r)'] = Local(r)'
    BY <1>1, <2>2, <2>3
  <2> QED
    BY <2>4, <2>5
<1>12. ASSUME \A names \in Kinds \ SizeKinds : Keeps(r, names)
      PROVE  Local(r)' = [Local(r) EXCEPT !.word = AskedWord(r)']
  <2>1. Rest(SizeKinds)
    BY <1>2, <1>12
  <2> QED
    BY <1>1, <1>3, <2>1 DEF Local, Rest
<1> QED
  BY <1>4, <1>5, <1>6, <1>7, <1>8, <1>9, <1>10, <1>11, <1>12

-----------------------------------------------------------------------------
\* The steps of parse_opts on a supported line.

\* Every stressor but the last keeps what it is asked for, and so does the last
\* if the option does not count for it.
LEMMA LocalKept ==
  ASSUME TypeOK, NEW o \in Options, Read(o), NEW r \in Runs,
         Named(o) \/ ~IsLast(r) \/ \A names \in Kinds : ~Counts(o, names)
  PROVE  Local(r)' = Local(r)
<1>1. line'[r] = line[r]
  BY RunsType, ReadLine
<1>2. \A names \in Kinds : Keeps(r, names)
  BY OwnAfter
<1> QED
  BY <1>1, <1>2, LocalChanged

\* An option that names no stressor: the last task gets what it is asked for.
LEMMA OptionUnderstood ==
  ASSUME TypeOK, Understood, phase = "parsing", phase' = phase,
         NEW o \in Options, Read(o), ~Named(o),
         target' = target, Len(tasks') = Len(tasks), DOMAIN tasks' = DOMAIN tasks,
         flags' = {f \in Flags : \E i \in DOMAIN line' : line'[i].opt = f},
         \A k \in DOMAIN tasks : k # target => tasks'[k] = tasks[k],
         \A r \in Runs :
           target # 0 /\ IsLast(r) /\ tasks[target] = Local(r) => tasks'[target] = Local(r)'
  PROVE  Understood'
<1>1. Runs' = Runs /\ Cardinality(Runs)' = Cardinality(Runs)
  BY ReadLine
<1>2. /\ Len(tasks) \in Nat /\ DOMAIN tasks = 1..Len(tasks) /\ target = Len(tasks)
      /\ Len(tasks) = Cardinality(Runs)
  BY DEF TypeOK, Understood
<1>3. ASSUME NEW k \in DOMAIN tasks
      PROVE  \E r \in Runs : Rank(r)' = k - 1 /\ tasks'[k] = Local(r)'
  <2>1. PICK r \in Runs : Rank(r) = k - 1 /\ tasks[k] = Local(r)
    BY DEF Understood
  <2>2. Rank(r)' = k - 1
    BY <2>1, RankAfter
  <2>3. IsLast(r) <=> k = target
    BY <1>2, <2>1, RankOfLast
  <2>4. CASE k = target
    BY <1>2, <2>1, <2>2, <2>3, <2>4
  <2>5. CASE k # target
    <3>1. Local(r)' = Local(r)
      BY <2>3, <2>5, LocalKept
    <3> QED
      BY <2>1, <2>2, <2>5, <3>1
  <2> QED
    BY <2>4, <2>5
<1> QED
  BY <1>1, <1>2, <1>3 DEF Understood

LEMMA FlagsAfter ==
  ASSUME TypeOK, Understood, NEW o \in Options, Read(o)
  PROVE  {f \in Flags : \E i \in DOMAIN line' : line'[i].opt = f} =
           flags \cup {f \in Flags : o.opt = f}
<1>1. /\ DOMAIN line' = DOMAIN line \cup {Len(line) + 1}
      /\ line'[Len(line) + 1] = o
      /\ \A i \in DOMAIN line : line'[i] = line[i]
  <2>1. 1..Len(line) + 1 = 1..Len(line) \cup {Len(line) + 1}
    BY RunsType
  <2> QED
    BY <2>1, RunsType, ReadLine
<1>2. flags = {f \in Flags : \E i \in DOMAIN line : line[i].opt = f}
  BY DEF Understood
<1> QED
  BY <1>1, <1>2

\* An assignment through pargs, which the last stressor asked for.
LEMMA PutUnderstood ==
  ASSUME TypeOK, Understood, phase = "parsing",
         NEW o \in Options, ~Named(o), o.opt \notin Flags, NEW new, Put(o, new),
         \A r \in Runs : IsLast(r) /\ target # 0 /\ Args = Local(r) => new = Local(r)'
  PROVE  Understood'
<1>1. /\ Read(o) /\ UNCHANGED <<target, flags, phase>>
      /\ tasks' = IF target = 0 THEN tasks ELSE [tasks EXCEPT ![target] = new]
  BY DEF Put
<1>2. /\ tasks \in Seq(Task) /\ Len(tasks) \in Nat /\ target \in 0..Len(tasks)
      /\ DOMAIN tasks = 1..Len(tasks)
  BY DEF TypeOK
<1>3. /\ Len(tasks') = Len(tasks) /\ DOMAIN tasks' = DOMAIN tasks
      /\ \A k \in DOMAIN tasks : k # target => tasks'[k] = tasks[k]
      /\ target # 0 => tasks'[target] = new
  BY <1>1, <1>2
<1>4. flags' = {f \in Flags : \E i \in DOMAIN line' : line'[i].opt = f}
  BY <1>1, FlagsAfter
<1>5. target # 0 => Args = tasks[target]
  BY DEF Args
<1> QED
  BY <1>1, <1>3, <1>4, <1>5, OptionUnderstood

LEMMA IgnoreUnderstood ==
  ASSUME TypeOK, Understood, phase = "parsing",
         NEW o \in Options, ~Named(o), o.opt \notin Flags, Ignore(o),
         \A names \in Kinds : ~Counts(o, names)
  PROVE  Understood'
<1>1. Put(o, Args) /\ Read(o)
  BY DEF Ignore, Put
<1>2. \A r \in Runs : Local(r)' = Local(r)
  BY <1>1, LocalKept
<1> QED
  BY <1>1, <1>2, PutUnderstood

LEMMA FlagUnderstood ==
  ASSUME TypeOK, Understood, phase = "parsing", Flag
  PROVE  Understood'
<1>1. PICK f \in Flags : \E o \in Given(f) :
        Read(o) /\ flags' = flags \cup {f} /\ UNCHANGED <<tasks, target, phase>>
  BY DEF Flag
<1>2. PICK o \in Given(f) :
        Read(o) /\ flags' = flags \cup {f} /\ UNCHANGED <<tasks, target, phase>>
  BY <1>1
<1>3. o \in Options /\ o.opt = f /\ ~Named(o)
  BY DEF Given, Flags, Named
<1>4. flags' = {g \in Flags : \E i \in DOMAIN line' : line'[i].opt = g}
  BY <1>2, <1>3, FlagsAfter
<1>5. \A names \in Kinds : ~Counts(o, names)
  BY <1>3 DEF Counts, Kinds, SizeKinds, Limits, DiskSize, Flags
<1>6. \A r \in Runs : Local(r)' = Local(r)
  BY <1>2, <1>3, <1>5, LocalKept
<1> QED
  BY <1>2, <1>3, <1>4, <1>6, OptionUnderstood

LEMMA OptionSuits ==
  ASSUME TypeOK, NEW o \in Options, Read(o), Supported', o.opt \notin Flags, ~Named(o)
  PROVE  /\ Runs # {}
         /\ \A r \in Runs : IsLast(r) => Suits(o, line[r].name)
<1>1. PICK r \in Runs : IsLast(r) /\ Suits(o, line[r].name)
  BY SupportedBefore
<1>2. \A q \in Runs : IsLast(q) => q = r
  <2>1. Runs \subseteq Int
    BY RunsType
  <2> QED
    BY <1>1, <2>1 DEF IsLast
<1> QED
  BY <1>1, <1>2

LEMMA KindsApart ==
  \A names \in Kinds : \A f \in names : f \notin Limits \cup DiskSize => names = {f}
BY DEF Kinds, SizeKinds, DiskSize

\* An option about one field of the last stressor.
LEMMA FieldGot ==
  ASSUME TypeOK, NEW o \in Options, Read(o), ~Named(o), o.opt \notin Limits \cup DiskSize,
         NEW r \in Runs, IsLast(r), Counts(o, {o.opt})
  PROVE  /\ line'[r] = line[r]
         /\ \A names \in Kinds \ {{o.opt}} : Keeps(r, names)
         /\ Gets(r, {o.opt}, o)
<1>1. line'[r] = line[r]
  BY RunsType, ReadLine
<1>2. \A names \in Kinds \ {{o.opt}} : ~Counts(o, names)
  BY KindsApart DEF Counts
<1> QED
  BY <1>1, <1>2, OwnAfter

LEMMA NinstanceUnderstood ==
  ASSUME TypeOK, Understood, phase = "parsing", Ninstance
  PROVE  Understood'
<1>1. PICK o \in Given("ninstance") : Put(o, [Args EXCEPT !.threads = Clamp(o.n, 1, Cpus)])
  BY DEF Ninstance
<1>2. o \in Options /\ o.opt = "ninstance" /\ ~Named(o) /\ o.opt \notin Flags /\ Read(o)
  BY <1>1 DEF Given, Named, Flags, Put
<1>3. ASSUME NEW r \in Runs, IsLast(r), Args = Local(r)
      PROVE  [Args EXCEPT !.threads = Clamp(o.n, 1, Cpus)] = Local(r)'
  <2>1. Counts(o, {o.opt}) /\ o.opt \notin Limits \cup DiskSize
    BY <1>2 DEF Counts, Limits, DiskSize
  <2>2. line'[r] = line[r] /\ Gets(r, {"ninstance"}, o)
        /\ \A names \in Kinds \ {{"ninstance"}} : Keeps(r, names)
    BY <1>2, <1>3, <2>1, FieldGot
  <2>3. Local(r)' = [Local(r) EXCEPT !.threads = Threads(r)']
    BY <2>2, LocalChanged
  <2>4. Threads(r)' = Clamp(o.n, 1, Cpus)
    BY <1>2, <2>2, AskedGot, OptionType DEF Threads
  <2> QED
    BY <1>3, <2>3, <2>4
<1> QED
  BY <1>1, <1>2, <1>3, PutUnderstood

LEMMA TimeUnderstood ==
  ASSUME TypeOK, Understood, phase = "parsing", Time
  PROVE  Understood'
<1>1. PICK o \in Given("time") : Put(o, [Args EXCEPT !.time = IF o.n <= 0 THEN 0 ELSE o.n])
  BY DEF Time
<1>2. o \in Options /\ o.opt = "time" /\ ~Named(o) /\ o.opt \notin Flags /\ Read(o)
  BY <1>1 DEF Given, Named, Flags, Put
<1>3. ASSUME NEW r \in Runs, IsLast(r), Args = Local(r)
      PROVE  [Args EXCEPT !.time = IF o.n <= 0 THEN 0 ELSE o.n] = Local(r)'
  <2>1. Counts(o, {o.opt}) /\ o.opt \notin Limits \cup DiskSize
    BY <1>2 DEF Counts, Limits, DiskSize
  <2>2. line'[r] = line[r] /\ Gets(r, {"time"}, o)
        /\ \A names \in Kinds \ {{"time"}} : Keeps(r, names)
    BY <1>2, <1>3, <2>1, FieldGot
  <2>3. Local(r)' = [Local(r) EXCEPT !.time = Times(r)']
    BY <2>2, LocalChanged
  <2>4. Times(r)' = (IF o.n <= 0 THEN 0 ELSE o.n)
    BY <1>2, <2>2, AskedGot, OptionType DEF Times, NotBelow
  <2> QED
    BY <1>3, <2>3, <2>4
<1> QED
  BY <1>1, <1>2, <1>3, PutUnderstood

LEMMA PeriodUnderstood ==
  ASSUME TypeOK, Understood, phase = "parsing", Period
  PROVE  Understood'
<1>1. PICK o \in Given("period") : Put(o, [Args EXCEPT !.period = o.n % Half])
  BY DEF Period
<1>2. o \in Options /\ o.opt = "period" /\ ~Named(o) /\ o.opt \notin Flags /\ Read(o)
  BY <1>1 DEF Given, Named, Flags, Put
<1>3. ASSUME NEW r \in Runs, IsLast(r), Args = Local(r)
      PROVE  [Args EXCEPT !.period = o.n % Half] = Local(r)'
  <2>1. Counts(o, {o.opt}) /\ o.opt \notin Limits \cup DiskSize
    BY <1>2 DEF Counts, Limits, DiskSize
  <2>2. line'[r] = line[r] /\ Gets(r, {"period"}, o)
        /\ \A names \in Kinds \ {{"period"}} : Keeps(r, names)
    BY <1>2, <1>3, <2>1, FieldGot
  <2>3. Local(r)' = [Local(r) EXCEPT !.period = Periods(r)']
    BY <2>2, LocalChanged
  <2>4. Periods(r)' = o.n % Half
    BY <1>2, <2>2, AskedGot, OptionType DEF Periods
  <2> QED
    BY <1>3, <2>3, <2>4
<1> QED
  BY <1>1, <1>2, <1>3, PutUnderstood

LEMMA ArgsOfLast ==
  ASSUME TypeOK, Understood, phase = "parsing", NEW r \in Runs, IsLast(r)
  PROVE  target # 0 /\ Args = Local(r) /\ Args.name = line[r].name
<1>1. target = Cardinality(Runs) /\ Len(tasks) = target /\ DOMAIN tasks = 1..target /\ target \in Nat
  BY RunsType DEF TypeOK, Understood
<1>2. target # 0
  BY <1>1, RunsType, FS_EmptySet
<1>3. PICK q \in Runs : Rank(q) = target - 1 /\ tasks[target] = Local(q)
  BY <1>1, <1>2 DEF Understood
<1>4. q = r
  <2>1. IsLast(q)
    BY <1>1, <1>3, RankOfLast
  <2>2. q \in Int /\ r \in Int
    BY RunsType
  <2> QED
    BY <2>1, <2>2 DEF IsLast
<1>5. Args = Local(r)
  BY <1>2, <1>3, <1>4 DEF Args
<1> QED
  BY <1>2, <1>5 DEF Local

LEMMA StrengthUnderstood ==
  ASSUME TypeOK, Understood, phase = "parsing", Supported', Strength
  PROVE  Understood'
<1>1. PICK o \in Given("strength") :
        IF Args.name \in {"mem-bw", "disk-write"}
        THEN Ignore(o)
        ELSE Put(o, [Args EXCEPT !.strength = Clamp(o.n, 1, 100)])
  BY DEF Strength
<1>2. o \in Options /\ o.opt = "strength" /\ ~Named(o) /\ o.opt \notin Flags /\ Read(o)
  BY <1>1 DEF Given, Named, Flags, Put, Ignore
<1>3. Put(o, [Args EXCEPT !.strength = Clamp(o.n, 1, 100)])
  <2>1. PICK r \in Runs : IsLast(r) /\ Suits(o, line[r].name)
    BY <1>2, SupportedBefore
  <2>2. Args.name \notin {"mem-bw", "disk-write"}
    BY <1>2, <2>1, ArgsOfLast DEF Suits, DiskSize
  <2> QED
    BY <1>1, <2>2
<1>4. ASSUME NEW r \in Runs, IsLast(r), Args = Local(r)
      PROVE  [Args EXCEPT !.strength = Clamp(o.n, 1, 100)] = Local(r)'
  <2>1. Counts(o, {o.opt}) /\ o.opt \notin Limits \cup DiskSize
    BY <1>2 DEF Counts, Limits, DiskSize
  <2>2. line'[r] = line[r] /\ Gets(r, {"strength"}, o)
        /\ \A names \in Kinds \ {{"strength"}} : Keeps(r, names)
    BY <1>2, <1>4, <2>1, FieldGot
  <2>3. Local(r)' = [Local(r) EXCEPT !.strength = Strengths(r)']
    BY <2>2, LocalChanged
  <2>4. Strengths(r)' = Clamp(o.n, 1, 100)
    BY <1>2, <2>2, AskedGot, OptionType DEF Strengths
  <2> QED
    BY <1>4, <2>3, <2>4
<1> QED
  BY <1>2, <1>3, <1>4, PutUnderstood

LEMMA AddrUnderstood ==
  ASSUME TypeOK, Understood, phase = "parsing", Addr
  PROVE  Understood'
<1>1. PICK o \in Given("addr") :
        IF o.n = Malformed THEN Ignore(o) ELSE Put(o, [Args EXCEPT !.netaddr = NetAddress(o.n)])
  BY DEF Addr
<1>2. o \in Options /\ o.opt = "addr" /\ ~Named(o) /\ o.opt \notin Flags /\ Read(o)
  BY <1>1 DEF Given, Named, Flags, Put, Ignore
<1>3. CASE o.n = Malformed
  <2>1. \A names \in Kinds : ~Counts(o, names)
    BY <1>2, <1>3 DEF Counts
  <2> QED
    BY <1>1, <1>2, <1>3, <2>1, IgnoreUnderstood
<1>4. ASSUME o.n # Malformed, NEW r \in Runs, IsLast(r), Args = Local(r)
      PROVE  [Args EXCEPT !.netaddr = NetAddress(o.n)] = Local(r)'
  <2>1. Counts(o, {o.opt}) /\ o.opt \notin Limits \cup DiskSize
    BY <1>2, <1>4 DEF Counts, Limits, DiskSize
  <2>2. line'[r] = line[r] /\ Gets(r, {"addr"}, o)
        /\ \A names \in Kinds \ {{"addr"}} : Keeps(r, names)
    BY <1>2, <1>4, <2>1, FieldGot
  <2>3. Local(r)' = [Local(r) EXCEPT !.netaddr = NetAddrs(r)']
    BY <2>2, LocalChanged
  <2>4. NetAddrs(r)' = NetAddress(o.n)
    BY <1>2, <2>2, AskedGot DEF NetAddrs
  <2> QED
    BY <1>4, <2>3, <2>4
<1> QED
  BY <1>1, <1>2, <1>3, <1>4, PutUnderstood

LEMMA AddrToUnderstood ==
  ASSUME TypeOK, Understood, phase = "parsing", AddrTo
  PROVE  Understood'
<1>1. PICK o \in Given("addr-to") :
        IF o.n = Malformed THEN Ignore(o) ELSE Put(o, [Args EXCEPT !.to_addr = NetAddress(o.n)])
  BY DEF AddrTo
<1>2. o \in Options /\ o.opt = "addr-to" /\ ~Named(o) /\ o.opt \notin Flags /\ Read(o)
  BY <1>1 DEF Given, Named, Flags, Put, Ignore
<1>3. CASE o.n = Malformed
  <2>1. \A names \in Kinds : ~Counts(o, names)
    BY <1>2, <1>3 DEF Counts
  <2> QED
    BY <1>1, <1>2, <1>3, <2>1, IgnoreUnderstood
<1>4. ASSUME o.n # Malformed, NEW r \in Runs, IsLast(r), Args = Local(r)
      PROVE  [Args EXCEPT !.to_addr = NetAddress(o.n)] = Local(r)'
  <2>1. Counts(o, {o.opt}) /\ o.opt \notin Limits \cup DiskSize
    BY <1>2, <1>4 DEF Counts, Limits, DiskSize
  <2>2. line'[r] = line[r] /\ Gets(r, {"addr-to"}, o)
        /\ \A names \in Kinds \ {{"addr-to"}} : Keeps(r, names)
    BY <1>2, <1>4, <2>1, FieldGot
  <2>3. Local(r)' = [Local(r) EXCEPT !.to_addr = ToAddrs(r)']
    BY <2>2, LocalChanged
  <2>4. ToAddrs(r)' = NetAddress(o.n)
    BY <1>2, <2>2, AskedGot DEF ToAddrs
  <2> QED
    BY <1>4, <2>3, <2>4
<1> QED
  BY <1>1, <1>2, <1>3, <1>4, PutUnderstood

\* -l, with a number or without.
LEMMA LimitsGot ==
  ASSUME TypeOK, NEW o \in Options, Read(o), o.opt \in Limits, NEW r \in Runs, IsLast(r)
  PROVE  Local(r)' = [Local(r) EXCEPT
           !.rounds = IF o.opt = "limited" THEN o.n ELSE DefaultRounds,
           !.flags = @ \cup {"limited"}]
<1>1. line'[r] = line[r] /\ ~Named(o)
  BY RunsType, ReadLine DEF Limits, Named
<1>2. Limits \in Kinds /\ Counts(o, Limits) /\ \A names \in Kinds \ {Limits} : ~Counts(o, names)
  BY DEF Kinds, SizeKinds, Limits, Counts, DiskSize
<1>3. Gets(r, Limits, o) /\ \A names \in Kinds \ {Limits} : Keeps(r, names)
  BY <1>1, <1>2, OwnAfter
<1>4. Local(r)' = [Local(r) EXCEPT !.rounds = AskedRounds(r)', !.flags = LimitedFlag(r)']
  BY <1>1, <1>3, LocalChanged
<1>5. AskedRounds(r)' = IF o.opt = "limited" THEN o.n ELSE DefaultRounds
  BY <1>3 DEF Gets, Limits, AskedRounds
<1>6. LimitedFlag(r)' = LimitedFlag(r) \cup {"limited"}
  BY <1>3 DEF Gets, Limits, LimitedFlag
<1>7. Local(r).flags = LimitedFlag(r)
  BY DEF Local
<1> QED
  BY <1>4, <1>5, <1>6, <1>7

LEMMA LimitedUnderstood ==
  ASSUME TypeOK, Understood, phase = "parsing", Limited
  PROVE  Understood'
<1>1. PICK o \in Given("limited") :
        Put(o, [Args EXCEPT !.rounds = o.n, !.flags = @ \cup {"limited"}])
  BY DEF Limited
<1>2. o \in Options /\ o.opt = "limited" /\ ~Named(o) /\ o.opt \notin Flags /\ Read(o)
  BY <1>1 DEF Given, Named, Flags, Put
<1>3. ASSUME NEW r \in Runs, IsLast(r), Args = Local(r)
      PROVE  [Args EXCEPT !.rounds = o.n, !.flags = @ \cup {"limited"}] = Local(r)'
  BY <1>2, <1>3, LimitsGot DEF Limits
<1> QED
  BY <1>1, <1>2, <1>3, PutUnderstood

LEMMA LimitedDefaultUnderstood ==
  ASSUME TypeOK, Understood, phase = "parsing", Supported', LimitedDefault
  PROVE  Understood'
<1> DEFINE new == [Limit(Args) EXCEPT !.flags = @ \cup {"limited"}]
<1>1. PICK o \in Given("limited-default") :
        /\ Read(o)
        /\ IF target = 0
           THEN phase' = "undefined" /\ UNCHANGED tasks
           ELSE /\ tasks' = [tasks EXCEPT ![target] = new]
                /\ UNCHANGED phase
        /\ UNCHANGED <<target, flags>>
  BY DEF LimitedDefault
<1>2. o \in Options /\ o.opt = "limited-default" /\ ~Named(o) /\ o.opt \notin Flags
  BY DEF Given, Named, Flags
<1>3. PICK r \in Runs : IsLast(r)
  BY <1>1, <1>2, SupportedBefore
<1>4. target # 0 /\ Args = Local(r)
  BY <1>3, ArgsOfLast
<1>5. new = Local(r)'
  <2>1. Limit(Args) = [Args EXCEPT !.rounds = DefaultRounds]
    BY DEF Limit
  <2>2. Local(r)' = [Local(r) EXCEPT !.rounds = DefaultRounds, !.flags = @ \cup {"limited"}]
    BY <1>1, <1>2, <1>3, LimitsGot DEF Limits
  <2>3. Limit(Args).flags = Args.flags
    BY <2>1
  <2> QED
    BY <1>4, <2>1, <2>2, <2>3
<1> HIDE DEF new
<1>6. /\ tasks \in Seq(Task) /\ Len(tasks) \in Nat /\ target \in 1..Len(tasks)
      /\ DOMAIN tasks = 1..Len(tasks) /\ tasks' = [tasks EXCEPT ![target] = new]
  BY <1>1, <1>4 DEF TypeOK
<1>7. /\ Len(tasks') = Len(tasks) /\ DOMAIN tasks' = DOMAIN tasks
      /\ \A k \in DOMAIN tasks : k # target => tasks'[k] = tasks[k]
      /\ tasks'[target] = new
  BY <1>6
<1>8. flags' = {f \in Flags : \E i \in DOMAIN line' : line'[i].opt = f}
  BY <1>1, <1>2, FlagsAfter
<1>9. \A q \in Runs : IsLast(q) => q = r
  <2>1. Runs \subseteq Int
    BY RunsType
  <2> QED
    BY <1>3, <2>1 DEF IsLast
<1> QED
  BY <1>1, <1>2, <1>4, <1>5, <1>7, <1>8, <1>9, OptionUnderstood

\* The options that share the union: each counts for its own stressors only.
LEMMA SizeGot ==
  ASSUME TypeOK, Understood, phase = "parsing", Supported',
         NEW o \in Options, Read(o), ~Named(o), o.opt \notin Flags,
         {o.opt} \in SizeKinds, Counts(o, {o.opt}), NEW r \in Runs, IsLast(r)
  PROVE  /\ Local(r)' = [Local(r) EXCEPT !.word = AskedWord(r)']
         /\ Gets(r, {o.opt}, o)
         /\ \A names \in SizeKinds \ {{o.opt}} : Keeps(r, names)
         /\ Suits(o, line[r].name)
         /\ line'[r] = line[r]
<1>1. o.opt \notin Limits \cup DiskSize /\ SizeKinds \subseteq Kinds
  BY DEF SizeKinds, Limits, Kinds, DiskSize
<1>2. /\ line'[r] = line[r] /\ Gets(r, {o.opt}, o)
      /\ \A names \in Kinds \ {{o.opt}} : Keeps(r, names)
  BY <1>1, FieldGot
<1>3. \A names \in Kinds \ SizeKinds : Keeps(r, names)
  BY <1>2
<1> QED
  BY <1>1, <1>2, <1>3, LocalChanged, OptionSuits

LEMMA MemBandwidthUnderstood ==
  ASSUME TypeOK, Understood, phase = "parsing", Supported', MemBandwidth
  PROVE  Understood'
<1>1. PICK o \in Given("mem-bandwidth") :
        Put(o, [Args EXCEPT !.word = Whole(IF o.n <= 0 THEN 0 ELSE Mega * o.n)])
  BY DEF MemBandwidth
<1>2. o \in Options /\ o.opt = "mem-bandwidth" /\ ~Named(o) /\ o.opt \notin Flags /\ Read(o)
  BY <1>1 DEF Given, Named, Flags, Put
<1>3. ASSUME NEW r \in Runs, IsLast(r), Args = Local(r)
      PROVE  [Args EXCEPT !.word = Whole(IF o.n <= 0 THEN 0 ELSE Mega * o.n)] = Local(r)'
  <2>1. Counts(o, {o.opt}) /\ {o.opt} \in SizeKinds
    BY <1>2 DEF Counts, SizeKinds
  <2>2. /\ Local(r)' = [Local(r) EXCEPT !.word = AskedWord(r)']
        /\ Gets(r, {"mem-bandwidth"}, o)
        /\ Suits(o, line[r].name) /\ line'[r] = line[r]
    BY <1>2, <1>3, <2>1, SizeGot
  <2>3. line'[r].name = "mem-bw"
    BY <1>2, <2>2 DEF Suits, DiskSize
  <2>4. AskedWord(r)' = Whole(Mega * NotBelow(o.n, 0))
    <3>1. Asked(r, "mem-bandwidth", 0)' = o.n
      BY <2>2, AskedGot
    <3> QED
      BY <2>3, <3>1 DEF AskedWord, Caches, Udp, Whole, NotBelow
  <2>5. Mega * NotBelow(o.n, 0) = IF o.n <= 0 THEN 0 ELSE Mega * o.n
    <3>1. o.n \in Int /\ Mega \in Int
      BY OptionType, CommandLineAssumption
    <3> QED
      BY <3>1 DEF NotBelow
  <2> QED
    BY <1>3, <2>2, <2>4, <2>5
<1> QED
  BY <1>1, <1>2, <1>3, PutUnderstood

LEMMA CacheSizeOptionUnderstood ==
  ASSUME TypeOK, Understood, phase = "parsing", Supported', CacheSizeOption
  PROVE  Understood'
<1>1. PICK o \in Given("cache-size") : Put(o, [Args EXCEPT !.word = Whole(o.n % Half)])
  BY DEF CacheSizeOption
<1>2. o \in Options /\ o.opt = "cache-size" /\ ~Named(o) /\ o.opt \notin Flags /\ Read(o)
  BY <1>1 DEF Given, Named, Flags, Put
<1>3. ASSUME NEW r \in Runs, IsLast(r), Args = Local(r)
      PROVE  [Args EXCEPT !.word = Whole(o.n % Half)] = Local(r)'
  <2>1. Counts(o, {o.opt}) /\ {o.opt} \in SizeKinds
    BY <1>2 DEF Counts, SizeKinds
  <2>2. /\ Local(r)' = [Local(r) EXCEPT !.word = AskedWord(r)']
        /\ Gets(r, {"cache-size"}, o)
        /\ Suits(o, line[r].name) /\ line'[r] = line[r]
    BY <1>2, <1>3, <2>1, SizeGot
  <2>3. line'[r].name \in Caches \cup {"cache"}
    BY <1>2, <2>2 DEF Suits, DiskSize
  <2>4. AskedWord(r)' = Whole(o.n % Half)
    <3>1. Own(r, {"cache-size"})' # {} /\ line'[Max(Own(r, {"cache-size"})')].n = o.n
      BY <2>2 DEF Gets
    <3> QED
      BY <2>3, <3>1 DEF AskedWord, AskedCache, Asked, Caches, Udp, Whole
  <2> QED
    BY <1>3, <2>2, <2>4
<1> QED
  BY <1>1, <1>2, <1>3, PutUnderstood

LEMMA PageTotUnderstood ==
  ASSUME TypeOK, Understood, phase = "parsing", Supported', PageTot
  PROVE  Understood'
<1>1. PICK o \in Given("page-tot") : Put(o, [Args EXCEPT !.word = Whole(Mega * o.n)])
  BY DEF PageTot
<1>2. o \in Options /\ o.opt = "page-tot" /\ ~Named(o) /\ o.opt \notin Flags /\ Read(o)
  BY <1>1 DEF Given, Named, Flags, Put
<1>3. ASSUME NEW r \in Runs, IsLast(r), Args = Local(r)
      PROVE  [Args EXCEPT !.word = Whole(Mega * o.n)] = Local(r)'
  <2>1. Counts(o, {o.opt}) /\ {o.opt} \in SizeKinds
    BY <1>2 DEF Counts, SizeKinds
  <2>2. /\ Local(r)' = [Local(r) EXCEPT !.word = AskedWord(r)']
        /\ Gets(r, {"page-tot"}, o)
        /\ Suits(o, line[r].name) /\ line'[r] = line[r]
    BY <1>2, <1>3, <2>1, SizeGot
  <2>3. line'[r].name = "tlb"
    BY <1>2, <2>2 DEF Suits, DiskSize
  <2>4. AskedWord(r)' = Whole(Mega * o.n)
    <3>1. Asked(r, "page-tot", 8 * 1024)' = o.n
      BY <2>2, AskedGot
    <3> QED
      BY <2>3, <3>1 DEF AskedWord, Caches, Udp, Whole, NotBelow
  <2> QED
    BY <1>3, <2>2, <2>4
<1> QED
  BY <1>1, <1>2, <1>3, PutUnderstood

LEMMA PackSizeUnderstood ==
  ASSUME TypeOK, Understood, phase = "parsing", Supported', PackSize
  PROVE  Understood'
<1>1. PICK o \in Given("pack-size") :
        IF o.n <= 0 THEN Ignore(o) ELSE Put(o, [Args EXCEPT !.word.hi = o.n])
  BY DEF PackSize
<1>2. o \in Options /\ o.opt = "pack-size" /\ ~Named(o) /\ o.opt \notin Flags /\ Read(o) /\ o.n \in Int
  <2>1. o.n \in Int
    BY OptionType
  <2> QED
    BY <1>1, <2>1 DEF Given, Named, Flags, Put, Ignore
<1>3. CASE o.n <= 0
  <2>1. \A names \in Kinds : ~Counts(o, names)
    BY <1>2, <1>3 DEF Counts
  <2> QED
    BY <1>1, <1>2, <1>3, <2>1, IgnoreUnderstood
<1>4. ASSUME ~(o.n <= 0), NEW r \in Runs, IsLast(r), Args = Local(r)
      PROVE  [Args EXCEPT !.word.hi = o.n] = Local(r)'
  <2>1. Counts(o, {o.opt}) /\ {o.opt} \in SizeKinds
    BY <1>2, <1>4 DEF Counts, SizeKinds
  <2>2. /\ Local(r)' = [Local(r) EXCEPT !.word = AskedWord(r)']
        /\ Gets(r, {"pack-size"}, o) /\ Keeps(r, {"pack-per-sec"})
        /\ Suits(o, line[r].name) /\ line'[r] = line[r]
    <3>1. {"pack-per-sec"} \in SizeKinds \ {{"pack-size"}}
      BY DEF SizeKinds
    <3> QED
      BY <1>2, <1>4, <2>1, <3>1, SizeGot
  <2>3. line[r].name \in Udp
    BY <1>2, <2>2 DEF Suits, DiskSize
  <2>4. AskedWord(r) = [lo |-> Asked(r, "pack-per-sec", 0), hi |-> Asked(r, "pack-size", 64)]
    BY <2>3 DEF AskedWord, Udp, Caches
  <2>5. AskedWord(r)' = [lo |-> Asked(r, "pack-per-sec", 0)', hi |-> Asked(r, "pack-size", 64)']
    BY <2>2, <2>3 DEF AskedWord, Udp, Caches
  <2>6. AskedWord(r)' = [lo |-> Asked(r, "pack-per-sec", 0), hi |-> o.n]
    BY <2>2, <2>5, AskedGot, AskedKept
  <2>7. AskedWord(r)' = [AskedWord(r) EXCEPT !.hi = o.n]
    BY <2>4, <2>6
  <2>8. Args.word = AskedWord(r)
    BY <1>4 DEF Local
  <2> QED
    BY <1>4, <2>2, <2>7, <2>8
<1> QED
  BY <1>1, <1>2, <1>3, <1>4, PutUnderstood

LEMMA PackPerSecUnderstood ==
  ASSUME TypeOK, Understood, phase = "parsing", Supported', PackPerSec
  PROVE  Understood'
<1>1. PICK o \in Given("pack-per-sec") :
        IF o.n <= 0 THEN Ignore(o) ELSE Put(o, [Args EXCEPT !.word.lo = o.n])
  BY DEF PackPerSec
<1>2. o \in Options /\ o.opt = "pack-per-sec" /\ ~Named(o) /\ o.opt \notin Flags /\ Read(o) /\ o.n \in Int
  <2>1. o.n \in Int
    BY OptionType
  <2> QED
    BY <1>1, <2>1 DEF Given, Named, Flags, Put, Ignore
<1>3. CASE o.n <= 0
  <2>1. \A names \in Kinds : ~Counts(o, names)
    BY <1>2, <1>3 DEF Counts
  <2> QED
    BY <1>1, <1>2, <1>3, <2>1, IgnoreUnderstood
<1>4. ASSUME ~(o.n <= 0), NEW r \in Runs, IsLast(r), Args = Local(r)
      PROVE  [Args EXCEPT !.word.lo = o.n] = Local(r)'
  <2>1. Counts(o, {o.opt}) /\ {o.opt} \in SizeKinds
    BY <1>2, <1>4 DEF Counts, SizeKinds
  <2>2. /\ Local(r)' = [Local(r) EXCEPT !.word = AskedWord(r)']
        /\ Gets(r, {"pack-per-sec"}, o) /\ Keeps(r, {"pack-size"})
        /\ Suits(o, line[r].name) /\ line'[r] = line[r]
    <3>1. {"pack-size"} \in SizeKinds \ {{"pack-per-sec"}}
      BY DEF SizeKinds
    <3> QED
      BY <1>2, <1>4, <2>1, <3>1, SizeGot
  <2>3. line[r].name \in Udp
    BY <1>2, <2>2 DEF Suits, DiskSize
  <2>4. AskedWord(r) = [lo |-> Asked(r, "pack-per-sec", 0), hi |-> Asked(r, "pack-size", 64)]
    BY <2>3 DEF AskedWord, Udp, Caches
  <2>5. AskedWord(r)' = [lo |-> Asked(r, "pack-per-sec", 0)', hi |-> Asked(r, "pack-size", 64)']
    BY <2>2, <2>3 DEF AskedWord, Udp, Caches
  <2>6. AskedWord(r)' = [lo |-> o.n, hi |-> Asked(r, "pack-size", 64)]
    BY <2>2, <2>5, AskedGot, AskedKept
  <2>7. AskedWord(r)' = [AskedWord(r) EXCEPT !.lo = o.n]
    BY <2>4, <2>6
  <2>8. Args.word = AskedWord(r)
    BY <1>4 DEF Local
  <2> QED
    BY <1>4, <2>2, <2>7, <2>8
<1> QED
  BY <1>1, <1>2, <1>3, <1>4, PutUnderstood

\* -r: a new task is what a stressor without options of its own is asked for.
LEMMA WordOfNew ==
  ASSUME NEW n, NEW o, Named(o), line'[n] = o, \A names : Own(n, names)' = {}
  PROVE  AskedWord(n)' = DefaultWord(o.name)
<1>1. \A name, d : Asked(n, name, d)' = d
  BY DEF Asked
<1>2. Own(n, {"cache-size"})' = {}
  OBVIOUS
<1>3. CASE o.name = "mem-bw"
  <2>1. Mega * 0 = 0 /\ NotBelow(0, 0) = 0
    BY CommandLineAssumption DEF NotBelow
  <2>2. AskedWord(n)' = Whole(Mega * NotBelow(0, 0))
    BY <1>1, <1>3 DEF AskedWord, Caches, Udp, Whole, NotBelow
  <2>3. DefaultWord(o.name) = Whole(0)
    BY <1>3 DEF DefaultWord, Caches, Udp
  <2> QED
    BY <2>1, <2>2, <2>3
<1>4. CASE o.name = "cache"
  BY <1>2, <1>4 DEF AskedWord, AskedCache, DefaultWord, Caches, Udp, Whole
<1>5. CASE o.name \in Caches
  BY <1>2, <1>5 DEF AskedWord, AskedCache, DefaultWord, Caches, Udp, Whole
<1>6. CASE o.name = "tlb"
  <2>1. Mega * (8 * 1024) = 8 * 1024 * Mega
    BY CommandLineAssumption
  <2>2. AskedWord(n)' = Whole(Mega * (8 * 1024))
    BY <1>1, <1>6 DEF AskedWord, Caches, Udp, Whole
  <2>3. DefaultWord(o.name) = Whole(8 * 1024 * Mega)
    BY <1>6 DEF DefaultWord, Caches, Udp
  <2> QED
    BY <2>1, <2>2, <2>3
<1>7. CASE o.name = "disk-write"
  <2>1. Own(n, DiskSize)' = {}
    OBVIOUS
  <2> QED
    BY <1>7, <2>1 DEF AskedWord, DefaultWord, Caches, Udp, Whole
<1>8. CASE o.name \in Udp
  BY <1>1, <1>8 DEF AskedWord, DefaultWord, Caches, Udp
<1>9. CASE o.name \notin Caches \cup Udp \cup {"mem-bw", "cache", "tlb", "disk-write"}
  BY <1>9 DEF AskedWord, DefaultWord, Caches, Udp, Whole
<1> QED
  BY <1>3, <1>4, <1>5, <1>6, <1>7, <1>8, <1>9

LEMMA LocalOfNew ==
  ASSUME NEW n, NEW o, Named(o), line'[n] = o, \A names : Own(n, names)' = {}
  PROVE  Local(n)' = NewTask(o.name)
<1>1. \A name, d : Asked(n, name, d)' = d
  BY DEF Asked
<1>2. Threads(n)' = 1 /\ Strengths(n)' = 100 /\ Times(n)' = 0
  BY <1>1, CommandLineAssumption DEF Threads, Strengths, Times, Clamp, NotBelow
<1>3. Periods(n)' = 100000
  <2>1. 100000 % Half = 100000
    BY CommandLineAssumption
  <2> QED
    BY <1>1, <2>1 DEF Periods
<1>4. NetAddrs(n)' = AnyAddress /\ ToAddrs(n)' = AnyAddress
  BY <1>1 DEF NetAddrs, ToAddrs, NetAddress, AnyAddress
<1>5. AskedRounds(n)' = 0 /\ LimitedFlag(n)' = {}
  BY DEF AskedRounds, LimitedFlag
<1>6. AskedWord(n)' = DefaultWord(o.name)
  BY WordOfNew
<1> QED
  BY <1>2, <1>3, <1>4, <1>5, <1>6 DEF Local, NewTask, Blank

LEMMA RunUnderstood ==
  ASSUME TypeOK, Understood, phase = "parsing", Run
  PROVE  Understood'
<1>1. PICK o \in Given("run") :
        /\ o.name \in Stressors /\ Read(o)
        /\ tasks' = Append(tasks, NewTask(o.name)) /\ target' = Len(tasks')
        /\ UNCHANGED <<flags, phase>>
  BY DEF Run
<1>2. o \in Options /\ Named(o) /\ o.opt \notin Flags
  BY <1>1 DEF Given, Named, Flags
<1>3. PICK n \in Nat : n = Len(line) + 1
  BY RunsType
<1>4. /\ Runs' = Runs \cup {n} /\ n \notin Runs /\ line'[n] = o
      /\ \A r \in Runs : r < n
  BY <1>1, <1>2, <1>3, RunsType, ReadLine
<1>5. Cardinality(Runs)' = Cardinality(Runs) + 1 /\ Cardinality(Runs) \in Nat
  BY <1>4, RunsType, FS_AddElement
<1>6. /\ Len(tasks) = Cardinality(Runs) /\ tasks \in Seq(Task)
      /\ DOMAIN tasks = 1..Len(tasks)
  BY DEF TypeOK, Understood
<1>7. /\ Len(tasks') = Len(tasks) + 1 /\ DOMAIN tasks' = 1..Len(tasks) + 1
      /\ tasks'[Len(tasks) + 1] = NewTask(o.name)
      /\ \A k \in DOMAIN tasks : tasks'[k] = tasks[k]
  BY <1>1, <1>6
<1>8. flags' = {f \in Flags : \E i \in DOMAIN line' : line'[i].opt = f}
  BY <1>1, <1>2, FlagsAfter
<1>9. ASSUME NEW k \in DOMAIN tasks
      PROVE  \E r \in Runs' : Rank(r)' = k - 1 /\ tasks'[k] = Local(r)'
  <2>1. PICK r \in Runs : Rank(r) = k - 1 /\ tasks[k] = Local(r)
    BY DEF Understood
  <2>2. Rank(r)' = k - 1 /\ Local(r)' = Local(r)
    BY <1>1, <1>2, <2>1, RankAfter, LocalKept
  <2> QED
    BY <1>4, <1>7, <2>1, <2>2
<1>10. n \in Runs' /\ Rank(n)' = Len(tasks) /\ tasks'[Len(tasks) + 1] = Local(n)'
  <2>1. {q \in Runs' : q < n} = Runs
    BY <1>3, <1>4
  <2>2. Rank(n)' = Len(tasks)
    BY <1>6, <2>1 DEF Rank
  <2>3. \A names : Own(n, names)' = {}
    BY <1>1, <1>2, <1>3, OwnOfNew
  <2>4. Local(n)' = NewTask(o.name)
    BY <1>2, <1>4, <2>3, LocalOfNew
  <2> QED
    BY <1>4, <1>7, <2>2, <2>4
<1>11. ASSUME NEW k \in DOMAIN tasks'
       PROVE  \E r \in Runs' : Rank(r)' = k - 1 /\ tasks'[k] = Local(r)'
  <2>1. CASE k \in DOMAIN tasks
    BY <1>9, <2>1
  <2>2. CASE k \notin DOMAIN tasks
    <3>1. k = Len(tasks) + 1 /\ k - 1 = Len(tasks)
      BY <1>5, <1>6, <1>7, <2>2
    <3> QED
      BY <1>10, <3>1
  <2> QED
    BY <2>1, <2>2
<1> QED
  BY <1>1, <1>5, <1>6, <1>7, <1>8, <1>11 DEF Understood

-----------------------------------------------------------------------------
\* Steps that read nothing.
LEMMA TaskOfLocal ==
  /\ \A r : AskedTask(r) = [Local(r) EXCEPT !.flags = AskedFlags(r)]
  /\ \A r : AskedTask(r)' = [Local(r)' EXCEPT !.flags = AskedFlags(r)']
<1> USE DEF AskedTask, Local, Threads, Strengths, Times, Periods, NetAddrs, ToAddrs
<1>1. \A r : AskedTask(r) = [Local(r) EXCEPT !.flags = AskedFlags(r)]
  OBVIOUS
<1>2. \A r : AskedTask(r)' = [Local(r)' EXCEPT !.flags = AskedFlags(r)']
  OBVIOUS
<1> QED
  BY <1>1, <1>2

LEMMA SameLine ==
  ASSUME line' = line
  PROVE  /\ Runs' = Runs /\ Supported' = Supported
         /\ \A r : Rank(r)' = Rank(r) /\ Local(r)' = Local(r) /\ AskedTask(r)' = AskedTask(r)
<1>1. Runs' = Runs
  BY DEF Runs
<1>2. \A i : RunOf(i)' = RunOf(i)
  BY <1>1 DEF RunOf
<1>3. Supported' = Supported
  BY <1>1, <1>2 DEF Supported, Proper, SizesDisk, Placed
<1>4. \A r : Rank(r)' = Rank(r)
  BY <1>1 DEF Rank
<1>5. \A r, names : Own(r, names)' = Own(r, names)
  BY <1>1 DEF Own
<1>6. \A r, names : Keeps(r, names)
  BY <1>5 DEF Keeps
<1>7. \A r : Local(r)' = Local(r)
  BY <1>6, LocalChanged
<1>8. \A r : AskedFlags(r)' = AskedFlags(r)
  BY <1>5 DEF AskedFlags
<1>9. \A r : AskedTask(r)' = AskedTask(r)
  BY <1>7, <1>8, TaskOfLocal
<1> QED
  BY <1>1, <1>3, <1>4, <1>7, <1>9

\* The end of parse_opts: every task gets the global flags.
LEMMA EndUnderstood ==
  ASSUME TypeOK, Understood, End
  PROVE  Understood'
<1>1. /\ phase = "parsing" /\ phase' = "parsed" /\ UNCHANGED <<line, target, flags>>
      /\ tasks' = [k \in DOMAIN tasks |-> [tasks[k] EXCEPT !.flags = @ \cup flags]]
  BY DEF End
<1>2. Len(tasks) \in Nat /\ DOMAIN tasks = 1..Len(tasks)
  BY DEF TypeOK
<1>3. DOMAIN tasks' = DOMAIN tasks /\ Len(tasks') = Len(tasks)
  BY <1>1, <1>2
<1>4. /\ Runs' = Runs /\ \A r : Rank(r)' = Rank(r) /\ AskedTask(r)' = AskedTask(r)
  BY <1>1, SameLine
<1>5. ASSUME NEW k \in DOMAIN tasks
      PROVE  \E r \in Runs : Rank(r)' = k - 1 /\ tasks'[k] = AskedTask(r)'
  <2>1. PICK r \in Runs : Rank(r) = k - 1 /\ tasks[k] = Local(r)
    BY <1>1 DEF Understood
  <2>2. AskedFlags(r) = LimitedFlag(r) \cup flags
    BY DEF AskedFlags, LimitedFlag, Understood
  <2>3. Local(r).flags = LimitedFlag(r)
    BY DEF Local
  <2>4. tasks'[k] = [Local(r) EXCEPT !.flags = AskedFlags(r)]
    BY <1>1, <2>1, <2>2, <2>3
  <2> QED
    BY <1>4, <2>1, <2>4, TaskOfLocal
<1>6. flags' = {f \in Flags : \E i \in DOMAIN line' : line'[i].opt = f}
  BY <1>1 DEF Understood
<1>7. target' = Len(tasks') /\ Len(tasks') = Cardinality(Runs)'
  BY <1>1, <1>3, <1>4 DEF Understood
<1> QED
  BY <1>1, <1>3, <1>4, <1>5, <1>6, <1>7 DEF Understood

LEMMA InitUnderstood == Init => Understood
<1> SUFFICES ASSUME Init PROVE Understood
  OBVIOUS
<1>1. Runs = {} /\ DOMAIN line = {} /\ DOMAIN tasks = {} /\ Len(tasks) = 0
  BY DEF Init, Runs
<1> QED
  BY <1>1, FS_EmptySet DEF Init, Understood

LEMMA StepUnderstood ==
  ASSUME TypeOK, Supported => Understood, [Next]_vars, Supported'
  PROVE  Understood'
<1>1. CASE UNCHANGED vars
  <2>1. line' = line /\ UNCHANGED <<tasks, target, flags, phase>>
    BY <1>1 DEF vars
  <2>2. Understood
    BY <2>1, SameLine
  <2> QED
    BY <2>1, <2>2, SameLine DEF Understood
<1>2. CASE End
  <2>1. Understood
    BY <1>2, SameLine DEF End
  <2> QED
    BY <1>2, <2>1, EndUnderstood
<1>3. ASSUME NEW o \in Options, Read(o)
      PROVE  Understood /\ phase = "parsing"
             /\ o.opt \notin DiskSize
             /\ (o.opt \in Flags \/ Named(o) \/ \E r \in Runs : Suits(o, line[r].name))
  BY <1>3, SupportedBefore DEF Read
<1>4. ASSUME Next, ~End
      PROVE  \E o \in Options : Read(o)
  BY <1>4, OptionType DEF Next, Run, RunUnknown, Limited, LimitedDefault, Ninstance, Time, Strength,
     MemBandwidth, CacheSizeOption, PageTot, DiskfileSize, PackSize, PackPerSec, Addr, AddrTo,
     Period, Flag, Check, Unknown, Ignore, Put
\* What the help text does not ask for, and what the program does not do.
<1>5. ~(RunUnknown \/ Check \/ DiskfileSize \/ Unknown)
  <2>1. ASSUME NEW o \in Options, o.opt \in {"run", "check", "diskfile-size"} \cup DiskSize, ~Named(o)
        PROVE  ~Read(o)
    BY <1>3, <2>1 DEF Flags, Suits, DiskSize
  <2> QED
    BY <2>1 DEF RunUnknown, Check, DiskfileSize, Unknown, Ignore, Put, Given, Named, DiskSize
<1>6. CASE Next /\ ~End
  <2>1. Understood /\ phase = "parsing"
    BY <1>3, <1>4, <1>6
  <2> QED
    BY <1>5, <1>6, <2>1, RunUnderstood, LimitedUnderstood, LimitedDefaultUnderstood,
       NinstanceUnderstood, TimeUnderstood, StrengthUnderstood, MemBandwidthUnderstood,
       CacheSizeOptionUnderstood, PageTotUnderstood, PackSizeUnderstood,
       PackPerSecUnderstood, AddrUnderstood, AddrToUnderstood, PeriodUnderstood, FlagUnderstood
       DEF Next
<1> QED
  BY <1>1, <1>2, <1>6

LEMMA UnderstoodAsAsked ==
  ASSUME TypeOK, Supported => Understood
  PROVE  AsAsked
<1> SUFFICES ASSUME Understood PROVE phase = "parsed" => tasks = AskedTasks
  BY DEF AsAsked, Understood
<1> SUFFICES ASSUME phase = "parsed" PROVE tasks = AskedTasks
  OBVIOUS
<1> DEFINE Nth(k) == CHOOSE r \in Runs : Cardinality({q \in Runs : q < r}) = k - 1
<1>1. DOMAIN tasks = 1..Cardinality(Runs) /\ tasks = [k \in DOMAIN tasks |-> tasks[k]]
  BY DEF TypeOK, Understood
<1>2. ASSUME NEW k \in DOMAIN tasks
      PROVE  tasks[k] = AskedTask(Nth(k))
  <2>1. PICK r \in Runs : Rank(r) = k - 1 /\ tasks[k] = AskedTask(r)
    BY DEF Understood
  <2>2. Nth(k) \in Runs /\ Rank(Nth(k)) = k - 1
    BY <2>1 DEF Rank
  <2>3. Nth(k) = r
    <3>1. r \in Int /\ Nth(k) \in Int
      BY <2>1, <2>2, RunsType
    <3>2. ~(r < Nth(k)) /\ ~(Nth(k) < r)
      BY <2>1, <2>2, RankUnique
    <3> QED
      BY <3>1, <3>2
  <2> QED
    BY <2>1, <2>3
<1> HIDE DEF Nth
<1>3. AskedTasks = [k \in 1..Cardinality(Runs) |-> AskedTask(Nth(k))]
  BY DEF AskedTasks, Nth
<1> QED
  BY <1>1, <1>2, <1>3

\* For every command line that keeps to the help text and does not give the size
\* of the disk file, of any length: every stressor gets the last valid value of
\* each of its own options and the global ones, and nothing of its neighbours'
\* (parse_opts).  A line with -d or --disk-file-size is not Supported, for the code
\* does not do what the help text says of them.
THEOREM LineAsAsked == Spec => []AsAsked
<1> DEFINE UInv == Supported => Understood
<1>1. Init => UInv
  BY InitUnderstood
<1>2. TypeOK /\ UInv /\ [Next]_vars => UInv'
  BY StepUnderstood
<1>3. TypeOK /\ UInv => AsAsked
  BY UnderstoodAsAsked
<1> QED
  BY <1>1, <1>2, <1>3, CommandLineTypeCorrect, PTL DEF Spec

-----------------------------------------------------------------------------
\* The launcher of Program is the one LauncherProofs is about.
LP == INSTANCE LauncherProofs WITH jobs <- Jobs, parallel <- Together, JobLists <- {}

LEMMA SlotsOfTable ==
  /\ Slots \in Nat
  /\ {} \subseteq Seq([udp : BOOLEAN, mayFail : BOOLEAN, ends : BOOLEAN, threads : Nat \ {0}])
BY SlotsAssumption

LEMMA SameIdle == L!Idle <=> LP!Idle
BY DEF L!Idle, LP!Idle

LEMMA SameInstances == \A k : L!Instances(k) = LP!Instances(k)
BY DEF L!Instances, LP!Instances

LEMMA SameMain == L!Main <=> LP!Main
BY DEF L!Main, L!Enter, L!EntryFails, L!StartInstance, L!AllStarted, L!Joins, L!WaitForAll,
   L!LeaveToMain, L!Join, L!Leave, L!AllTasksDone, L!JoinLast, L!Exit,
   LP!Main, LP!Enter, LP!EntryFails, LP!StartInstance, LP!AllStarted, LP!Joins, LP!WaitForAll,
   LP!LeaveToMain, LP!Join, LP!Leave, LP!AllTasksDone, LP!JoinLast, LP!Exit

LEMMA SameEnd == L!EndSome <=> LP!EndSome
BY DEF L!EndSome, L!End, LP!EndSome, LP!End, L!mainVars, LP!mainVars

\* What parse_opts leaves is a list of tasks the launcher may start on.
LEMMA JobsType ==
  ASSUME TypeOK
  PROVE  Jobs \in Seq(LP!Job) /\ Together \in BOOLEAN
<1>1. ASSUME NEW t \in Task
      PROVE  [udp |-> t.name \in Udp, mayFail |-> t.name \in Udp \cup {"mem-bw"},
              ends |-> Bounded(t), threads |-> t.threads] \in LP!Job
  <2>1. t.threads \in Nat \ {0}
    BY CommandLineAssumption DEF Task
  <2>2. Bounded(t) \in BOOLEAN
    BY DEF Bounded
  <2> QED
    BY <2>1, <2>2 DEF LP!Job
<1>2. DOMAIN tasks = 1..Len(tasks) /\ Len(tasks) \in Nat /\ \A k \in DOMAIN tasks : tasks[k] \in Task
  BY DEF TypeOK
<1>3. Jobs \in Seq(LP!Job)
  BY <1>1, <1>2 DEF Jobs
<1> QED
  BY <1>3 DEF Together

\* The invariant of the launcher on these tasks, from the start of parse_opts on.
Ready == LP!LInv /\ LP!StartedInv /\ LP!UsedInv
Unstarted == LP!Idle
Waits == phase # "parsed" => Unstarted

LEMMA UnstartedReady == TypeOK /\ Unstarted => Ready
<1> SUFFICES ASSUME TypeOK, LP!Idle PROVE Ready
  BY DEF Unstarted
<1>1. LP!LInv
  BY JobsType, SlotsOfTable, LP!IdleLInv
<1> QED
  BY <1>1, SlotsOfTable, LP!IdleStarted, LP!IdleUsed DEF Ready

LEMMA ProgramTypeOK == ProgramSpec => []TypeOK
<1>1. ProgramInit => TypeOK
  BY InitTypeOK DEF ProgramInit
<1>2. TypeOK /\ [ProgramNext]_programVars => TypeOK'
  <2> SUFFICES ASSUME TypeOK, [ProgramNext]_programVars PROVE TypeOK'
    OBVIOUS
  <2>1. [Next]_vars
    BY DEF ProgramNext, Parse, Launch, InstanceEnds, programVars
  <2> QED
    BY <2>1, NextTypeOK
<1> QED
  BY <1>1, <1>2, PTL DEF ProgramSpec

LEMMA WaitsAlways == ProgramSpec => []Waits
<1>1. ProgramInit => Waits
  BY SameIdle DEF ProgramInit, Waits, Unstarted
<1>2. Waits /\ [ProgramNext]_programVars => Waits'
  <2> SUFFICES ASSUME Waits, [ProgramNext]_programVars, phase' # "parsed" PROVE Unstarted'
    BY DEF Waits
  <2>1. phase # "parsed" /\ UNCHANGED launcherVars
    BY DEF ProgramNext, Parse, Launch, InstanceEnds, programVars, vars, Next, Run, RunUnknown,
       Limited, LimitedDefault, Ninstance, Time, Strength, MemBandwidth, CacheSizeOption, PageTot,
       DiskfileSize, PackSize, PackPerSec, Addr, AddrTo, Period, Flag, Check, Unknown, End,
       Ignore, Put, Read
  <2> QED
    BY <2>1 DEF Waits, Unstarted, LP!Idle, launcherVars
<1> QED
  BY <1>1, <1>2, PTL DEF ProgramSpec

\* A step of main or of an instance is one of the launcher; parse_opts has not
\* started it yet.
LEMMA ReadySteps ==
  ASSUME Ready, Waits, [ProgramNext]_programVars
  PROVE  Ready' \/ Unstarted'
<1>1. CASE Parse
  <2>1. Unstarted /\ UNCHANGED launcherVars
    BY <1>1 DEF Parse, Waits, Next, Run, RunUnknown,
       Limited, LimitedDefault, Ninstance, Time, Strength, MemBandwidth, CacheSizeOption, PageTot,
       DiskfileSize, PackSize, PackPerSec, Addr, AddrTo, Period, Flag, Check, Unknown, End,
       Ignore, Put, Read
  <2> QED
    BY <2>1 DEF Unstarted, LP!Idle, launcherVars
<1>2. CASE ~Parse
  <2>1. [LP!Next]_LP!vars
    <3>1. CASE UNCHANGED programVars
      BY <3>1 DEF programVars, vars, launcherVars, LP!vars, LP!mainVars, Jobs, Together, Bounded
    <3> QED
      BY <1>2, <3>1, SameMain, SameEnd DEF ProgramNext, Launch, InstanceEnds, LP!Next
  <2> QED
    BY <2>1, SlotsOfTable, LP!NextLInv, LP!StartedSteps, LP!UsedInvSteps DEF Ready
<1> QED
  BY <1>1, <1>2

LEMMA ReadyAlways == ProgramSpec => []Ready
<1>1. ProgramInit => Unstarted
  BY SameIdle DEF ProgramInit, Unstarted
<1>2. Ready /\ Waits /\ [ProgramNext]_programVars => Ready' \/ Unstarted'
  BY ReadySteps
<1> QED
  BY <1>1, <1>2, UnstartedReady, ProgramTypeOK, WaitsAlways, PTL DEF ProgramSpec

LEMMA ReadyAsMany ==
  ASSUME TypeOK, Ready
  PROVE  AsManyAsAsked
<1>1. DOMAIN Jobs = DOMAIN tasks /\ \A k \in DOMAIN tasks : Jobs[k].threads = tasks[k].threads
  BY DEF Jobs
<1>2. \A k \in DOMAIN tasks : tasks[k].threads \in 1..Cpus
  <2>1. \A t \in Task : t.threads \in 1..Cpus
    BY DEF Task
  <2>2. \A k \in DOMAIN tasks : tasks[k] \in Task
    BY DEF TypeOK
  <2> QED
    BY <2>1, <2>2
<1>3. ASSUME NEW x \in running \cup ended
      PROVE  x[2] <= Cpus
  <2>1. x[1] \in DOMAIN Jobs /\ x[2] \in 1..Jobs[x[1]].threads
    BY DEF Ready, LP!LInv, LP!TypeOK
  <2> QED
    BY <1>1, <1>2, <2>1, CommandLineAssumption
<1>4. ASSUME main = "exit", NEW k \in DOMAIN tasks
      PROVE  Jobs[k].mayFail \/ L!Instances(k) \subseteq ended
  <2>1. LP!ExitIsClean
    BY SlotsOfTable, LP!CleanExit DEF Ready
  <2> QED
    BY <1>1, <1>4, <2>1, SameInstances DEF LP!ExitIsClean
<1> QED
  BY <1>3, <1>4 DEF AsManyAsAsked

\* For every command line: no instance has a number beyond the processors, and
\* at the exit all those have ended that the tasks with no entry that may fail
\* ask for (parse_opts and main together).
THEOREM ProgramStartsAsMany == ProgramSpec => []AsManyAsAsked
<1>1. TypeOK /\ Ready => AsManyAsAsked
  BY ReadyAsMany
<1> QED
  BY <1>1, ProgramTypeOK, ReadyAlways, PTL

LEMMA SameLeftRunning == \A n : L!LeftRunning(n) = LP!LeftRunning(n)
BY SameInstances DEF L!LeftRunning, LP!LeftRunning, L!Joins, LP!Joins

\* For every command line: no thread object is destroyed while its thread runs,
\* main returns only when no instance runs any more, and the table of threads is
\* overrun only by more instances than it has slots.
THEOREM ProgramLosesNoThread ==
  ProgramSpec => [](L!NoThreadLost /\ L!ExitIsClean /\ L!TableOverflow)
<1>1. Ready => L!NoThreadLost /\ L!ExitIsClean /\ L!TableOverflow
  <2> SUFFICES ASSUME Ready PROVE L!NoThreadLost /\ L!ExitIsClean /\ L!TableOverflow
    OBVIOUS
  <2>1. L!NoThreadLost
    BY DEF Ready, LP!LInv, LP!NoThreadLost, LP!Held, L!NoThreadLost, L!Held
  <2>2. LP!ExitIsClean
    BY SlotsOfTable, LP!CleanExit DEF Ready
  <2>3. L!ExitIsClean
    BY <2>2, SameInstances DEF LP!ExitIsClean, L!ExitIsClean
  <2>4. L!TableOverflow
    <3>1. L!LeftRunning(at) = LP!LeftRunning(at)
      BY SameLeftRunning
    <3>2. \A S : L!Cardinality(S) = LP!Cardinality(S)
      BY Zenon DEF L!Cardinality, LP!Cardinality
    <3> QED
      BY <3>1, <3>2 DEF Ready, LP!UsedInv, LP!TableOverflow, L!TableOverflow
  <2> QED
    BY <2>1, <2>3, <2>4
<1> QED
  BY <1>1, ReadyAlways, PTL

\* On such a line the tasks that come to their end are those of the line: when
\* main returns, every instance has ended that a stressor with no entry that may
\* fail was asked for, with its own -n (parse_opts, main and Join together).
LineIsRun ==
  Supported /\ main = "exit" =>
    \A k \in DOMAIN AskedTasks :
      \/ AskedTasks[k].name \in Udp \cup {"mem-bw"}
      \/ {<<k, i>> : i \in 1..AskedTasks[k].threads} \subseteq ended

LEMMA ProgramAsAsked == ProgramSpec => []AsAsked
<1> DEFINE UInv == Supported => Understood
<1>1. ProgramInit => UInv
  BY InitUnderstood DEF ProgramInit
<1>2. TypeOK /\ UInv /\ [ProgramNext]_programVars => UInv'
  <2>1. [ProgramNext]_programVars => [Next]_vars
    BY DEF ProgramNext, Parse, Launch, InstanceEnds, programVars
  <2> QED
    BY <2>1, StepUnderstood
<1>3. TypeOK /\ UInv => AsAsked
  BY UnderstoodAsAsked
<1> QED
  BY <1>1, <1>2, <1>3, ProgramTypeOK, PTL DEF ProgramSpec

LEMMA AskedIsRun ==
  ASSUME TypeOK, AsAsked, AsManyAsAsked, Waits
  PROVE  LineIsRun
<1> SUFFICES ASSUME Supported, main = "exit", NEW k \in DOMAIN AskedTasks,
                    AskedTasks[k].name \notin Udp \cup {"mem-bw"}
             PROVE  {<<k, i>> : i \in 1..AskedTasks[k].threads} \subseteq ended
  BY DEF LineIsRun
<1>1. phase = "parsed"
  BY DEF Waits, Unstarted, LP!Idle
<1>2. tasks = AskedTasks
  BY <1>1 DEF AsAsked
<1>3. k \in DOMAIN tasks /\ tasks[k].name \notin Udp \cup {"mem-bw"}
  BY <1>2
<1>4. ~Jobs[k].mayFail /\ Jobs[k].threads = tasks[k].threads
  BY <1>3 DEF Jobs
<1>5. L!Instances(k) \subseteq ended
  BY <1>3, <1>4 DEF AsManyAsAsked
<1>6. L!Instances(k) = {<<k, i>> : i \in 1..tasks[k].threads}
  BY <1>4 DEF L!Instances
<1> QED
  BY <1>2, <1>5, <1>6

\* For every supported command line, of any length: main returns only when every
\* instance the line asks for has ended, those of entries that may fail apart.
THEOREM ProgramRunsTheLine == ProgramSpec => []LineIsRun
BY AskedIsRun, ProgramTypeOK, ProgramAsAsked, ProgramStartsAsMany, WaitsAlways, PTL
=============================================================================
