---------------------------- MODULE CommandLine ----------------------------
(***************************************************************************)
(* parse_opts of rbench.cpp: one action per option, in the order the       *)
(* options are read.  A task is what -r appends to bench_tasks; target is  *)
(* where pargs points, 0 being null_buffer, whose contents nobody reads.   *)
(*                                                                         *)
(* The settings in the union of bench_args_t are one 64-bit word of two    *)
(* halves: lo is network_pps, hi is network_psize, and the sizes and the   *)
(* bandwidth are the whole word.                                           *)
(***************************************************************************)
EXTENDS Integers, Sequences, SequencesExt

CONSTANTS
  Options,        \* what may be given: [opt |-> "run", name |-> ...] or [opt |-> ..., n |-> ...]
  MaxOptions,     \* bound: options on one command line
  Cpus,           \* cpuinfo.online_count
  CacheSize,      \* cpuinfo.get_data_cache_size_level of 1, 2 and 3
  Mega,           \* MB; 2^20 in the code
  Half,           \* 2^32 in the code
  DefaultRounds   \* bench_funcs_limited_default, the same for every stressor

ASSUME CommandLineAssumption ==
  /\ MaxOptions \in Nat
  /\ {Cpus, Mega, Half, DefaultRounds} \subseteq Nat \ {0}
  /\ Half > 100000              \* the default period
  /\ CacheSize \in [1..3 -> Nat]

\* The "0" of an address nobody gave, and those given.
Ips == {"0"} \cup {a.n.ip : a \in {o \in Options : o.opt \in {"addr", "addr-to"}}}

\* atoi makes a number of anything; an address is split at its colon.
ASSUME OptionsAssumption == \A o \in Options :
  /\ o.opt \in {"limited", "ninstance", "time", "strength", "mem-bandwidth", "cache-size",
                "page-tot", "diskfile-size", "pack-size", "pack-per-sec", "period"} => o.n \in Int
  /\ o.opt \in {"addr", "addr-to"} => o.n \in [ip : Ips, port : Int]

VARIABLES
  line,           \* history: the options read so far
  tasks,          \* bench_tasks
  target,         \* the task pargs points at
  flags,          \* global_flag
  phase           \* "parsing", "parsed", or "undefined" after a use of end()

vars == <<line, tasks, target, flags, phase>>

Udp == {"udp-client", "udp-server"}
Caches == {"cacheL1", "cacheL2", "cacheL3"}
Stressors == Caches \cup Udp \cup
  {"cache", "cpu-int", "cpu-float", "cpu-l1i", "simd-avx", "simd-avx512", "tlb", "mem-bw", "disk-write"}

LevelOf == [cacheL1 |-> 1, cacheL2 |-> 2, cacheL3 |-> 3]
CheckedNames == <<"cpu-int", "cpu-float", "simd-avx", "simd-avx512", "cpu-l1i",
                  "cacheL1", "cacheL2", "cacheL3", "tlb", "mem-bw">>

Whole(v) == [lo |-> v % Half, hi |-> (v \div Half) % Half]
ClampBad(v, lo, hi) == IF v < lo THEN lo ELSE v

Clamp(v, lo, hi) == IF v < lo THEN lo ELSE IF v > hi THEN hi ELSE v
\* The comparison is unsigned: a negative number counts as a large one.
HundredMegaAtLeast(v) == IF v \in 0..100 * Mega THEN 100 * Mega ELSE v

AnyAddress == [ip |-> "0", port |-> 0]
Malformed == [ip |-> "", port |-> 0]

\* bench_args_t() and what the constructor leaves to -r.
Blank(name) == [name |-> name, threads |-> 1, strength |-> 100, rounds |-> 0,
                time |-> 0, flags |-> {}, period |-> 100000, word |-> Whole(0),
                netaddr |-> AnyAddress, to_addr |-> AnyAddress]

DefaultWord(name) ==
  CASE name = "tlb"        -> Whole(8 * 1024 * Mega)
    [] name = "disk-write" -> Whole(1024 * Mega)
    [] name \in Caches     -> Whole(CacheSize[LevelOf[name]])
    [] name \in Udp        -> [lo |-> 0, hi |-> 64]
    [] OTHER               -> Whole(0)

NewTask(name) == [Blank(name) EXCEPT !.word = DefaultWord(name)]

\* The tasks of --check; cpu-l1i gets the size of the first level too.
CheckTask(name) ==
  IF name = "cpu-l1i" THEN [Blank(name) EXCEPT !.word = Whole(CacheSize[1])] ELSE NewTask(name)

Limit(task) == [task EXCEPT !.rounds = DefaultRounds]

Init == line = <<>> /\ tasks = <<>> /\ target = 0 /\ flags = {} /\ phase = "parsing"

-----------------------------------------------------------------------------
Given(name) == {o \in Options : o.opt = name}

\* The loop stops before the next option once --check was read.
Read(o) ==
  /\ phase = "parsing"
  /\ "check" \notin flags
  /\ Len(line) < MaxOptions
  /\ line' = Append(line, o)

Args == IF target = 0 THEN Blank("") ELSE tasks[target]

\* An assignment through pargs.
Put(o, args) ==
  /\ Read(o)
  /\ tasks' = IF target = 0 THEN tasks ELSE [tasks EXCEPT ![target] = args]
  /\ UNCHANGED <<target, flags, phase>>

Ignore(o) == Put(o, Args)

Run == \E o \in Given("run") :
  /\ o.name \in Stressors
  /\ Read(o)
  /\ tasks' = Append(tasks, NewTask(o.name))
  /\ target' = Len(tasks')
  /\ UNCHANGED <<flags, phase>>

RunUnknown == \E o \in Given("run") : o.name \notin Stressors /\ Ignore(o)

Limited == \E o \in Given("limited") :
  Put(o, [Args EXCEPT !.rounds = o.n, !.flags = @ \cup {"limited"}])

\* -l without "=": find() of a name that is not in the table is end().
LimitedDefault == \E o \in Given("limited-default") :
  /\ Read(o)
  /\ IF target = 0
     THEN phase' = "undefined" /\ UNCHANGED tasks
     ELSE /\ tasks' = [tasks EXCEPT ![target] = [Limit(Args) EXCEPT !.flags = @ \cup {"limited"}]]
          /\ UNCHANGED phase
  /\ UNCHANGED <<target, flags>>

NinstanceBad == \E o \in Given("ninstance") : Put(o, [Args EXCEPT !.threads = o.n])

Ninstance == \E o \in Given("ninstance") : Put(o, [Args EXCEPT !.threads = Clamp(o.n, 1, Cpus)])

Time == \E o \in Given("time") : Put(o, [Args EXCEPT !.time = IF o.n <= 0 THEN 0 ELSE o.n])

\* The names tried are "mem-bw", "udp_" and "disk": none is a UDP stressor's.
Strength == \E o \in Given("strength") :
  IF Args.name \in {"mem-bw", "disk-write"}
  THEN Ignore(o)
  ELSE Put(o, [Args EXCEPT !.strength = Clamp(o.n, 1, 100)])

MemBandwidth == \E o \in Given("mem-bandwidth") :
  Put(o, [Args EXCEPT !.word = Whole(IF o.n <= 0 THEN 0 ELSE Mega * o.n)])

CacheSizeOption == \E o \in Given("cache-size") : Put(o, [Args EXCEPT !.word = Whole(o.n % Half)])

PageTot == \E o \in Given("page-tot") : Put(o, [Args EXCEPT !.word = Whole(Mega * o.n)])

DiskfileSize == \E o \in Given("diskfile-size") :
  Put(o, [Args EXCEPT !.word = Whole(HundredMegaAtLeast(Mega * o.n))])

PackSizeBad == \E o \in Given("pack-size") :
  IF o.n <= 0 THEN Ignore(o) ELSE Put(o, [Args EXCEPT !.word = Whole(o.n)])

PackSize == \E o \in Given("pack-size") :
  IF o.n <= 0 THEN Ignore(o) ELSE Put(o, [Args EXCEPT !.word.hi = o.n])

PackPerSec == \E o \in Given("pack-per-sec") :
  IF o.n <= 0 THEN Ignore(o) ELSE Put(o, [Args EXCEPT !.word.lo = o.n])

\* Cast to unsigned short.
NetAddress(a) == [a EXCEPT !.port = @ % 65536]

\* An address with no colon or more than one is refused.
Addr == \E o \in Given("addr") :
  IF o.n = Malformed THEN Ignore(o) ELSE Put(o, [Args EXCEPT !.netaddr = NetAddress(o.n)])

AddrTo == \E o \in Given("addr-to") :
  IF o.n = Malformed THEN Ignore(o) ELSE Put(o, [Args EXCEPT !.to_addr = NetAddress(o.n)])

\* A small period is warned about and stored; a negative one wraps around.
Period == \E o \in Given("period") : Put(o, [Args EXCEPT !.period = o.n % Half])

Flags == {"parallel", "debug", "no-warn"}

Flag == \E f \in Flags : \E o \in Given(f) :
  Read(o) /\ flags' = flags \cup {f} /\ UNCHANGED <<tasks, target, phase>>

CheckUnlimitedBad == \E o \in Given("check") :
  /\ Read(o)
  /\ flags' = flags \cup {"check"}
  /\ tasks' = [k \in 1..Len(tasks) + Len(CheckedNames) |->
                 Limit(IF k <= Len(tasks) THEN tasks[k] ELSE CheckTask(CheckedNames[k - Len(tasks)]))]
  /\ target' = Len(tasks')
  /\ UNCHANGED phase

Check == \E o \in Given("check") :
  /\ Read(o)
  /\ flags' = flags \cup {"check", "limited"}
  /\ tasks' = [k \in 1..Len(tasks) + Len(CheckedNames) |->
                 Limit(IF k <= Len(tasks) THEN tasks[k] ELSE CheckTask(CheckedNames[k - Len(tasks)]))]
  /\ target' = Len(tasks')
  /\ UNCHANGED phase

\* An option getopt_long has no entry for, and -d, which has no case.
Unknown == \E o \in Given("d") \cup Given("disk-file-size") : Ignore(o)

EndBad == phase = "parsing" /\ phase' = "parsed" /\ UNCHANGED <<line, tasks, target, flags>>

End ==
  /\ phase = "parsing"
  /\ phase' = "parsed"
  /\ tasks' = [k \in DOMAIN tasks |-> [tasks[k] EXCEPT !.flags = @ \cup flags]]
  /\ UNCHANGED <<line, target, flags>>

Next ==
  \/ Run \/ RunUnknown \/ Limited \/ LimitedDefault \/ Ninstance \/ Time \/ Strength
  \/ MemBandwidth \/ CacheSizeOption \/ PageTot \/ DiskfileSize \/ PackSize \/ PackPerSec
  \/ Addr \/ AddrTo \/ Period \/ Flag \/ Check \/ Unknown \/ End

Spec == Init /\ [][Next]_vars /\ WF_vars(Next)
=============================================================================
