------------------------------- MODULE Usage -------------------------------
(***************************************************************************)
(* What a command line means to who reads the help text of rbench.cpp      *)
(* (help_entrys, lines 11 to 34), stated over the whole line at once, and  *)
(* what parse_opts makes of it.  The help text gives neither the defaults  *)
(* nor the bounds a value is cut to: these two are the code's.             *)
(***************************************************************************)
EXTENDS CommandLine, FiniteSetsExt

Runs == {i \in DOMAIN line : line[i].opt = "run" /\ line[i].name \in Stressors}
RunOf(i) == Max({r \in Runs : r < i})

\* "-d N, --disk-file-size=N: (stressor, disk) Set the disk file size to N bytes"
DiskSize == {"d", "disk-file-size"}

\* The options the help text has for a stressor; --diskfile-size is none of them.
\* "PLEASE specify the benchmark project BEFORE specifying the runtime parameters"
Suits(o, name) ==
  \/ o.opt \in {"limited", "limited-default", "ninstance", "time", "period"}
  \/ o.opt = "strength"      /\ name \notin Udp \cup {"mem-bw", "disk-write"}
  \/ o.opt = "mem-bandwidth" /\ name = "mem-bw"
  \/ o.opt = "cache-size"    /\ name \in Caches \cup {"cache"}
  \/ o.opt = "page-tot"      /\ name = "tlb"
  \/ o.opt \in DiskSize         /\ name = "disk-write"
  \/ o.opt \in {"pack-size", "pack-per-sec", "addr", "addr-to"} /\ name \in Udp

Placed(i) ==
  \/ line[i].opt \in Flags
  \/ i \in Runs
  \/ \E r \in Runs : r < i /\ Suits(line[i], line[RunOf(i)].name)

\* Lines as the help text has them.  --check is not placed: it is to be "present"
\* alone, all other options being ignored.
Proper == \A i \in DOMAIN line : Placed(i)

\* What the help text offers and parse_opts does not do: it drops -d, and getopt
\* knows no --disk-file-size.  No documented option sets the size of the file.
SizesDisk == \E i \in DOMAIN line : line[i].opt \in DiskSize

Supported == Proper /\ ~SizesDisk

\* The options of the stressor named at r, and the one of them that counts: the
\* last, not counting refused ones.
Own(r, names) == {i \in DOMAIN line \ Runs :
  /\ r < i
  /\ \A q \in Runs : q < i => q <= r
  /\ line[i].opt \in names
  /\ line[i].opt \in {"pack-size", "pack-per-sec"} => line[i].n > 0
  /\ line[i].opt \in {"addr", "addr-to"} => line[i].n # Malformed}

Asked(r, name, default) ==
  IF Own(r, {name}) = {} THEN default ELSE line[Max(Own(r, {name}))].n

NotBelow(v, low) == IF v < low THEN low ELSE v

\* A cache size on the line is a 32-bit number; that of the machine is what it is.
AskedCache(r, default) ==
  IF Own(r, {"cache-size"}) = {} THEN default ELSE Asked(r, "cache-size", default) % Half

AskedRounds(r) ==
  LET own == Own(r, {"limited", "limited-default"}) IN
  CASE own = {} -> 0
    [] own # {} -> IF line[Max(own)].opt = "limited" THEN line[Max(own)].n ELSE DefaultRounds

AskedWord(r) ==
  LET name == line[r].name IN
  CASE name = "mem-bw"     -> Whole(Mega * NotBelow(Asked(r, "mem-bandwidth", 0), 0))
    [] name = "cache"      -> Whole(AskedCache(r, 0))
    [] name \in Caches     -> Whole(AskedCache(r, CacheSize[LevelOf[name]]))
    [] name = "tlb"        -> Whole(Mega * Asked(r, "page-tot", 8 * 1024))
    [] name = "disk-write" -> Whole(IF Own(r, DiskSize) = {} THEN 1024 * Mega
                                    ELSE line[Max(Own(r, DiskSize))].n)
    [] name \in Udp        -> [lo |-> Asked(r, "pack-per-sec", 0), hi |-> Asked(r, "pack-size", 64)]
    [] OTHER               -> Whole(0)

AskedFlags(r) ==
  (IF Own(r, {"limited", "limited-default"}) = {} THEN {} ELSE {"limited"})
  \cup {f \in Flags : \E i \in DOMAIN line : line[i].opt = f}

AskedTask(r) == [
  name     |-> line[r].name,
  threads  |-> Clamp(Asked(r, "ninstance", 1), 1, Cpus),
  strength |-> Clamp(Asked(r, "strength", 100), 1, 100),
  rounds   |-> AskedRounds(r),
  time     |-> NotBelow(Asked(r, "time", 0), 0),
  flags    |-> AskedFlags(r),
  period   |-> Asked(r, "period", 100000) % Half,
  netaddr  |-> NetAddress(Asked(r, "addr", AnyAddress)),
  to_addr  |-> NetAddress(Asked(r, "addr-to", AnyAddress)),
  word     |-> AskedWord(r)]

AskedTasks == [k \in 1..Cardinality(Runs) |->
  AskedTask(CHOOSE r \in Runs : Cardinality({q \in Runs : q < r}) = k - 1)]

-----------------------------------------------------------------------------
Address == [ip : Ips, port : 0..65535]

Task == [
  name : Stressors, threads : 1..Cpus, strength : 1..100, rounds : Int, time : Nat,
  flags : SUBSET (Flags \cup {"check", "limited"}), period : 0..Half - 1,
  netaddr : Address, to_addr : Address, word : [lo : Int, hi : Int]]

\* Whatever is on the line, what parse_opts stores fits the fields it is cast to:
\* a strength is a percentage and no more instances are started than there are
\* processors.
TypeOK ==
  /\ line \in Seq(Options)
  /\ phase \in {"parsing", "parsed", "undefined"}
  /\ flags \subseteq Flags \cup {"check", "limited"}
  /\ tasks \in Seq(Task)
  /\ target \in 0..Len(tasks)

\* A line written as the help text asks for is understood, with one exception:
\* every stressor gets the last valid value of each of its own options and of the
\* global ones, given before it or after it, and nothing of its neighbours'
\* (parse_opts).  The exception is a line that gives the size of the disk file,
\* which the program does not do what its help text says for (SizesDisk); and the
\* undocumented --diskfile-size, in megabytes, makes a line not Proper.
AsAsked == Supported =>
  /\ phase # "undefined"
  /\ phase = "parsed" => tasks = AskedTasks
=============================================================================
