------------------------------ MODULE Buffers ------------------------------
(***************************************************************************)
(* The memory that the stressors cache, tlb and mem-bw map, and where      *)
(* their kernels write: below a random bound, on random pages, or in a     *)
(* slice of one array that the instances of mem-bw share; and the payload  *)
(* that an instance of udp-client allocates, fills and sends from.  All    *)
(* but mem-bw have memory of their own; such an instance is alone here.    *)
(*                                                                         *)
(* Addresses count bytes; mmap returns the start of a page.  WordSize      *)
(* stands for 2^32, in which the code computes some of its sizes.          *)
(***************************************************************************)
EXTENDS Integers, Sequences, FiniteSetsExt

CONSTANTS
    Page,          \* cpuinfo.page_size
    Elem,          \* sizeof( stream_type )
    WordSize,      \* the values of uint32_t
    Sysfs,         \* what /sys says of the caches: sequences of entries
    Sizes,
    Counts,
    Blocks,        \* what mmap returns
    InformSize     \* TOUCH_INFO_SIZE

ASSUME BufferAssumption ==
    /\ Page \in Nat \ {0} /\ Elem \in Nat \ {0} /\ WordSize \in Nat \ {0}
    /\ InformSize \in Nat /\ InformSize > 3
    /\ Sizes \subseteq Nat /\ Counts \subseteq Nat \ {0}
    /\ Blocks \subseteq Nat /\ \A b \in Blocks : b % Page = 0
    /\ Sysfs \subseteq Seq([type : STRING, level : Nat, line : Nat, number : Nat,
                            suffix : STRING])

VARIABLES
    kind,          \* cache, tlb, mem-bw or payload
    caches,        \* cpuinfo.caches
    size, count,   \* args: cache_size, tlb_page_tot or network_psize; threads
    block,         \* what mmap or new returned
    run,           \* start, run, crash or exit
    ptr,           \* array_ptr of each instance
    at             \* the address each instance wrote last

bufVars == <<kind, caches, size, count, block, run, ptr, at>>

UniversalLine == 64
Untouched == -1

NoEntry == "none"

Unit(suffix) == CASE suffix = "K" -> 1024 [] suffix = "M" -> 1024 * 1024
                  [] suffix = "G" -> 1024 * 1024 * 1024 [] OTHER -> 1

(* read_cpuinfo: the entries before the first that is not there, each with *)
(* its size in bytes.  An unknown suffix is reported and ignored.          *)
ReadCaches(sys) ==
    LET gone == {i \in 1 .. Len(sys) : sys[i].type = NoEntry}
        last == IF gone = {} THEN Len(sys) ELSE Min(gone) - 1
    IN  [i \in 1 .. last |->
            [type |-> sys[i].type, level |-> sys[i].level, line |-> sys[i].line,
             size |-> sys[i].number * Unit(sys[i].suffix)]]

(* get_data_cache_size_level: the first that fits, or 0.                   *)
DataCacheSize(level) ==
    LET fits == {i \in DOMAIN caches : /\ caches[i].level = level
                                       /\ caches[i].type \in {"Unified", "Data"}}
    IN  IF fits = {} THEN 0 ELSE caches[Min(fits)].size

(* cache_bench_entry: the line of the last cache that is too small.        *)
LineSize ==
    LET small == {i \in DOMAIN caches : /\ caches[i].type # "Instruction"
                                        /\ size > caches[i].size}
    IN  IF small = {} THEN UniversalLine ELSE caches[Max(small)].line

-----------------------------------------------------------------------------
Align == IF kind = "cache" THEN LineSize ELSE Page

AlignedBad == block + 2 * Align - (block % Align)

Aligned == block + Align - (block % Align)

(* mem_bw_bench_entry: six times L3 elements, shared by the instances.     *)
ArrayLen == DataCacheSize(3) * 6
SliceLen == ArrayLen \div count
Slice(i) == SliceLen * i

(* What is passed to mmap or to new.                                       *)
Mapped ==
    CASE kind = "cache"  -> (size + Align) % WordSize
      [] kind = "tlb"    -> size + Align
      [] kind = "mem-bw" -> ArrayLen * Elem + Align
      [] kind = "payload" -> size

Instances == 0 .. count - 1

BufFrom(k, sys, s, threads, b) ==
    /\ kind = k
    /\ caches = ReadCaches(sys)
    /\ size = s /\ count = threads
    /\ block = b
    /\ run = "start"
    /\ ptr = [i \in Instances |-> 0]
    /\ at = [i \in Instances |-> Untouched]

BufInit ==
    \E k \in {"cache", "tlb", "mem-bw", "payload"}, sys \in Sysfs, s \in Sizes,
       threads \in Counts, b \in Blocks :
        /\ k # "mem-bw" => threads = 1
        /\ k = "payload" => s > 0
        /\ BufFrom(k, sys, s, threads, b)

(* mmap failed twice, as it does for nothing at all, or the size does not  *)
(* fit in uint32_t.                                                        *)
GiveUp ==
    /\ run = "start"
    /\ run' = "exit"
    /\ UNCHANGED <<kind, caches, size, count, block, ptr, at>>

(* A division by zero: of the alignment, or of the rounds to calibrate.    *)
Divides == Align = 0 \/ (kind = "cache" /\ size = 0)

MapBuffer ==
    /\ run = "start"
    /\ kind = "cache" => size < WordSize
    /\ Mapped > 0
    /\ run' = IF Divides THEN "crash" ELSE "run"
    /\ UNCHANGED <<kind, caches, size, count, block, ptr, at>>

Touch(i, address) == at' = [at EXCEPT ![i] = address]

(* mwc32modn_maybe_pwr2(cache_size): any value below it.                   *)
CacheKernel(i) ==
    /\ run = "run" /\ kind = "cache"
    /\ \E draw \in 0 .. size - 1 : Touch(i, Aligned + draw)
    /\ UNCHANGED <<kind, caches, size, count, block, run, ptr>>

(* mwc32modn(page_tot): any value below it, and 0 if it is 0.              *)
PageDraws == 0 .. Max({size \div Page, 1}) - 1

PageOf(draw) == (draw - 1) % WordSize

TlbKernel(i) ==
    /\ run = "run" /\ kind = "tlb"
    /\ \E draw \in PageDraws : Touch(i, Aligned + PageOf(draw) * Page)
    /\ UNCHANGED <<kind, caches, size, count, block, run, ptr>>

AfterBad(p) == IF p + 1 > SliceLen THEN 0 ELSE p + 1

After(p) == IF p + 1 >= SliceLen THEN 0 ELSE p + 1

MemBwKernel(i) ==
    /\ run = "run" /\ kind = "mem-bw"
    /\ Touch(i, Aligned + Elem * (Slice(i) + ptr[i]))
    /\ ptr' = [ptr EXCEPT ![i] = After(@)]
    /\ UNCHANGED <<kind, caches, size, count, block, run>>

(* fill_array: its pointer never advances, so that every word it draws     *)
(* goes to the first four bytes.                                           *)
FillOffsets(len) ==
    (IF len > 0 THEN 0 .. 3 ELSE {}) \cup {len - 1 - i : i \in 0 .. (len % 4) - 1}

ChecksumOffsets(len) == {0, len - 1} \cup (IF len > 2 THEN {1} ELSE {})

(* Filled, given a checksum, and sent as the datagram that tells the       *)
(* server thread the address, which is as long as a touch.                 *)
Payload(i) ==
    /\ run = "run" /\ kind = "payload"
    /\ \E off \in FillOffsets(size) \cup ChecksumOffsets(size) \cup 0 .. InformSize - 1 :
         Touch(i, block + off)
    /\ UNCHANGED <<kind, caches, size, count, block, run, ptr>>

Kernel(i) == CacheKernel(i) \/ TlbKernel(i) \/ MemBwKernel(i) \/ Payload(i)

BufNext == GiveUp \/ MapBuffer \/ \E i \in Instances : Kernel(i)

-----------------------------------------------------------------------------
(* The ways in which an instance leaves its memory: the size of the        *)
(* mapping wrapped around, a page was drawn as 0 and became 2^32-1, there  *)
(* is no third-level cache to size the array by, or the payload is shorter *)
(* than the first datagram sent from it.                                   *)
MappingWrapped == kind = "cache" /\ size + Align >= WordSize
PageWrapped(i) == kind = "tlb" /\ at[i] = Aligned + (WordSize - 1) * Page
NoSlice == kind = "mem-bw" /\ SliceLen = 0

ShortPayload(i) == kind = "payload" /\ at[i] \in block + size .. block + InformSize - 1

(* There are no others: every access is inside what was mapped.            *)
AccessesInside ==
    \A i \in Instances :
        at[i] # Untouched /\ ~ MappingWrapped /\ ~ PageWrapped(i)
                         /\ ~ NoSlice /\ ~ ShortPayload(i) =>
            at[i] \in block .. block + Mapped - 1

(* The instances of mem-bw share one array without a lock: no element of   *)
(* it is ever written by two of them.                                      *)
OwnSlice ==
    \A i, j \in Instances :
        kind = "mem-bw" /\ ~ NoSlice /\ i < j /\ at[i] # Untouched /\ at[j] # Untouched =>
            at[i] < Aligned + Elem * Slice(j) /\ Aligned + Elem * Slice(j) <= at[j]
=============================================================================
