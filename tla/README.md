# rBench: specifications and proofs

rBench generates load: each *stressor* named on the command line runs as a
number of *instances* (threads) that keep one resource busy at a chosen
strength, bandwidth or packet rate.  This directory holds TLA+ specifications
of the program, the TLC configurations that check them and TLAPS proofs about
them.

## 1. The system

| component | source | state | operations |
|---|---|---|---|
| command line and launcher | `rbench.cpp`, `rbench.hpp` | `bench_tasks`, `global_flag`, `glob_threads`, `glob_thr_cnt` | `parse_opts`, `main`: run each task in turn, join what ran in parallel |
| load control | `rbench-core.cpp` 188-262 | - (pure) | `strength_to_time`, `membw_to_time`, `network_pps_to_time` |
| stressor loop | `rbench-cpu-*.cpp`, `rbench-simd-*.cpp`, `rbench-mem-bw.cpp` | rounds and sleep of the next batch, sums of measured times, warning hysteresis | calibrate, run a batch, sleep, stop or regulate |
| disk stressor | `rbench-disk.cpp` | a static block and its flag, a file and a position in it, rounds | open and size a file, fill the block, write it, limits |
| buffers | `rbench-mem-bw.cpp`, `rbench-cpu-cache.cpp`, `rbench-cpu-tlb.cpp`, `core-net.cpp` | addresses and lengths of mappings, slices and payloads | size by the caches, align, split over the instances, walk |
| random numbers | `core-mwc.cpp`, `core-lfsr.cpp` | two multiply-with-carry words, saved parts of a word | `mwc1/8/16/32/64`, the `modn` family, `set_seed`, `reseed`, `fill_array` |
| instruction generator | `rbench-cpu-l1igen.cpp` | two registers of the code it prints | labels that count down and jump on |
| UDP session | `rbench-udp.cpp`, `core-net.cpp` | `conns[]`, sockets, one thread per instance on each of two hosts | touch, reply, inform, READY, send and receive kernels, monitor |
| printing, cpu information | `rbench-core.cpp` | a mutex, `cpuinfo` | `pr_*`, `read_cpuinfo` |
| helper programs | `validate/`, `udptest/`, `app_3Dtest/` | - | not part of `rbench` |

How they meet: `parse_opts` fills `bench_tasks`; `main` calls each task's
entry; an entry starts its instances and joins them (or leaves the threads to
`main` with `--parallel`); an instance runs the stressor loop, which asks load
control for the size of the next batch; the two UDP entries, on two hosts,
meet over the network before their loops begin.

What is hard:

* the UDP session: two mains and 2N threads, a lossy network, timeouts and
  retries, ports that pass from one thread to the next, one shared `double` per
  thread for status codes and counts;
* the loops: a batch size computed from measured times may be zero, the
  limits are only looked at between batches;
* the launcher: a fixed table of 1000 threads;
* the disk stressor: instances share a static block without a lock, write
  through calls that may fail, and draw file names that may be the same;
* arithmetic on sizes that come from the command line, in words of 32 bits;
* random numbers: parts of a saved word are dealt over many calls, draws are
  repeated until one is below a threshold.

What makes each component correct:

| component | it is correct if |
|---|---|
| command line | a line written as the help text asks for gives every stressor exactly its own settings, whatever the order (it does not for the size of the disk file, see section 6) |
| launcher | tasks run one after the other unless `--parallel`; no thread object is destroyed while its thread runs; `main` returns once all have ended |
| load control | the batch has the load and fills the period that were asked for, up to rounding |
| stressor loop | limits are kept and reached; the load settles where it was asked; a load that cannot be reached is reported, and no longer than it lasts |
| UDP session | instances are paired one to one, as far as addresses that are used again allow; no load before the whole server is up; a main leaves its monitor only when its threads are over; both programs end |
| disk stressor | only a filled block is written; the file is as long as what was asked for and written; limits are kept and reached |
| buffers | every access is inside what was mapped; no two instances of `mem-bw` write one element |
| random numbers | every part of a word is dealt once; every remainder of a `modn` has as many values; numbers stay in range |
| instruction generator | the code executes each of its labels once a round and returns 1 |

## 2. Modules

| module | models |
|---|---|
| `UdpSession` | both UDP entries, both kinds of UDP thread and the network between them |
| `Rendezvous` | what such a session promises, without sockets and codes |
| `UdpSessionRefinement` | the refinement mapping from `UdpSession` to `Rendezvous` |
| `LoadControl` | the size of the next batch, as exact arithmetic |
| `Stressors` | how the stressors differ: calibration, bounds, whether they may refuse |
| `StressLoop` | one instance: calibration, batches, limits, regulation, warnings |
| `CommandLine` | `parse_opts`, one action per option |
| `DiskWrite` | the instances of `disk-write`, the block they share and the file system |
| `Mwc` | the random number generator, with words of any width |
| `L1iKernel` | what the generated code of `cpu-l1i` does |
| `Buffers` | the memory of `cache`, `tlb`, `mem-bw` and of a UDP client's payload, and each access to it |
| `Usage` | the help text's meaning of a line, stated over the whole line at once |
| `Launcher` | the loop of `main` and the thread handling of the entries |
| `Program` | `CommandLine`, then `Launcher` on the tasks it left |
| `*Proofs` | TLAPS proofs about the module of that name; `ComputationsProofs` is about what `MCComputations` composes, `ProgramProofs` about `CommandLine`, `Usage` and `Program` |
| `MC*` | instances for TLC |

`StressLoop` extends `LoadControl` and `Stressors`; `Usage` and `Program`
extend `CommandLine`; `Program` has `INSTANCE Launcher WITH jobs <- Jobs`.
`MCComputations` composes `LoadControl`, `Mwc`, `L1iKernel` and `Buffers`, of
which no other thread takes part: its variable `subject` says which of them
runs in a behaviour, while the others rest.  It is there so that one run and
one proof module serve the four.

An operator whose name ends in `Bad` (or `Swapped`) is a plausible mistake in
the definition below it.  Nothing uses it: it shows that a property would
notice.

### `UdpSession`

`cliMain` and `srvMain` say where either main thread is in its entry
(`open` - socket and bind; `touch`/`reply` - the two halves of the client's
touch loop; `listen`; `release` - the loop that writes READY into `conns[]`;
`gather`; `monitor`; `join`).  `cliPc[c]` and `srvPc[s]` do the same for the
threads (`setup` - socket and bind; `touch` - the server thread's reply;
`inform`; `peer` - waiting for the inform; `wait` - for READY; `calc` - the
calibration kernels; `batch` - the stressor loop; `exit`).  `cliConn` and
`srvConn` are the two `conns[]` arrays, with the codes of
`net_thread_state_t`.  The network is five variables: `touches` waiting at the
listening socket, `replies`, `informs`, `readys` and `data`.

An address is a port, not a thread.  A thread binds the first free port
(`FirstFree` in `SrvSetup` and `CliSetup`) and keeps it in `srvPort` or
`cliPort` until it returns (`SrvFail`, `SrvStop`, `CliFail`, `CliGiveUp`,
`CliStop`); the next thread may bind the port again.  `informs` are on their way
to a server port, `readys` to a client port, and `data` waits at a server port,
whoever has it by then; what was sent to a thread that has returned was dropped,
or comes late, to the next thread at its port.  So a reply names a thread only
as long as that thread lives: `srvPort[cliSrv[c]]` is the address that `c` was
given.  A server thread that waits for its peer takes the first datagram that
comes, be it data of another pair (`TakenForInform`).  Left out: an inform that
comes to a thread which has its peer (it counts as one packet of data), ports
that other programs take, and both sides on one host with overlapping ports.

One action is one step between two system calls that other processes can
notice.  A send or a receive kernel is one action: nobody observes the middle
of it.  `touch_fail_cnt` and `listen_fail_cnt` are left out: both are reset
before they can end their loops and only choose a message.  The batch size
`module_runrounds`, which load control computes from measured times, is any
member of `Batches`.  Three faults of the world are actions with a budget:
`Lose*` (at most `MaxLoss` datagrams of the handshake), a call that fails for
good (`MaxFaults`), and, if `MayGiveUp`, a client thread that has waited a
thousand times.  Data packets are lost without a budget: `Arrivals` says how
many packets of a kernel reach the buffer.  Duplicated datagrams are left out.

The stop of a thread, `conns[i] *= -1`, and the reading of it, `conns[i] <
STATE_BEGIN`, are `Final` and `Over`; `Reported` is the number a monitor shows.

### `LoadControl` and `StressLoop`

`strength_to_time`, `membw_to_time` and `network_pps_to_time` have one body;
they differ in what they count.  `ToTime` is that body over exact fractions: a
measurement is `n` rounds that took `run` and `idle` microseconds and did
`work` units.  Where the doubles become NaN the code takes a full batch and no
sleep, and so does `ToTime`.  The cast of the results to 32 bits is left out: a
batch of more than 2^31 rounds takes a `--period` of half an hour.

`StressLoop` is the loop that eight stressors copy and the threads of two more
follow: `Calibrate`, then `RunBatch` as part of `Stop`, `GoOn` (the load was in
its band) or `Regulate` (it was not: recompute the batch from the sums, which
forget a fifth of the past, and keep the warning).  `Refuse` is an instance
that returns before it calibrates.  What a round costs is the machine's choice:
`MachineChanges` picks another member of `Costs`.  Times are whole
microseconds.  The sums lose a whole fifth.  `done` and `clock` are counted
only if there is a limit.  `-l=0` is not modelled: 0 stands for no limit here.

### `CommandLine`, `Usage`, `Launcher`, `Program`

`line` is what was read so far, `tasks` is `bench_tasks`, `target` the index
`pargs` points at (0: `null_buffer`), `flags` is `global_flag`.  The union of
settings in `bench_args_t` is `word = [lo, hi]`, two halves of `Half` values
each; `Mega` and `Half` are scaled down together (2^4 and 2^17 for 2^20 and
2^32), so that a size may pass 2^32.  `phase = "undefined"` is the dereference
of `end()` by `-l` before any stressor.  Every option is an
action: `Put` is an assignment through `pargs`, `Ignore` an option that is read
and has no effect (a refused value, an unknown stressor, `-d`).  Left out: the
syntax of `getopt_long`, and how a number or an address is read.

`Usage` says what a line means by the help text: `Suits` lists the options that
`help_entrys` has for a stressor, `Own` finds those given to it, `AskedTask` is
what they ask for, with the defaults and the clamps of the code, of which the
help text is silent.  `-d N` and `--disk-file-size=N` are among them, in bytes;
`--diskfile-size`, which the help text does not have, is not.  The code does not
do what the help text says of these two, so what is checked and proved of the
code is about `Supported` lines: those that keep to the help text (`Proper`) and
give no size of the disk file (`SizesDisk`).

In `Launcher`, `main` is where the main thread is: `entry` and `start` in the
loop over tasks, `join` in an entry, `last` in the final joins, `wild` after a
write past `glob_threads`.  `thrs` is an entry's vector, `glob` is
`glob_threads`; an instance is the pair of its task and its number.  `End(x)`
is the return of an instance, at any time.

### `DiskWrite`

`pc[i]` is where instance `i` is in `disk_write_bench` (`open`; `resize` - the
`ftruncate` that sets the size; `looped` - after each of its three loops) or in
`disk_write_kernel2` (`kernel`, `fill`, `write`).  `inited` and `filled` are the
static flag and the words of the static block.  The block is filled word by
word, and instances interleave between words: on x86 a thread's stores become
visible in their order, and the compiler cannot move the store of the flag over
the calls of `rand()`; on another machine the flag could be seen before the
words, and `NoRawBlock` would not hold.  `dir`, `size` and `offset` are the file
system: `Open` has no `O_EXCL`, so two instances that draw one name share a
file, and a file that an earlier run left behind (`Leftover`) is taken over.
`lost` is a history variable: what writes fell short of, which the code does
not notice.  Failing calls (`OpenFails`, `ResizeFails`, `WriteFails` with any
short count) have a budget of `MaxFaults`.

### `Mwc`, `L1iKernel`, `Buffers`

A byte of `Mwc` has `Bits` bits and a word four bytes; `MulZ` and `MulW` are
multipliers.  What the code writes three times, for the parts of 16, 8 and 1
bits of a saved word, is `Take(u)`; what it writes for each `modn` is `Ask`,
`Double` and `Try`.  `seen` is a history variable: the word a part comes from and
what was dealt of it.  `fill_array` is in `Buffers`, where the addresses it
writes matter.

A label of the generated code is `<<block, column>>` in `L1iKernel`: `Across` is
the jump to the next block, `NextColumn` and `LastLabel` are the two forms of
the last block's labels.  `visits` is a history variable.

`Buffers` counts bytes.  `Mapped` is what is given to `mmap` or `new`, with the
sums that the code computes in 32 bits (`WordSize`).  `ReadCaches` is what
`read_cpuinfo` makes of `/sys`, and `LineSize`, `ArrayLen` what the entries take
from it.  A kernel touches any address its random draw may give; `crash` is a
division by zero.

## 3. Runs

"Violated" runs check one sentence of the documentation that the code does not
keep; see section 6.

| run | module | what it asks | bounds |
|---|---|---|---|
| `session_safety` | `MCUdpSession` | types, pairing, start barrier, receivers, monitor, counts, refinement of `Rendezvous`, with ports used again | 2 + 2 instances, 2 ports each side, 1 lost datagram, 1 failed call, giving up at any time |
| `session_live` | `MCUdpSession` | with fairness: all pairs come up, the client ends, no client thread hangs | 2 + 2 instances, time limit, 1 lost datagram, 1 failed call |
| `computations` | `MCComputations` | share, period and empty batches of load control; parts and thresholds of random numbers; the generated code; accesses and slices of buffers | 12,250 measurements, degenerate ones included; bytes of 2 bits, 3 words, 5 bounds; 4 x 4 labels, 3 rounds; 9 sizes, 4 machines, up to 7 instances |
| `stress_loop` | `MCStressLoop` | limits are kept and reached; the load settles, is reported if short, and no longer | every kind, round and time limits, empty batches; 3 machines, 1 change at any moment |
| `any_line` | `MCUsage` | what `parse_opts` stores fits its fields and, the size of the disk file apart, is what the help text says | every line of up to 4 of 34 options |
| `launcher` | `MCLauncher` | what runs next to what, joins, exit, the table | every list of up to 3 of 9 tasks, 4 slots |
| `program` | `MCProgram` | `--check` ends, `--parallel` counts anywhere | every line of up to 3 of 6 options, 3 checked levels |
| `disk_write` | `MCDiskWrite` | the shared block, files, limits | 2 instances, blocks of 2 words, 2 names, 2 failing calls, 3 limits |
| `server_stuck_in_recv` | `MCUdpSession` | violated: the server ends with `-t` | 1 + 1 instances, nothing lost |
| `failed_thread` | `MCUdpSession` | violated: a failed thread does not keep the program | 1 + 1 instances, 1 failed call |
| `disk_grows` | `MCDiskWrite` | violated: the file keeps its size | 1 instance, nothing fails |
| `draw_from_one` | `MCComputations` | violated: a `modn` draws from 1 on | the generator alone |

Why the bounds are enough.  *UDP:* every hazard of the handshake is about two
touches and two threads (a reply to the wrong touch, an inform from the wrong
thread, one thread released before another exists); two on each side allow all
of them, and one lost datagram, one failed call and free timeouts allow each
retry.  A second thread at a port of a first one that failed, gave up or ended
is the least a reused port needs.  `SendPack` and `RecvPack` are the smallest for which a calibration
counts past 109, so that the band between codes and counts is crossed.
`session_live` has kernels that cross it at once, to leave room for the
liveness check.  `DataCap` is a buffer of one or two receive kernels.  `CountCap` only stops
the count, after that band.  *Computations:* the box of measurements holds 0, 1, halves and
numbers that round either way.  A word of eight bits with three words drawn
lets a saved word be dealt out whole, with other draws and seeds in between, and
a draw be thrown away; the bounds include 0, a power of two and more than half
of a width.  The sizes lie on both sides of a page, of each cache and of the
32 bits, the machines have three, two or no levels and one does not tell its
line.  *Loop:* the warning needs up to eight low
rounds, and runs go on until the loop repeats; the costs lie in, near and
outside the band.  *Command line:* an option can interfere with the stressor
before it, the one after it and one setting of each; four options hold a
stressor, an option of it, another stressor and an option again.  `program` is
about `main` and flags, so three options and two stressors do.  *Launcher:*
the third task starts after one that was left and one that was joined; 4 slots
overflow with the third task of two instances.  *Disk:* two instances race for
the block and for a name, with one more file left from earlier; a file of three
blocks is outgrown during the first batch.

## 4. Fairness

* UDP: `WF` of the mains and of each thread (the operating system schedules
  them).  `SF` of `ClientReply`: `recvfrom` returns a datagram that is waiting
  before it lets its timeout expire, though the client main leaves the wait to
  touch again.  `SF` of `CliStop` and `SrvStop`: a time limit that has passed
  is seen at the end of the next batch; the model's `CliTimed` may go on for
  any number of batches, not for ever.  `WF` of `CliGiveUp`: the thousand waits
  of six seconds end.  No fairness makes a datagram get lost or a call fail.
  The properties of a session in which nothing is lost assume that from the
  start (`[]Fortunate`).
* `StressLoop`: `WF` of the instance's own `Step`, none of the machine.  Every
  iteration takes time: `RunBatch` adds a microsecond for its own statements, or
  a time limit would never be reached by empty batches that measure nothing.
* `DiskWrite`: `WF` of each instance's `Step`: threads are scheduled.
* `Launcher`, `Program`: `WF` of `Main`, and of the return of instances that
  have a limit (`EndLimited`), which `Stops` of `StressLoop` justifies.  UDP
  instances are never assumed to end.

`CHECK_DEADLOCK FALSE` stands where the system stops: sessions, programs and
instances end, and so does a line of at most `MaxOptions` options.

## 5. Proofs

All for every value of the constants, from the named assumptions only.

* `UdpSessionProofs`: `HandshakeCorrect`, and from it `PairingSafe`,
  `PeersAgree`, `BarrierHolds`, `LoadIsReceived`.  None of these is inductive.
  `HandshakeInv` is, on top of `TypeOK`: threads are started in order
  (`IndexInv`); a port has one holder at a time (`PortInv`); the reply of a server
  thread is on its way or held by one client thread, never both, and its sender
  has bound a port (`RepliesFree`, what makes pairing one to one though replies
  come late); an inform is from a client thread to the port it was given
  (`InformsRight`); a server thread that has begun has a peer (`PeerKnown`),
  and it begins only after all exist (`ReleasedLate`); READY is on its way only
  to a port that the peer of a server thread which has begun has or had
  (`ReadyFromBegun`).
  With reused ports the pairs are not what one would wish, and the theorems say
  what is left: a peer is the right client thread or one that was given to a
  thread which has left the same port (`PeersAgree`); a client thread that sends
  has a receiver at its address, unless its own port is second hand
  (`LoadIsReceived`).  The start barrier and the pairing of threads hold without
  such a condition.
  `MonitorsSound` needs one more, `CountInv` (`ReportsReadable`): each
  `conns[i]` is in the range of codes or of counts that its thread's place
  allows, so that `Over` never takes the one for the other.  `CountsNeverFall`
  is the action property `ReportsGrow`, by cases over the steps that write a
  `conns[i]`.  `SessionImplementsRendezvous` is the refinement: the initial
  state maps to one of `Rendezvous`, and every action of `UdpSession` to a step
  of it or a stutter, one lemma per group of actions.  `Rendezvous` starts a
  server for its own client or for one whose server has left, and a client on a
  server that is not its own only once its own, or another client, has left
  (`Left`).  It needs that a server
  thread that failed, or has not come so far, has learnt no peer
  (`PeerLearntLast`).
* `LoadControlProofs`: four theorems on `ToTime`: the share is kept up to half
  a microsecond, the period up to half a round, a batch is empty exactly if a
  round exceeds twice its part of a period, and a batch without sleep means the
  aim is out of reach.  They rest on what `round()` does to a fraction
  (`RoundDivBound`, `RoundDivSign`).
* `MwcProofs` holds lemmas that `ComputationsProofs`, with its own on
  `Buffers` and `L1iKernel`, turns into theorems of the specification that the
  run checks.  *Random numbers:*
  words keep their width (`GeneratorTypeCorrect`), parts are dealt once
  (`NoPartTwice`) and draws are unbiased (`DrawsUnbiased`), for any width of a
  byte, any multipliers, seeds and bounds.  The prover knows nothing of powers:
  `PowerAssumption` states the three facts on `2^k` that are used, and TLC
  evaluates it.  *Generated code:* `KernelReturnsOne`, for any number of blocks,
  columns and rounds; its invariant ties `r10` to the labels still to come.
  *Buffers:* `AllAccessesInside` and `EverySliceOwned`, for any page, word, size,
  number of instances and address that `mmap` may return.  *Load:* the theorems
  of `LoadControlProofs`, for any box.
* `DiskWriteProofs`: `DiskTypeCorrect`, `BlockAlwaysFilled`, `FileKeepsCount`,
  `DiskLimitsHold`, for any number of instances, words and names.  `DiskInv` has
  five parts: `TypeOK`; `BlockInv` - an instance that fills has filled all words
  before `fillAt`, and the flag is up only over a full block, whoever raised it;
  `WorkOf` - offset and shortfall against the kernels run, at every point of the
  three loops; `LimitOf` - what is known of the limits there; `FileOf` - the size
  of a file with one writer, and which name leads to it.
* `StressLoopProofs`: `LoopTypeCorrect` - rounds are never negative, whatever
  was measured - and `LimitsAreKept`, which is inductive with `TypeOK`.
* `LauncherProofs`: `LauncherTypeCorrect`, `ThreadsNeverLost`,
  `TasksStartAlone`, `ExitsClean`, for any list of tasks.  The invariant `LInv` says
  where a thread object can be: outside an entry the vector is empty (`CallInv`),
  inside it holds only threads of the current task (`VectorInv`), the table only
  those of tasks that leave theirs (`TableInv`), and no instance has a number or a
  task that is still to come (`PastInv`).  `ExitsClean` needs one more,
  `StartedInv`: every instance that runs is in the vector or in the table,
  unless its entry failed.  `OverrunOnlyIfTooMany` is `TableOverflow`, from
  `UsedInv`: the slots in use are at most the instances of the tasks that left
  theirs, counted task by task.
* `ProgramProofs`, *the command line:* `CommandLineTypeCorrect` - what
  `parse_opts` stores fits its fields, one lemma per option - and
  `LineAsAsked`, for a line of any length.  `AsAsked` speaks of the end of the
  line only; the invariant is `Supported => Understood`: at every option read so
  far, the k-th task is `Local(r)`, what the k-th `-r` and the options after it
  ask for, the global flags apart.  A line that is supported is so without its
  last option (`SupportedBefore`), which belongs to the last stressor named; each
  option changes what it is about and nothing else (`LocalChanged`), and at the
  end `TaskOfLocal` adds the flags.  Induction over the line is not needed: the
  steps of `parse_opts` are the induction.
* `ProgramProofs`, *the whole of `main`:* the launcher of `Program` is
  `LauncherProofs` on the tasks that `parse_opts` left.  `Waits` says that it is
  in its first state until the line is parsed; such a state has the invariants
  of `LauncherProofs` for any tasks, and a step of `main` or of an instance
  keeps them (`ReadySteps`).  So for any line: `ProgramLosesNoThread`
  (`NoThreadLost`, `ExitIsClean` and `TableOverflow`), `ProgramStartsAsMany`
  (`AsManyAsAsked`), and with `LineAsAsked` the result of the two parts together,
  `ProgramRunsTheLine`: on a supported line, `main` returns only after every
  instance that the line asks for has ended, UDP and `mem-bw` apart, whose
  entries may fail.

The assumptions on constants are those the code gives: in `CommandLine` that an
option's address is one of `Ips` with a number for a port and its value a
number (`OptionsAssumption`), that `Half` is more than the default period of
100000, as 2^32 is, and that there is a processor (`CommandLineAssumption`); in
`Program` that the number of slots is a number (`SlotsAssumption`).

Only model-checked: liveness, which is out of the prover's reach
(`AllInstancesStart`, `ClientThreadsReturn`, `ClientEnds`, `LoadSettles`,
`ShortLoadReported`, `ReportEnds`, both `Stops`, `AllGetStarted`, `Exits`,
`CheckEnds`, `ParallelAnywhere`).  Every invariant and every action property of
the passing runs is a theorem, and so is the refinement of `Rendezvous`, which
states no fairness.

## 6. Where code and documentation disagree

* `server_stuck_in_recv`: a server thread's socket has no receive timeout.
  Once its client has stopped it waits in `Recv` for ever and never looks at
  its time limit.
* `failed_thread`: the monitors count a thread as over only below -100; a
  thread that returned with `NET_THREAD_ERROR` (-8) never is, and the program
  does not end.
* `disk_grows`: `disk_write_kernel2` takes its file position by value, so it is
  always 0 and the file never rewound: it grows by a block a kernel.
* `draw_from_one`: the comments of the four `modn` promise 1..max; they return
  0..max-1, and `tlb`, which subtracts one, may touch page 2^32-1.

Seen while reading, with no run of its own:

* A reply is sent once; if it is lost and `-n` is the same on both sides, no
  server thread is left to answer the repeated touch and the client main retries
  for ever (`AllInstancesStart` is therefore stated for sessions that lose
  nothing).
* If one kernel round takes more than twice its share of the period, the batch
  is rounded to nothing and its sleep with it: the instance spins through empty
  batches.  `EmptyOrBehind` says that this is the only way to an empty batch,
  `Stops` that limits of time still end it; a limit of rounds ends it only
  because the load measured meanwhile is out of its band.
* `--check` does not ignore the stressors and global flags that come before it.
  `CheckEnds` says that it limits them.
* The help text has `-d N` and `--disk-file-size=N`, in bytes.  `parse_opts` has
  no case for `-d` and `getopt_long` no `--disk-file-size`: both do nothing
  (`Unknown`), and the file has its default size.  The option that works is
  `--diskfile-size`, which the help text does not have, in megabytes, of which a
  negative number becomes a size near 2^64 (`HundredMegaAtLeast` compares
  unsigned).  `AsAsked`, `LineAsAsked` and `ProgramRunsTheLine` therefore leave
  lines that size the disk file out, by name (`SizesDisk`); with them, `AsAsked`
  is false: `-r disk-write -d 3` asks for three bytes and gets a gigabyte.
* A port passes from a thread that returned to the next, and those who hold the
  address do not notice.  The client thread of a server thread that failed or
  ended early informs the one now at its port and is taken for its peer, and
  that one's own client thread is never heard; data of the first pair does the
  same.  On the other side, a client thread at the port of one that gave up or
  ended starts on the copies of READY meant for that one, before its own server
  thread has begun, and its first packets are lost.  No
  call need fail and nothing of the handshake be lost: a thread that ends early
  is enough, and so are the copies of READY that it did not wait for.
  `PeerAgreement`, `SendsToReceiver` and `Rendezvous` are
  stated as weakly as this makes necessary.
* `-s` is meant to be refused for UDP stressors, but the prefix tried is `udp_`
  and they are called `udp-`: it is stored, and never used.
* `-r` with an unknown name leaves `pargs` where it was: options after it go to
  the stressor before (`RunUnknown`).
* `cache` without `--cache-size`, and a first-level cache that does not tell its
  line, divide by zero (`Divides`).  A cache size just below 4 GB wraps the size
  of its mapping (`MappingWrapped`).
* `fill_array` never advances its pointer: only the first four bytes and the
  remainder of the length are filled (`FillOffsets`).
* `glob_threads` has 1000 slots that nobody counts (`TableOverflow` says when main
  writes past it).
* A kernel of `cpu-int` that finds a wrong result calls `exit(0)` from its
  thread: all instances end, with the status of success.

## 7. Not modelled, and the plan

Not modelled for good, because they are programs of their own or only output:
`validate/`, `udptest/`, `app_3Dtest/`; the printing half of `rbench-core.cpp`
(one `printf` under a mutex); `core-lfsr.cpp`, which nobody calls.  Of the
modelled components: what a kernel computes, the contents that `fill_array`
leaves, duplicated datagrams, an inform that comes to a server thread with a
peer, ports taken by other programs, the cast of a batch to 32 bits.

Left out of `Mwc` is liveness.  A `modn` throws away less than half of the values
(`Unbiased`), but a generator stuck in the state `w = z = 0` returns 0 for ever,
which every threshold accepts, and nothing in the code excludes a short cycle of
rejected values from a bad seed; that draws end cannot be shown from the source.

What would come next:

1. The safety core of the liveness properties, as theorems: that a batch is never
   skipped while a limit is open, and by how much the sums of `StressLoop` can be
   away from the load that the machine gives.
2. The settings of a supported line followed into the loops: `AskedTask` composed
   with `LoadControl`, as `ProgramRunsTheLine` follows `-n` into the launcher.
3. That the instances of `Launcher` which must end (`EndLimited`) are those of
   which `StressLoop` proves `LimitsAreKept`; today the two meet in an assumption
   of fairness.
