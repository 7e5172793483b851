----------------------------- MODULE DiskWrite -----------------------------
(***************************************************************************)
(* The stressor disk-write: instances that each write one block of memory  *)
(* to a file of theirs, over and over, through a write that may fail.      *)
(*                                                                         *)
(* The block and the flag that says it is filled are static: the instances *)
(* share them without a lock.  Threads interleave word by word, which is   *)
(* what x86 makes of the data race: it keeps the order of each thread's    *)
(* stores and loads, and the compiler cannot move the flag across the      *)
(* calls of rand().                                                        *)
(*                                                                         *)
(* A file is known by the instance that created it; Leftover is one that   *)
(* an earlier run did not remove.  Sizes and offsets count the units that  *)
(* a block of Granu units is written in.  There is no load control: the    *)
(* strength of this stressor is always 100, which is Full kernels a batch. *)
(***************************************************************************)
EXTENDS Integers

CONSTANTS
    Instances,     \* the threads of one run of the stressor
    Words,         \* the words of the block are 0 .. Words-1
    Granu,         \* DISK_WRITE_GRANU
    Calibration,   \* kernels that are measured before the loop
    Full,          \* FULL_STRENGTH100_MODULE_ROUND
    Tasks,         \* [size, limit, time]
    Durations,     \* how long a batch may take
    Names,         \* the file names that can be drawn
    MaxFaults      \* how many calls of the kernel fail

NoLimit == 0
Leftover == "leftover"
NoFile == "none"

ASSUME SizeAssumption ==
    /\ Words \in Nat \ {0} /\ Granu \in Nat \ {0}
    /\ Calibration \in Nat \ {0} /\ Full \in Nat \ {0}
    /\ Durations \subseteq Nat \ {0} /\ MaxFaults \in Nat

(* The smallest size the command line lets through is a hundred blocks.    *)
ASSUME DiskTaskAssumption ==
    /\ Tasks \subseteq [size : Nat, limit : Nat, time : Nat]
    /\ \A t \in Tasks : t.size > Granu

ASSUME FileAssumption ==
    Leftover \notin Instances /\ NoFile \notin Instances

VARIABLES
    task,                   \* args
    pc,                     \* where each instance is
    name,                   \* filename
    ino,                    \* what fd stands for, or NoFile
    loop, left,             \* the loop it is in, and its kernels to go
    done, clock,            \* knl_round_sumup, and the time since t_start
    fillAt,                 \* i of the loop that fills the block
    inited, filled,         \* the static flag, and the static block
    dir, size, offset,      \* the file system
    lost,                   \* units a write was short of, nowhere recorded
    faults

progress == <<loop, left, done, clock>>
block == <<fillAt, inited, filled>>
files == <<dir, size, offset, lost>>
vars == <<task, pc, name, ino, progress, block, files, faults>>

Files == Instances \cup {Leftover}

Init ==
    /\ task \in Tasks
    /\ pc = [i \in Instances |-> "open"]
    /\ name \in [Instances -> Names]
    /\ ino = [i \in Instances |-> NoFile]
    /\ loop = [i \in Instances |-> "first"]
    /\ left = [i \in Instances |-> 1]
    /\ done = [i \in Instances |-> 0]
    /\ clock = [i \in Instances |-> 0]
    /\ fillAt = [i \in Instances |-> 0]
    /\ inited = FALSE
    /\ filled = {}
    /\ \E kept \in SUBSET Names :
         dir = [f \in Names |-> IF f \in kept THEN Leftover ELSE NoFile]
    /\ size = [f \in Files |-> IF f = Leftover THEN task.size + Granu ELSE 0]
    /\ offset = [i \in Instances |-> 0]
    /\ lost = [i \in Instances |-> 0]
    /\ faults = 0

-----------------------------------------------------------------------------
At(i, here) == pc[i] = here

Goto(i, there) == pc' = [pc EXCEPT ![i] = there]

Fault == faults < MaxFaults /\ faults' = faults + 1

(* open with O_CREAT: the file of that name, or a new one; no O_EXCL.      *)
Open(i) ==
    /\ At(i, "open")
    /\ IF dir[name[i]] = NoFile
       THEN /\ dir' = [dir EXCEPT ![name[i]] = i]
            /\ ino' = [ino EXCEPT ![i] = i]
       ELSE /\ ino' = [ino EXCEPT ![i] = dir[name[i]]]
            /\ UNCHANGED dir
    /\ Goto(i, "resize")
    /\ UNCHANGED <<task, name, progress, block, size, offset, lost, faults>>

(* Only the next call notices that there is no file.                       *)
OpenFails(i) ==
    /\ At(i, "open")
    /\ Fault
    /\ Goto(i, "resize")
    /\ UNCHANGED <<task, name, ino, progress, block, files>>

Resize(i) ==
    /\ At(i, "resize")
    /\ ino[i] # NoFile
    /\ size' = [size EXCEPT ![ino[i]] = task.size]
    /\ Goto(i, "kernel")
    /\ UNCHANGED <<task, name, ino, progress, block, dir, offset, lost, faults>>

ResizeFailsBad(i) ==
    /\ At(i, "resize")
    /\ IF ino[i] = NoFile THEN UNCHANGED faults ELSE Fault
    /\ UNCHANGED <<task, pc, name, ino, progress, block, files>>

(* The instance gives up, and removes whatever has the name.               *)
ResizeFails(i) ==
    /\ At(i, "resize")
    /\ IF ino[i] = NoFile THEN UNCHANGED faults ELSE Fault
    /\ dir' = [dir EXCEPT ![name[i]] = NoFile]
    /\ Goto(i, "exit")
    /\ UNCHANGED <<task, name, ino, progress, block, size, offset, lost>>

-----------------------------------------------------------------------------
(* disk_write_kernel2.                                                     *)
Enter(i) ==
    /\ At(i, "kernel")
    /\ Goto(i, IF inited THEN "write" ELSE "fill")
    /\ fillAt' = [fillAt EXCEPT ![i] = 0]
    /\ UNCHANGED <<task, name, ino, progress, inited, filled, files, faults>>

FillBad(i) ==
    /\ At(i, "fill")
    /\ fillAt[i] < Words
    /\ filled' = filled \cup {fillAt[i]}
    /\ fillAt' = [fillAt EXCEPT ![i] = @ + 1]
    /\ inited' = TRUE
    /\ UNCHANGED <<task, pc, name, ino, progress, files, faults>>

Fill(i) ==
    /\ At(i, "fill")
    /\ fillAt[i] < Words
    /\ filled' = filled \cup {fillAt[i]}
    /\ fillAt' = [fillAt EXCEPT ![i] = @ + 1]
    /\ UNCHANGED <<task, pc, name, ino, progress, inited, files, faults>>

Filled(i) ==
    /\ At(i, "fill")
    /\ fillAt[i] = Words
    /\ inited' = TRUE
    /\ Goto(i, "write")
    /\ UNCHANGED <<task, name, ino, progress, fillAt, filled, files, faults>>

(* fpos is passed by value and stays 0, whatever the kernel adds to it.    *)
FilePos == 0

Max2(m, n) == IF m >= n THEN m ELSE n

SeekBad(i) == size[ino[i]]

(* Where the write goes: back to the start when the block does not fit.    *)
Seek(i) == IF FilePos + Granu >= task.size THEN 0 ELSE offset[i]

(* A write of n units, the last of its loop or not.                        *)
Put(i, n) ==
    /\ At(i, "write")
    /\ offset' = [offset EXCEPT ![i] = Seek(i) + n]
    /\ size' = IF n = 0 THEN size
               ELSE [size EXCEPT ![ino[i]] = Max2(@, Seek(i) + n)]
    /\ lost' = [lost EXCEPT ![i] = @ + (Granu - n)]
    /\ left' = [left EXCEPT ![i] = @ - 1]
    /\ Goto(i, IF left[i] = 1 THEN "looped" ELSE "kernel")
    /\ UNCHANGED <<task, name, ino, loop, done, clock, block, dir>>

Write(i) == Put(i, Granu) /\ UNCHANGED faults

(* An error or a short count: the result of write() is ignored.            *)
WriteFails(i) == Fault /\ \E n \in 0 .. Granu - 1 : Put(i, n)

-----------------------------------------------------------------------------
(* disk_write_bench, after each of its three loops.                        *)
AfterFirst(i) ==
    /\ At(i, "looped") /\ loop[i] = "first"
    /\ loop' = [loop EXCEPT ![i] = "calibrate"]
    /\ left' = [left EXCEPT ![i] = Calibration]
    /\ Goto(i, "kernel")
    /\ UNCHANGED <<task, name, ino, done, clock, block, files, faults>>

(* The rounds of the calibration count for no limit.                       *)
AfterCalibration(i) ==
    /\ At(i, "looped") /\ loop[i] = "calibrate"
    /\ loop' = [loop EXCEPT ![i] = "batch"]
    /\ left' = [left EXCEPT ![i] = Full]
    /\ Goto(i, "kernel")
    /\ UNCHANGED <<task, name, ino, done, clock, block, files, faults>>

LimitReachedBad(d, t) ==
    \/ task.limit # NoLimit /\ d > task.limit
    \/ task.time # NoLimit /\ t >= task.time

LimitReached(d, t) ==
    \/ task.limit # NoLimit /\ d >= task.limit
    \/ task.time # NoLimit /\ t >= task.time

AfterBatch(i) ==
    \E d \in Durations :
        /\ At(i, "looped") /\ loop[i] = "batch"
        /\ done' = [done EXCEPT ![i] = @ + Full]
        /\ clock' = [clock EXCEPT ![i] = @ + d]
        /\ left' = [left EXCEPT ![i] = Full]
        /\ Goto(i, IF LimitReached(done'[i], clock'[i]) THEN "exit" ELSE "kernel")
        /\ UNCHANGED <<task, name, ino, loop, block, files, faults>>

Step(i) ==
    \/ Open(i) \/ OpenFails(i) \/ Resize(i) \/ ResizeFails(i)
    \/ Enter(i) \/ Fill(i) \/ Filled(i) \/ Write(i) \/ WriteFails(i)
    \/ AfterFirst(i) \/ AfterCalibration(i) \/ AfterBatch(i)

(* The entry joins its instances.                                          *)
Finished == (\A i \in Instances : At(i, "exit")) /\ UNCHANGED vars

Next == (\E i \in Instances : Step(i)) \/ Finished

(* Every thread is scheduled again and again.                              *)
Spec == Init /\ [][Next]_vars /\ \A i \in Instances : WF_vars(Step(i))

-----------------------------------------------------------------------------
Writing == {"kernel", "fill", "write", "looped"}

TypeOK ==
    /\ task \in Tasks
    /\ pc \in [Instances -> Writing \cup {"open", "resize", "exit"}]
    /\ name \in [Instances -> Names]
    /\ ino \in [Instances -> Files \cup {NoFile}]
    /\ loop \in [Instances -> {"first", "calibrate", "batch"}]
    /\ left \in [Instances -> Nat]
    /\ done \in [Instances -> Nat] /\ clock \in [Instances -> Nat]
    /\ fillAt \in [Instances -> 0 .. Words]
    /\ inited \in BOOLEAN /\ filled \subseteq 0 .. Words - 1
    /\ dir \in [Names -> Files \cup {NoFile}]
    /\ size \in [Files -> Nat] /\ offset \in [Instances -> Nat]
    /\ lost \in [Instances -> Nat]
    /\ faults \in 0 .. MaxFaults

(* No instance writes a block another one has only begun to fill: the flag *)
(* is raised after the last word, by every instance that saw it down, and  *)
(* no word is ever cleared.                                                *)
NoRawBlock == \A i \in Instances : At(i, "write") => filled = 0 .. Words - 1

(* The kernels an instance has run.                                        *)
Ran(i) ==
    CASE loop[i] = "first"     -> 1 - left[i]
      [] loop[i] = "calibrate" -> 1 + Calibration - left[i]
      [] loop[i] = "batch"     -> 1 + Calibration + done[i] + Full - left[i]

SoleWriter(i) == \A j \in Instances \ {i} : ino[j] # ino[i]
SoleName(i) == \A j \in Instances \ {i} : name[j] # name[i]

(* What an instance has written and what the disk refused add up to the    *)
(* kernels it ran, though nothing records the refusals; and a file that    *)
(* one instance has open is as long as asked for or as far as it wrote,    *)
(* whatever was left in it by an earlier run.  Its name leads to it unless *)
(* another instance drew the name.                                         *)
FileAsCounted ==
    \A i \in Instances :
        /\ offset[i] + lost[i] = Granu * Ran(i)
        /\ At(i, "kernel") /\ SoleWriter(i) =>
             size[ino[i]] = Max2(task.size, offset[i])
        /\ At(i, "kernel") /\ SoleName(i) => dir[name[i]] = ino[i]

(* A limit ends an instance with the batch that reaches it, and nothing    *)
(* else does once it writes.                                               *)
LimitsHold ==
    \A i \in Instances :
        /\ pc[i] \in Writing => ~ LimitReached(done[i], clock[i])
        /\ At(i, "exit") /\ loop[i] = "batch" =>
             /\ task.limit # NoLimit => done[i] < task.limit + Full
             /\ task.limit = NoLimit => clock[i] >= task.time

(* README, -l and -t: the stressor stops, so that its entry returns, though *)
(* writes fail and instances give up.                                      *)
Stops ==
    task.limit # NoLimit \/ task.time # NoLimit ~>
        \A i \in Instances : At(i, "exit")

(* README, -d: "Set the disk file size to N bytes".                        *)
FileStaysInSize ==
    \A i \in Instances : pc[i] \in Writing => size[ino[i]] <= task.size
=============================================================================
