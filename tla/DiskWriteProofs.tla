-------------------------- MODULE DiskWriteProofs --------------------------
(***************************************************************************)
(* The invariants of DiskWrite, for any number of instances, names and     *)
(* words, any sizes and limits, and any number of calls that fail.         *)
(***************************************************************************)
EXTENDS DiskWrite, TLAPS

(* The block: a raised flag and a loop half done both say what is filled.  *)
BlockInv ==
    /\ inited => filled = 0 .. Words - 1
    /\ \A i \in Instances : At(i, "fill") => 0 .. fillAt[i] - 1 \subseteq filled
    /\ NoRawBlock

(* The kernels one instance has to go and has run.                         *)
WorkOf(i) ==
    /\ pc[i] \in {"open", "resize"} =>
         loop[i] = "first" /\ left[i] = 1 /\ offset[i] = 0 /\ lost[i] = 0
    /\ pc[i] \in {"kernel", "fill", "write"} => left[i] >= 1
    /\ At(i, "looped") => left[i] = 0
    /\ loop[i] # "batch" => done[i] = 0 /\ clock[i] = 0
    /\ offset[i] + lost[i] = Granu * Ran(i)

(* LimitsHold, of one instance.                                            *)
LimitOf(i) ==
    /\ pc[i] \in Writing => ~ LimitReached(done[i], clock[i])
    /\ At(i, "exit") /\ loop[i] = "batch" =>
         /\ task.limit # NoLimit => done[i] < task.limit + Full
         /\ task.limit = NoLimit => clock[i] >= task.time

(* The file of one instance, as long as no other has it or its name.       *)
FileOf(i) ==
    /\ At(i, "open") => ino[i] = NoFile
    /\ pc[i] \in Writing => ino[i] \in Files
    /\ pc[i] \in Writing /\ SoleWriter(i) =>
         size[ino[i]] = Max2(task.size, offset[i])
    /\ pc[i] \in Writing \cup {"resize"} /\ ino[i] # NoFile /\ SoleName(i) =>
         dir[name[i]] = ino[i]

DiskInv ==
    /\ TypeOK
    /\ BlockInv
    /\ \A i \in Instances : WorkOf(i) /\ LimitOf(i) /\ FileOf(i)

-----------------------------------------------------------------------------
LEMMA TaskParts ==
    ASSUME task \in Tasks
    PROVE  /\ task.size \in Nat /\ task.limit \in Nat /\ task.time \in Nat
           /\ task.size > Granu
  BY DiskTaskAssumption

LEMMA TypeStarts == Init => TypeOK
<1> SUFFICES ASSUME Init PROVE TypeOK
  OBVIOUS
<1>1. task \in Tasks /\ task.size \in Nat
  BY TaskParts DEF Init
<1>2. PICK kept \in SUBSET Names :
        dir = [f \in Names |-> IF f \in kept THEN Leftover ELSE NoFile]
  BY DEF Init
<1>3. dir \in [Names -> Files \cup {NoFile}]
  BY <1>2 DEF Files
<1>4. size \in [Files -> Nat]
  BY <1>1, SizeAssumption DEF Init
<1>5. /\ pc \in [Instances -> Writing \cup {"open", "resize", "exit"}]
      /\ name \in [Instances -> Names] /\ ino \in [Instances -> Files \cup {NoFile}]
      /\ loop \in [Instances -> {"first", "calibrate", "batch"}]
  BY DEF Init
<1>6. /\ left \in [Instances -> Nat] /\ done \in [Instances -> Nat]
      /\ clock \in [Instances -> Nat] /\ offset \in [Instances -> Nat]
      /\ lost \in [Instances -> Nat] /\ fillAt \in [Instances -> 0 .. Words]
  BY SizeAssumption DEF Init
<1>7. filled \subseteq 0 .. Words - 1 /\ faults \in 0 .. MaxFaults
  BY SizeAssumption DEF Init
<1>8. inited \in BOOLEAN
  BY Zenon DEF Init
<1> QED
  BY <1>1, <1>3, <1>4, <1>5, <1>6, <1>7, <1>8, Zenon DEF TypeOK

LEMMA TypeKept ==
    ASSUME TypeOK, NEW i \in Instances, WorkOf(i), Step(i)
    PROVE  TypeOK'
<1> USE DEF TypeOK, At, Goto, Fault, Writing
<1>1. CASE Open(i)
  <2>1. i \in Files /\ name[i] \in Names
    BY DEF Files
  <2>2. dir' \in [Names -> Files \cup {NoFile}]
    BY <1>1, <2>1 DEF Open
  <2>3. ino' \in [Instances -> Files \cup {NoFile}]
    BY <1>1, <2>1 DEF Open
  <2> QED
    BY <1>1, <2>2, <2>3 DEF Open, block, progress
<1>2. CASE OpenFails(i)
  BY <1>2, SizeAssumption DEF OpenFails, files, block, progress
<1>3. CASE Resize(i)
  BY <1>3, TaskParts DEF Resize, block, progress
<1>4. CASE ResizeFails(i)
  <2>1. dir' \in [Names -> Files \cup {NoFile}]
    BY <1>4 DEF ResizeFails
  <2>2. faults' \in 0 .. MaxFaults
    BY <1>4, SizeAssumption DEF ResizeFails
  <2>3. pc' \in [Instances -> Writing \cup {"open", "resize", "exit"}]
    BY <1>4 DEF ResizeFails
  <2>4. UNCHANGED <<task, name, ino, loop, left, done, clock, fillAt, inited, filled,
                    size, offset, lost>>
    BY <1>4 DEF ResizeFails, block, progress
  <2> QED
    BY <2>1, <2>2, <2>3, <2>4
<1>5. CASE Enter(i)
  BY <1>5, SizeAssumption DEF Enter, files, progress
<1>6. CASE Fill(i)
  <2>1. /\ filled' = filled \cup {fillAt[i]}
        /\ fillAt' = [fillAt EXCEPT ![i] = @ + 1]
        /\ fillAt[i] < Words
    BY <1>6 DEF Fill
  <2>2. fillAt[i] \in 0 .. Words - 1 /\ fillAt[i] + 1 \in 0 .. Words
    BY <2>1, SizeAssumption
  <2>3. filled' \subseteq 0 .. Words - 1
    BY <2>1, <2>2
  <2>4. fillAt' \in [Instances -> 0 .. Words]
    BY <2>1, <2>2
  <2> QED
    BY <1>6, <2>3, <2>4 DEF Fill, files, progress
<1>7. CASE Filled(i)
  BY <1>7 DEF Filled, files, progress
<1>8. ASSUME NEW n \in 0 .. Granu, Put(i, n), faults' \in 0 .. MaxFaults
      PROVE  TypeOK'
  <2>1. Seek(i) \in Nat /\ Seek(i) + n \in Nat /\ Granu - n \in Nat
    BY SizeAssumption DEF Seek
  <2>2. size' \in [Files -> Nat]
    BY <1>8, <2>1 DEF Put, Max2
  <2>3. left[i] >= 1
    BY <1>8 DEF Put, WorkOf
  <2>4. left' \in [Instances -> Nat]
    BY <1>8, <2>3 DEF Put
  <2> QED
    BY <1>8, <2>1, <2>2, <2>4 DEF Put, block
<1>9. CASE Write(i)
  BY <1>8, <1>9, SizeAssumption DEF Write
<1>10. CASE WriteFails(i)
  BY <1>8, <1>10, SizeAssumption DEF WriteFails
<1>11. CASE AfterFirst(i)
  BY <1>11, SizeAssumption DEF AfterFirst, files, block
<1>12. CASE AfterCalibration(i)
  BY <1>12, SizeAssumption DEF AfterCalibration, files, block
<1>13. CASE AfterBatch(i)
  BY <1>13, SizeAssumption DEF AfterBatch, files, block
<1> QED
  BY <1>1, <1>2, <1>3, <1>4, <1>5, <1>6, <1>7, <1>9, <1>10, <1>11, <1>12,
     <1>13 DEF Step

-----------------------------------------------------------------------------
(* A step that leaves the block alone and does not lead to it.             *)
LEMMA BlockAlone ==
    ASSUME TypeOK, BlockInv, NEW i \in Instances, NEW there,
           there # "fill", there # "write", Goto(i, there), UNCHANGED block
    PROVE  BlockInv'
  BY DEF TypeOK, BlockInv, NoRawBlock, At, Goto, block

LEMMA BlockKept ==
    ASSUME TypeOK, BlockInv, NEW i \in Instances, Step(i)
    PROVE  BlockInv'
<1>1. CASE Open(i)
  BY <1>1, BlockAlone DEF Open
<1>2. CASE OpenFails(i)
  BY <1>2, BlockAlone DEF OpenFails
<1>3. CASE Resize(i)
  BY <1>3, BlockAlone DEF Resize
<1>4. CASE ResizeFails(i)
  BY <1>4, BlockAlone DEF ResizeFails
<1>5. CASE Enter(i)
  <2>1. CASE inited
    BY <1>5, <2>1 DEF Enter, TypeOK, BlockInv, NoRawBlock, At, Goto
  <2>2. CASE ~ inited
    <3>1. /\ pc' = [pc EXCEPT ![i] = "fill"] /\ fillAt' = [fillAt EXCEPT ![i] = 0]
          /\ filled' = filled /\ inited' = inited
      BY <1>5, <2>2 DEF Enter, Goto
    <3>2. 0 .. 0 - 1 \subseteq filled
      OBVIOUS
    <3> QED
      BY <2>2, <3>1, <3>2 DEF TypeOK, BlockInv, NoRawBlock, At
  <2> QED
    BY <2>1, <2>2
<1>6. CASE Fill(i)
  <2>1. /\ filled' = filled \cup {fillAt[i]} /\ fillAt' = [fillAt EXCEPT ![i] = @ + 1]
        /\ pc' = pc /\ inited' = inited /\ pc[i] = "fill" /\ fillAt[i] < Words
    BY <1>6 DEF Fill, At
  <2>2. fillAt[i] \in 0 .. Words - 1 /\ filled \subseteq 0 .. Words - 1
    BY <2>1, SizeAssumption DEF TypeOK
  <2>3. filled = 0 .. Words - 1 => filled' = 0 .. Words - 1
    BY <2>1, <2>2
  <2>4. ASSUME NEW j \in Instances, pc[j] = "fill" PROVE 0 .. fillAt'[j] - 1 \subseteq filled'
    <3>1. 0 .. fillAt[j] - 1 \subseteq filled
      BY <2>4 DEF BlockInv, At
    <3>2. CASE j = i
      <4>1. fillAt'[j] = fillAt[i] + 1
        BY <2>1, <3>2 DEF TypeOK
      <4>2. 0 .. fillAt'[j] - 1 \subseteq (0 .. fillAt[i] - 1) \cup {fillAt[i]}
        BY <2>2, <4>1
      <4> QED
        BY <2>1, <3>1, <3>2, <4>2
    <3>3. CASE j # i
      BY <2>1, <3>1, <3>3 DEF TypeOK
    <3> QED
      BY <3>2, <3>3
  <2> QED
    BY <2>1, <2>3, <2>4 DEF BlockInv, NoRawBlock, At
<1>7. CASE Filled(i)
  <2>1. /\ pc' = [pc EXCEPT ![i] = "write"] /\ pc[i] = "fill" /\ fillAt[i] = Words
        /\ fillAt' = fillAt /\ filled' = filled
    BY <1>7 DEF Filled, At, Goto
  <2>2. filled = 0 .. Words - 1
    BY <2>1 DEF TypeOK, BlockInv, At
  <2> QED
    BY <2>1, <2>2 DEF TypeOK, BlockInv, NoRawBlock, At
<1>8. ASSUME NEW n, Put(i, n) PROVE BlockInv'
  BY <1>8, BlockAlone DEF Put
<1>9. CASE Write(i)
  BY <1>8, <1>9 DEF Write
<1>10. CASE WriteFails(i)
  BY <1>8, <1>10 DEF WriteFails
<1>11. CASE AfterFirst(i)
  BY <1>11, BlockAlone DEF AfterFirst
<1>12. CASE AfterCalibration(i)
  BY <1>12, BlockAlone DEF AfterCalibration
<1>13. CASE AfterBatch(i)
  BY <1>13, BlockAlone DEF AfterBatch
<1> QED
  BY <1>1, <1>2, <1>3, <1>4, <1>5, <1>6, <1>7, <1>9, <1>10, <1>11, <1>12,
     <1>13 DEF Step

-----------------------------------------------------------------------------
(* What a step of one instance leaves to another.                          *)
LEMMA OthersWait ==
    ASSUME TypeOK, NEW i \in Instances, Step(i), NEW j \in Instances, j # i
    PROVE  /\ pc'[j] = pc[j] /\ loop'[j] = loop[j] /\ left'[j] = left[j]
           /\ done'[j] = done[j] /\ clock'[j] = clock[j]
           /\ offset'[j] = offset[j] /\ lost'[j] = lost[j] /\ ino'[j] = ino[j]
<1> USE DEF TypeOK, Goto, progress, files
<1>1. CASE Open(i)
  BY <1>1 DEF Open
<1>2. CASE OpenFails(i)
  BY <1>2 DEF OpenFails
<1>3. CASE Resize(i)
  BY <1>3 DEF Resize
<1>4. CASE ResizeFails(i)
  BY <1>4 DEF ResizeFails
<1>5. CASE Enter(i)
  BY <1>5 DEF Enter
<1>6. CASE Fill(i)
  BY <1>6 DEF Fill
<1>7. CASE Filled(i)
  BY <1>7 DEF Filled
<1>8. ASSUME NEW n, Put(i, n)
      PROVE  /\ pc'[j] = pc[j] /\ loop'[j] = loop[j] /\ left'[j] = left[j]
             /\ done'[j] = done[j] /\ clock'[j] = clock[j]
             /\ offset'[j] = offset[j] /\ lost'[j] = lost[j] /\ ino'[j] = ino[j]
  BY <1>8 DEF Put
<1>9. CASE Write(i)
  BY <1>8, <1>9 DEF Write
<1>10. CASE WriteFails(i)
  BY <1>8, <1>10 DEF WriteFails
<1>11. CASE AfterFirst(i)
  BY <1>11 DEF AfterFirst
<1>12. CASE AfterCalibration(i)
  BY <1>12 DEF AfterCalibration
<1>13. CASE AfterBatch(i)
  BY <1>13 DEF AfterBatch
<1> QED
  BY <1>1, <1>2, <1>3, <1>4, <1>5, <1>6, <1>7, <1>9, <1>10, <1>11, <1>12,
     <1>13 DEF Step

(* No step changes the task or the names, and none but Open what a file    *)
(* descriptor stands for.                                                  *)
LEMMA FixedParts ==
    ASSUME NEW i \in Instances, Step(i)
    PROVE  /\ task' = task /\ name' = name
           /\ ~ At(i, "open") => ino' = ino
  BY DEF Step, Open, OpenFails, Resize, ResizeFails, Enter, Fill, Filled, Put,
         Write, WriteFails, AfterFirst, AfterCalibration, AfterBatch, At

LEMMA RanIsInt ==
    ASSUME TypeOK, NEW i \in Instances
    PROVE  Ran(i) \in Int
  BY SizeAssumption DEF TypeOK, Ran

(* One more kernel is one more block.                                      *)
LEMMA Distribute ==
    ASSUME NEW g \in Int, NEW r \in Int
    PROVE  g * (r + 1) = g * r + g
  OBVIOUS

LEMMA SeekStays ==
    ASSUME TypeOK, NEW i \in Instances
    PROVE  Seek(i) = offset[i]
<1>1. task.size \in Nat /\ task.size > Granu /\ Granu \in Nat
  BY TaskParts, SizeAssumption DEF TypeOK
<1> QED
  BY <1>1 DEF Seek, FilePos

LEMMA WorkKept ==
    ASSUME TypeOK, NEW i \in Instances, WorkOf(i), Step(i)
    PROVE  WorkOf(i)'
<1> USE DEF TypeOK, At, Goto
<1> DEFINE g == Granu * Ran(i)
<1>0. /\ g = offset[i] + lost[i] /\ Granu \in Nat \ {0} /\ Full \in Nat \ {0}
      /\ Calibration \in Nat \ {0}
  BY SizeAssumption DEF WorkOf
(* A step that runs no kernel and ends no loop.                            *)
<1>1. ASSUME NEW there \in {"resize", "kernel", "fill", "write", "exit"},
             pc' = pc \/ Goto(i, there), there = "resize" => At(i, "open"),
             pc[i] \in {"open", "resize", "kernel", "fill"},
             UNCHANGED progress, UNCHANGED <<offset, lost>>
      PROVE  WorkOf(i)'
  <2>1. Ran(i)' = Ran(i)
    BY <1>1 DEF Ran, progress
  <2>2. pc'[i] = pc[i] \/ pc'[i] = there
    BY <1>1
  <2>3. /\ loop' = loop /\ left' = left /\ done' = done /\ clock' = clock
        /\ offset' = offset /\ lost' = lost
    BY <1>1 DEF progress
  <2>4. left[i] >= 1
    BY <1>1 DEF WorkOf
  <2>5. offset[i]' + lost[i]' = Granu * Ran(i)'
    BY <1>0, <2>1, <2>3
  <2>6. pc[i]' \in {"open", "resize"} =>
          loop[i]' = "first" /\ left[i]' = 1 /\ offset[i]' = 0 /\ lost[i]' = 0
    BY <1>1, <2>2, <2>3 DEF WorkOf
  <2> QED
    BY <1>1, <2>2, <2>3, <2>4, <2>5, <2>6 DEF WorkOf
<1>2. CASE Open(i) \/ OpenFails(i) \/ Resize(i) \/ ResizeFails(i)
  BY <1>1, <1>2 DEF Open, OpenFails, Resize, ResizeFails, files
<1>3. CASE Enter(i) \/ Fill(i) \/ Filled(i)
  BY <1>1, <1>3 DEF Enter, Fill, Filled, files
(* A kernel: one more, and one less to go.                                 *)
<1>4. ASSUME NEW n \in 0 .. Granu, Put(i, n) PROVE WorkOf(i)'
  <2>1. /\ pc[i] = "write" /\ left[i] \in Nat /\ left[i] >= 1
        /\ offset[i] \in Nat /\ lost[i] \in Nat
    BY <1>4 DEF Put, WorkOf
  <2>2. /\ offset'[i] = offset[i] + n /\ lost'[i] = lost[i] + (Granu - n)
        /\ left'[i] = left[i] - 1 /\ loop' = loop /\ done' = done /\ clock' = clock
    BY <1>4, SeekStays DEF Put
  <2>3. pc'[i] = IF left[i] = 1 THEN "looped" ELSE "kernel"
    BY <1>4 DEF Put
  <2>4. Ran(i)' = Ran(i) + 1
    BY <1>0, <2>1, <2>2 DEF Ran
  <2>5. Granu * Ran(i)' = g + Granu
    BY <1>0, <2>4, RanIsInt, Distribute
  <2>6. offset[i]' + lost[i]' = Granu * Ran(i)'
    BY <1>0, <2>1, <2>2, <2>5
  <2>7. loop[i]' # "batch" => done[i]' = 0 /\ clock[i]' = 0
    BY <2>2 DEF WorkOf
  <2> QED
    BY <2>1, <2>2, <2>3, <2>6, <2>7 DEF WorkOf
<1>5. CASE Write(i) \/ WriteFails(i)
  BY <1>0, <1>4, <1>5 DEF Write, WriteFails
(* The end of a loop: as many as it has run.                               *)
<1>6. ASSUME pc[i] = "looped", pc'[i] \in {"kernel", "exit"}, left'[i] \in Nat \ {0},
             loop[i]' # "batch" => done[i]' = 0 /\ clock[i]' = 0,
             Ran(i)' = Ran(i), UNCHANGED <<offset, lost>>
      PROVE  WorkOf(i)'
  BY <1>0, <1>6 DEF WorkOf
<1>7. pc[i] = "looped" => left[i] = 0
  BY DEF WorkOf
<1>8. loop[i] # "batch" => done[i] = 0 /\ clock[i] = 0
  BY DEF WorkOf
<1>9. CASE AfterFirst(i)
  <2>1. /\ pc[i] = "looped" /\ loop[i] = "first" /\ loop'[i] = "calibrate"
        /\ left'[i] = Calibration /\ pc'[i] = "kernel"
        /\ done' = done /\ clock' = clock /\ offset' = offset /\ lost' = lost
    BY <1>9 DEF AfterFirst, files
  <2>2. Ran(i)' = Ran(i)
    BY <1>0, <1>7, <2>1 DEF Ran
  <2> QED
    BY <1>0, <1>6, <1>8, <2>1, <2>2
<1>10. CASE AfterCalibration(i)
  <2>1. /\ pc[i] = "looped" /\ loop[i] = "calibrate" /\ loop'[i] = "batch"
        /\ left'[i] = Full /\ pc'[i] = "kernel"
        /\ done' = done /\ clock' = clock /\ offset' = offset /\ lost' = lost
    BY <1>10 DEF AfterCalibration, files
  <2>2. Ran(i)' = Ran(i)
    BY <1>0, <1>7, <1>8, <2>1 DEF Ran
  <2> QED
    BY <1>0, <1>6, <1>8, <2>1, <2>2
<1>11. CASE AfterBatch(i)
  <2>1. /\ pc[i] = "looped" /\ loop[i] = "batch" /\ loop' = loop
        /\ left'[i] = Full /\ pc'[i] \in {"kernel", "exit"}
        /\ done'[i] = done[i] + Full /\ offset' = offset /\ lost' = lost
    BY <1>11 DEF AfterBatch, files
  <2>2. Ran(i)' = Ran(i)
    BY <1>0, <1>7, <2>1 DEF Ran
  <2> QED
    BY <1>0, <1>6, <2>1, <2>2
<1> QED
  BY <1>2, <1>3, <1>5, <1>9, <1>10, <1>11 DEF Step

(* Only a batch is judged by a limit, and only the one that was not yet    *)
(* at it before.                                                           *)
LEMMA LimitKept ==
    ASSUME TypeOK, NEW i \in Instances, WorkOf(i), LimitOf(i), Step(i)
    PROVE  LimitOf(i)'
<1> USE DEF TypeOK, At, Goto
<1>1. task' = task /\ task.limit \in Nat /\ task.time \in Nat
  BY TaskParts, FixedParts
<1>2. /\ done[i] \in Nat /\ clock[i] \in Nat /\ Full \in Nat
  BY SizeAssumption
<1>3. ASSUME done'[i] = done[i], clock'[i] = clock[i],
             loop[i] # "batch" \/ pc[i] \in Writing,
             pc'[i] = "exit" => loop'[i] # "batch"
      PROVE  LimitOf(i)'
  <2>1. LimitReached(done[i], clock[i])' <=> LimitReached(done[i], clock[i])
    BY <1>1, <1>3 DEF LimitReached
  <2>2. loop[i] # "batch" => ~ LimitReached(done[i], clock[i])
    BY <1>1 DEF WorkOf, LimitReached, NoLimit
  <2> QED
    BY <1>3, <2>1, <2>2 DEF LimitOf
<1>4. CASE Open(i) \/ OpenFails(i) \/ Resize(i) \/ ResizeFails(i)
  BY <1>3, <1>4 DEF Open, OpenFails, Resize, ResizeFails, progress, WorkOf, Writing
<1>5. CASE Enter(i) \/ Fill(i) \/ Filled(i)
  BY <1>3, <1>5 DEF Enter, Fill, Filled, progress, Writing
<1>6. ASSUME NEW n, Put(i, n) PROVE LimitOf(i)'
  BY <1>3, <1>6 DEF Put, Writing
<1>7. CASE Write(i) \/ WriteFails(i)
  BY <1>6, <1>7 DEF Write, WriteFails
<1>8. CASE AfterFirst(i) \/ AfterCalibration(i)
  BY <1>3, <1>8 DEF AfterFirst, AfterCalibration, Writing
<1>9. CASE AfterBatch(i)
  <2>1. ~ LimitReached(done[i], clock[i])
    BY <1>9 DEF AfterBatch, LimitOf, Writing
  <2>2. PICK d \in Durations :
          /\ done'[i] = done[i] + Full /\ clock'[i] = clock[i] + d
          /\ pc'[i] = IF LimitReached(done'[i], clock'[i]) THEN "exit" ELSE "kernel"
    BY <1>9 DEF AfterBatch
  <2>3. LimitReached(done[i], clock[i])' <=> LimitReached(done'[i], clock'[i])
    BY <1>1 DEF LimitReached
  <2>4. pc[i]' \in Writing => ~ LimitReached(done[i], clock[i])'
    BY <2>2, <2>3 DEF Writing
  <2>5. task.limit # NoLimit => done'[i] < task.limit + Full
    BY <1>1, <1>2, <2>1, <2>2 DEF LimitReached
  <2>6. pc'[i] = "exit" /\ task.limit = NoLimit => clock'[i] >= task.time
    BY <2>2 DEF LimitReached
  <2> QED
    BY <1>1, <2>4, <2>5, <2>6 DEF LimitOf
<1> QED
  BY <1>4, <1>5, <1>7, <1>8, <1>9 DEF Step

-----------------------------------------------------------------------------
(* What a step of an instance changes of the files: its own one, and where *)
(* its own name leads.                                                     *)
LEMMA TouchesItsOwn ==
    ASSUME TypeOK, NEW i \in Instances, Step(i)
    PROVE  /\ \A f \in Files : f # ino[i] \/ At(i, "open") => size'[f] = size[f]
           /\ \A m \in Names : m # name[i] => dir'[m] = dir[m]
<1> USE DEF TypeOK
<1>1. CASE Open(i) \/ OpenFails(i)
  BY <1>1 DEF Open, OpenFails, files
<1>2. CASE Resize(i)
  BY <1>2 DEF Resize, At
<1>3. CASE ResizeFails(i)
  BY <1>3 DEF ResizeFails
<1>4. CASE Enter(i) \/ Fill(i) \/ Filled(i)
  BY <1>4 DEF Enter, Fill, Filled, files
<1>5. ASSUME NEW n, Put(i, n)
      PROVE  /\ \A f \in Files : f # ino[i] \/ At(i, "open") => size'[f] = size[f]
             /\ \A m \in Names : m # name[i] => dir'[m] = dir[m]
  BY <1>5 DEF Put, At
<1>6. CASE Write(i) \/ WriteFails(i)
  BY <1>5, <1>6 DEF Write, WriteFails
<1>7. CASE AfterFirst(i) \/ AfterCalibration(i) \/ AfterBatch(i)
  BY <1>7 DEF AfterFirst, AfterCalibration, AfterBatch, files
<1> QED
  BY <1>1, <1>2, <1>3, <1>4, <1>6, <1>7 DEF Step

LEMMA NoFileIsNone == NoFile \notin Files
  BY FileAssumption DEF Files, NoFile, Leftover

LEMMA FileOfOther ==
    ASSUME TypeOK, NEW i \in Instances, FileOf(i), Step(i),
           NEW j \in Instances, j # i, FileOf(j)
    PROVE  FileOf(j)'
<1>1. /\ pc'[j] = pc[j] /\ offset'[j] = offset[j] /\ ino'[j] = ino[j]
      /\ task' = task /\ name' = name
  BY OthersWait, FixedParts
<1>2. name[j] \in Names /\ name[i] \in Names
  BY DEF TypeOK
<1>3. ASSUME pc[j] \in Writing, SoleWriter(j)'
      PROVE  SoleWriter(j) /\ size'[ino[j]] = size[ino[j]]
  <2>1. ino[j] \in Files
    BY <1>3 DEF FileOf
  <2>2. CASE At(i, "open")
    <3>1. ino[i] # ino[j]
      BY <2>1, <2>2, NoFileIsNone DEF FileOf
    <3>2. \A k \in Instances \ {i} : ino'[k] = ino[k]
      BY OthersWait
    <3> QED
      BY <1>1, <1>3, <2>1, <2>2, <3>1, <3>2, TouchesItsOwn DEF SoleWriter
  <2>3. CASE ~ At(i, "open")
    <3>1. ino' = ino
      BY <2>3, FixedParts
    <3>2. SoleWriter(j) /\ ino[i] # ino[j]
      BY <1>3, <3>1 DEF SoleWriter
    <3> QED
      BY <2>1, <3>2, TouchesItsOwn
  <2> QED
    BY <2>2, <2>3
<1>4. ASSUME SoleName(j)' PROVE SoleName(j) /\ dir'[name[j]] = dir[name[j]]
  <2>1. SoleName(j) /\ name[i] # name[j]
    BY <1>1, <1>4 DEF SoleName
  <2> QED
    BY <1>2, <2>1, TouchesItsOwn
<1> QED
  BY <1>1, <1>3, <1>4 DEF FileOf, At

LEMMA FileOfItself ==
    ASSUME TypeOK, NEW i \in Instances, WorkOf(i), FileOf(i), Step(i)
    PROVE  FileOf(i)'
<1> USE DEF TypeOK, At, Goto
<1>1. /\ task' = task /\ name' = name /\ name[i] \in Names
      /\ task.size \in Nat /\ Granu \in Nat
  BY FixedParts, TaskParts, SizeAssumption
<1>2. SoleName(i)' <=> SoleName(i)
  BY <1>1 DEF SoleName
<1>3. CASE Open(i)
  <2>1. pc'[i] = "resize" /\ ino'[i] = dir'[name[i]]
    BY <1>1, <1>3 DEF Open
  <2> QED
    BY <1>1, <2>1 DEF FileOf, Writing
<1>4. CASE OpenFails(i)
  <2>1. pc'[i] = "resize" /\ ino' = ino /\ ino[i] = NoFile
    BY <1>4 DEF OpenFails, FileOf
  <2> QED
    BY <2>1 DEF FileOf, Writing
<1>5. CASE Resize(i)
  <2>1. /\ pc[i] = "resize" /\ pc'[i] = "kernel" /\ ino[i] # NoFile /\ ino[i] \in Files
        /\ size'[ino[i]] = task.size /\ ino' = ino /\ dir' = dir /\ offset' = offset
    BY <1>5 DEF Resize
  <2>2. Max2(task.size, offset[i]) = task.size
    BY <1>1, <2>1 DEF Max2, WorkOf
  <2> QED
    BY <1>1, <1>2, <2>1, <2>2 DEF FileOf, Writing, Max2
<1>6. CASE ResizeFails(i)
  <2>1. pc'[i] = "exit"
    BY <1>6 DEF ResizeFails
  <2> QED
    BY <2>1 DEF FileOf, Writing
(* A step that only goes on.                                               *)
<1>7. ASSUME pc[i] \in Writing, pc'[i] \in Writing \cup {"exit"},
             UNCHANGED <<ino, dir, size, offset>>
      PROVE  FileOf(i)'
  <2>1. SoleWriter(i)' <=> SoleWriter(i)
    BY <1>7 DEF SoleWriter
  <2> QED
    BY <1>1, <1>2, <1>7, <2>1 DEF FileOf, Writing, Max2
<1>8. CASE Enter(i) \/ Fill(i) \/ Filled(i)
  BY <1>7, <1>8 DEF Enter, Fill, Filled, files, Writing
<1>9. CASE AfterFirst(i) \/ AfterCalibration(i) \/ AfterBatch(i)
  BY <1>7, <1>9 DEF AfterFirst, AfterCalibration, AfterBatch, files, Writing
<1>10. ASSUME NEW n \in 0 .. Granu, Put(i, n) PROVE FileOf(i)'
  <2>1. /\ pc[i] = "write" /\ pc'[i] \in Writing /\ ino' = ino /\ dir' = dir
        /\ offset'[i] = offset[i] + n /\ offset[i] \in Nat /\ n \in Nat
    BY <1>1, <1>10, SeekStays DEF Put, Writing
  <2>2. ino[i] \in Files
    BY <2>1 DEF FileOf, Writing
  <2>3. n > 0 => size'[ino[i]] = Max2(size[ino[i]], offset[i] + n)
    BY <1>10, <2>2, SeekStays DEF Put
  <2>4. n = 0 => size' = size
    BY <1>10 DEF Put
  <2>5. ASSUME SoleWriter(i)' PROVE size'[ino[i]] = Max2(task.size, offset'[i])
    <3>1. size[ino[i]] = Max2(task.size, offset[i])
      BY <2>1, <2>5 DEF SoleWriter, FileOf, Writing
    <3>2. CASE n > 0
      BY <1>1, <2>1, <2>3, <3>1, <3>2 DEF Max2
    <3>3. CASE n = 0
      BY <2>1, <2>4, <3>1, <3>3
    <3> QED
      BY <2>1, <3>2, <3>3
  <2>6. Max2(task.size, offset[i])' = Max2(task.size, offset'[i])
    BY <1>1 DEF Max2
  <2> QED
    BY <1>1, <1>2, <2>1, <2>2, <2>5, <2>6 DEF FileOf, Writing
<1>11. CASE Write(i) \/ WriteFails(i)
  BY <1>1, <1>10, <1>11 DEF Write, WriteFails
<1> QED
  BY <1>3, <1>4, <1>5, <1>6, <1>8, <1>9, <1>11 DEF Step

-----------------------------------------------------------------------------
LEMMA DiskInvStarts == Init => DiskInv
<1> SUFFICES ASSUME Init PROVE DiskInv
  OBVIOUS
<1>1. TypeOK
  BY TypeStarts
<1>2. BlockInv
  BY Zenon DEF Init, BlockInv, NoRawBlock, At
<1>3. ASSUME NEW i \in Instances PROVE WorkOf(i) /\ LimitOf(i) /\ FileOf(i)
  <2>1. /\ pc[i] = "open" /\ loop[i] = "first" /\ left[i] = 1 /\ done[i] = 0
        /\ clock[i] = 0 /\ offset[i] = 0 /\ lost[i] = 0 /\ ino[i] = NoFile
    BY DEF Init
  <2>2. Ran(i) = 0 /\ Granu * 0 = 0
    BY <2>1, SizeAssumption DEF Ran
  <2>3. WorkOf(i)
    BY <2>1, <2>2 DEF WorkOf, At
  <2> QED
    BY <2>1, <2>3 DEF LimitOf, FileOf, At, Writing
<1> QED
  BY <1>1, <1>2, <1>3 DEF DiskInv

LEMMA DiskInvSteps == DiskInv /\ [Next]_vars => DiskInv'
<1> SUFFICES ASSUME DiskInv, [Next]_vars PROVE DiskInv'
  OBVIOUS
<1>1. ASSUME NEW i \in Instances, Step(i) PROVE DiskInv'
  <2>1. TypeOK'
    BY <1>1, TypeKept DEF DiskInv
  <2>2. BlockInv'
    BY <1>1, BlockKept DEF DiskInv
  <2>3. ASSUME NEW j \in Instances PROVE WorkOf(j)' /\ LimitOf(j)' /\ FileOf(j)'
    <3>1. CASE j = i
      BY <1>1, <3>1, WorkKept, LimitKept, FileOfItself DEF DiskInv
    <3>2. CASE j # i
      <4>1. /\ pc'[j] = pc[j] /\ loop'[j] = loop[j] /\ left'[j] = left[j]
            /\ done'[j] = done[j] /\ clock'[j] = clock[j]
            /\ offset'[j] = offset[j] /\ lost'[j] = lost[j] /\ task' = task
        BY <1>1, <3>2, OthersWait, FixedParts DEF DiskInv
      <4>2. Ran(j)' = Ran(j)
        BY <4>1 DEF Ran
      <4>3. WorkOf(j)'
        BY <4>1, <4>2 DEF DiskInv, WorkOf, At
      <4>4. LimitOf(j)'
        BY <4>1 DEF DiskInv, LimitOf, LimitReached, At
      <4>5. FileOf(j)'
        BY <1>1, <3>2, FileOfOther DEF DiskInv
      <4> QED
        BY <4>3, <4>4, <4>5
    <3> QED
      BY <3>1, <3>2
  <2> QED
    BY <2>1, <2>2, <2>3 DEF DiskInv
<1>2. CASE UNCHANGED vars
  <2>1. TypeOK'
    BY <1>2 DEF DiskInv, TypeOK, vars, progress, block, files
  <2>2. BlockInv'
    BY <1>2 DEF DiskInv, BlockInv, NoRawBlock, At, vars, block
  <2>3. ASSUME NEW j \in Instances PROVE WorkOf(j)' /\ LimitOf(j)' /\ FileOf(j)'
    BY <1>2 DEF DiskInv, WorkOf, LimitOf, FileOf, LimitReached, At, Ran, Max2,
                SoleWriter, SoleName, vars, progress, files
  <2> QED
    BY <2>1, <2>2, <2>3 DEF DiskInv
<1> QED
  BY <1>1, <1>2 DEF Next, Finished

LEMMA DiskInvariant == Spec => []DiskInv
  BY DiskInvStarts, DiskInvSteps, PTL DEF Spec

(* Every part of an instance keeps its type: what is left of a loop never  *)
(* goes below zero, and a failed open leaves no file behind.               *)
THEOREM DiskTypeCorrect == Spec => []TypeOK
<1>1. DiskInv => TypeOK
  BY DEF DiskInv
<1> QED
  BY <1>1, DiskInvariant, PTL

(* No instance writes a block that another one has only begun to fill,     *)
(* for any number of instances and words.                                  *)
THEOREM BlockAlwaysFilled == Spec => []NoRawBlock
<1>1. DiskInv => NoRawBlock
  BY DEF DiskInv, BlockInv
<1> QED
  BY <1>1, DiskInvariant, PTL

(* What was written and what was refused add up, and a file that one       *)
(* instance has is as long as asked for or as far as it wrote, for any     *)
(* number of instances, sizes, short writes and files of the same name.    *)
THEOREM FileKeepsCount == Spec => []FileAsCounted
<1>1. DiskInv => FileAsCounted
  <2> SUFFICES ASSUME DiskInv, NEW i \in Instances
               PROVE  /\ offset[i] + lost[i] = Granu * Ran(i)
                      /\ At(i, "kernel") /\ SoleWriter(i) =>
                           size[ino[i]] = Max2(task.size, offset[i])
                      /\ At(i, "kernel") /\ SoleName(i) => dir[name[i]] = ino[i]
    BY DEF FileAsCounted
  <2>1. WorkOf(i) /\ FileOf(i)
    BY DEF DiskInv
  <2>2. At(i, "kernel") => pc[i] \in Writing /\ ino[i] # NoFile
    BY <2>1, NoFileIsNone DEF At, Writing, FileOf
  <2> QED
    BY <2>1, <2>2 DEF WorkOf, FileOf
<1> QED
  BY <1>1, DiskInvariant, PTL

(* A limit of rounds or of time ends an instance with the batch that       *)
(* reaches it, whatever a batch takes and however many kernels it is.      *)
THEOREM DiskLimitsHold == Spec => []LimitsHold
<1>1. DiskInv => LimitsHold
  BY DEF DiskInv, LimitOf, LimitsHold
<1> QED
  BY <1>1, DiskInvariant, PTL
=============================================================================
