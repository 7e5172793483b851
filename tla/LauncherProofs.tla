--------------------------- MODULE LauncherProofs ---------------------------
(***************************************************************************)
(* Proofs about Launcher for every list of tasks: no thread object is lost *)
(* and tasks run next to each other only where they may.  The invariant    *)
(* says where the thread object of an instance can be: in the entry's      *)
(* vector as long as its task is the current one, and in glob_threads only *)
(* if its task does not join.  The table is overrun only by more instances *)
(* than it has slots.                                                      *)
(***************************************************************************)
EXTENDS Launcher, FiniteSetTheorems, FunctionTheorems, TLAPS

InEntry == main \in {"start", "join", "wild"}

\* Between the calls of two entries there is no vector, within one there is a task.
CallInv ==
  /\ InEntry => at <= Len(jobs)
  /\ ~InEntry => thrs = <<>>
  /\ main # "join" /\ main # "wild" => Len(thrs) <= IF InEntry THEN jobs[at].threads ELSE 0

\* No instance is of a task to come, or has a number to come.
PastInv == \A x \in running \cup ended :
  /\ x[1] <= at
  /\ ~InEntry => x[1] < at
  /\ main = "start" /\ x[1] = at => x[2] <= Len(thrs)

VectorInv == \A i \in DOMAIN thrs : thrs[i][1] = at
TableInv == \A i \in DOMAIN glob : ~Joins(glob[i][1])

LInv == TypeOK /\ CallInv /\ PastInv /\ VectorInv /\ TableInv /\ NoThreadLost

-----------------------------------------------------------------------------
\* What Append, \o and Tail keep of a sequence of threads.
LEMMA HeldAppend ==
  ASSUME NEW T, NEW s \in Seq(T), NEW e \in T, NEW x
  PROVE  /\ Held(e, Append(s, e))
         /\ Held(x, s) => Held(x, Append(s, e))
<1>1. Append(s, e)[Len(s) + 1] = e /\ Len(s) + 1 \in DOMAIN Append(s, e)
  OBVIOUS
<1>2. ASSUME NEW i \in DOMAIN s PROVE Append(s, e)[i] = s[i] /\ i \in DOMAIN Append(s, e)
  OBVIOUS
<1> QED
  BY <1>1, <1>2 DEF Held

LEMMA HeldConcat ==
  ASSUME NEW T, NEW s \in Seq(T), NEW t \in Seq(T), NEW x, Held(x, s) \/ Held(x, t)
  PROVE  Held(x, s \o t)
<1>1. CASE Held(x, s)
  <2>1. PICK i \in DOMAIN s : s[i] = x
    BY <1>1 DEF Held
  <2>2. (s \o t)[i] = x /\ i \in DOMAIN (s \o t)
    BY <2>1
  <2> QED
    BY <2>2 DEF Held
<1>2. CASE Held(x, t)
  <2>1. PICK i \in DOMAIN t : t[i] = x
    BY <1>2 DEF Held
  <2>2. (s \o t)[Len(s) + i] = x /\ Len(s) + i \in DOMAIN (s \o t)
    BY <2>1
  <2> QED
    BY <2>2 DEF Held
<1> QED
  BY <1>1, <1>2

LEMMA HeldTail ==
  ASSUME NEW T, NEW s \in Seq(T), s # <<>>, NEW x, x # Head(s), Held(x, s)
  PROVE  Held(x, Tail(s))
<1>1. PICK i \in DOMAIN s : s[i] = x
  BY DEF Held
<1>2. i - 1 \in DOMAIN Tail(s) /\ Tail(s)[i - 1] = x
  BY <1>1
<1> QED
  BY <1>2 DEF Held

-----------------------------------------------------------------------------
Job == [udp : BOOLEAN, mayFail : BOOLEAN, ends : BOOLEAN, threads : Nat \ {0}]

\* The launcher may start on any tasks, wherever they come from.
LEMMA IdleLInv ==
  ASSUME jobs \in Seq(Job), parallel \in BOOLEAN, Idle
  PROVE  LInv
<1> USE DEF Idle
<1>1. TypeOK
  BY LauncherAssumption DEF TypeOK, Job
<1>2. CallInv /\ PastInv /\ VectorInv /\ TableInv /\ NoThreadLost
  BY <1>1 DEF CallInv, InEntry, PastInv, VectorInv, TableInv, NoThreadLost, TypeOK
<1> QED
  BY <1>1, <1>2 DEF LInv

LEMMA InitLInv == Init => LInv
BY IdleLInv, LauncherAssumption DEF Init, Job

LEMMA Numbers ==
  ASSUME TypeOK
  PROVE  /\ at \in Nat /\ used \in Nat /\ Slots \in Nat
         /\ Len(jobs) \in Nat /\ Len(thrs) \in Nat
         /\ DOMAIN jobs = 1..Len(jobs) /\ DOMAIN thrs = 1..Len(thrs)
         /\ \A x \in running \cup ended : x[1] \in Nat /\ x[2] \in Nat
         /\ at <= Len(jobs) => at \in DOMAIN jobs /\ jobs[at].threads \in Nat
<1>1. /\ jobs \in Seq([udp : BOOLEAN, mayFail : BOOLEAN, ends : BOOLEAN, threads : Nat \ {0}])
      /\ at \in 1..Len(jobs) + 1 /\ used \in 0..Slots /\ thrs \in Seq(Nat \X Nat)
      /\ running \cup ended \subseteq Nat \X Nat
  BY DEF TypeOK
<1>2. /\ Len(jobs) \in Nat /\ Len(thrs) \in Nat
      /\ DOMAIN jobs = 1..Len(jobs) /\ DOMAIN thrs = 1..Len(thrs)
  BY <1>1
<1>3. at \in Nat /\ used \in Nat /\ Slots \in Nat
  BY <1>1, <1>2, LauncherAssumption
<1>4. \A x \in running \cup ended : x[1] \in Nat /\ x[2] \in Nat
  BY <1>1
<1>5. at <= Len(jobs) => at \in DOMAIN jobs
  BY <1>1, <1>2
<1>6. at \in DOMAIN jobs => jobs[at].threads \in Nat
  <2>1. \A j \in Job : j.threads \in Nat
    BY DEF Job
  <2>2. jobs \in Seq(Job)
    BY <1>1 DEF Job
  <2>3. at \in DOMAIN jobs => jobs[at] \in Job
    BY <2>2
  <2> QED
    BY <2>1, <2>3
<1> QED
  BY <1>2, <1>3, <1>4, <1>5, <1>6

\* The steps of main that neither start nor hand over nor join a thread.
Moves == Enter \/ EntryFails \/ WaitForAll \/ Leave \/ AllTasksDone \/ Exit

LEMMA MovesKeep ==
  ASSUME LInv, Moves
  PROVE  LInv'
<1>1. TypeOK /\ CallInv /\ PastInv /\ VectorInv /\ TableInv /\ NoThreadLost
  BY DEF LInv
<1>2. UNCHANGED <<jobs, parallel, thrs, glob, used, running, ended>>
  BY DEF Moves, Enter, EntryFails, WaitForAll, Leave, AllTasksDone, Exit
<1>3. /\ at' \in 1..Len(jobs) + 1
      /\ main' \in {"entry", "start", "join", "last", "exit"}
  <2>1. at \in 1..Len(jobs) + 1 /\ Len(jobs) \in Nat
    BY <1>1, Numbers DEF TypeOK
  <2>2. main = "join" => at <= Len(jobs)
    BY <1>1 DEF CallInv, InEntry
  <2> QED
    BY <2>1, <2>2 DEF Moves, Enter, EntryFails, WaitForAll, AllStarted, Leave, AllTasksDone, Exit
<1>4. TypeOK'
  BY <1>1, <1>2, <1>3 DEF TypeOK
<1>5. \/ main' \in {"start", "join"} /\ at' = at /\ at <= Len(jobs)
         /\ Len(thrs) <= jobs[at].threads
         /\ (main' = "start" => thrs = <<>> /\ main = "entry")
      \/ main' \in {"entry", "last", "exit"} /\ at <= at' /\ thrs = <<>>
         /\ (InEntry => at < at')
  BY <1>1, Numbers DEF Moves, Enter, EntryFails, WaitForAll, AllStarted, Leave, AllTasksDone,
     Exit, CallInv, InEntry
<1>6. CallInv'
  BY <1>1, <1>2, <1>5, Numbers DEF CallInv, InEntry
<1>7. PastInv'
  BY <1>1, <1>2, <1>3, <1>5, Numbers DEF PastInv, InEntry
<1>8. VectorInv'
  BY <1>1, <1>2, <1>5 DEF VectorInv
<1>9. TableInv' /\ NoThreadLost'
  BY <1>1, <1>2 DEF TableInv, Joins, NoThreadLost, Held
<1> QED
  BY <1>4, <1>6, <1>7, <1>8, <1>9 DEF LInv

LEMMA StartKeeps ==
  ASSUME LInv, StartInstance
  PROVE  LInv'
<1> DEFINE x == <<at, Len(thrs) + 1>>
<1>1. TypeOK /\ CallInv /\ PastInv /\ VectorInv /\ TableInv /\ NoThreadLost
  BY DEF LInv
<1>2. /\ main = "start" /\ main' = "start" /\ Len(thrs) < jobs[at].threads
      /\ thrs' = Append(thrs, x) /\ running' = running \cup {x}
      /\ UNCHANGED <<jobs, parallel, at, glob, used, ended>>
  BY DEF StartInstance
<1>3. at <= Len(jobs)
  BY <1>1, <1>2 DEF CallInv, InEntry
<1>4. /\ x \in Nat \X Nat /\ x[1] = at /\ x[2] = Len(thrs) + 1
      /\ x[1] \in DOMAIN jobs /\ x[2] \in 1..jobs[x[1]].threads
  BY <1>1, <1>2, <1>3, Numbers
<1>5. x \notin ended
  <2>1. ASSUME x \in ended PROVE x[2] <= Len(thrs)
    BY <1>1, <1>2, <1>4, <2>1 DEF PastInv
  <2> QED
    BY <1>1, <1>4, <2>1, Numbers
<1>6. /\ thrs' \in Seq(Nat \X Nat) /\ Len(thrs') = Len(thrs) + 1
      /\ \A i \in DOMAIN thrs' : (i \in DOMAIN thrs /\ thrs'[i] = thrs[i]) \/ thrs'[i] = x
  <2>1. thrs \in Seq(Nat \X Nat)
    BY <1>1 DEF TypeOK
  <2> HIDE DEF x
  <2> QED
    BY <1>2, <1>4, <2>1
<1> HIDE DEF x
<1>7. TypeOK'
  BY <1>1, <1>2, <1>4, <1>5, <1>6 DEF TypeOK
<1>8. CallInv'
  BY <1>1, <1>2, <1>3, <1>6, Numbers DEF CallInv, InEntry
<1>9. PastInv'
  BY <1>1, <1>2, <1>4, <1>6, Numbers DEF PastInv, InEntry
<1>10. VectorInv' /\ TableInv'
  BY <1>1, <1>2, <1>4, <1>6 DEF VectorInv, TableInv, Joins
<1>11. NoThreadLost'
  <2>1. thrs \in Seq(Nat \X Nat)
    BY <1>1 DEF TypeOK
  <2>2. ASSUME NEW y \in running PROVE Held(y, thrs') \/ Held(y, glob)
    BY <1>1, <1>2, <1>4, <2>1, HeldAppend DEF NoThreadLost
  <2>3. Held(x, thrs')
    BY <1>2, <1>4, <2>1, HeldAppend
  <2> QED
    BY <1>2, <2>2, <2>3 DEF NoThreadLost
<1> QED
  BY <1>7, <1>8, <1>9, <1>10, <1>11 DEF LInv

LEMMA LeaveToMainKeeps ==
  ASSUME LInv, LeaveToMain
  PROVE  LInv'
<1>1. TypeOK /\ CallInv /\ PastInv /\ VectorInv /\ TableInv /\ NoThreadLost
  BY DEF LInv
<1>2. /\ main = "start" /\ ~Joins(at) /\ UNCHANGED <<jobs, parallel, running, ended>>
      /\ at <= Len(jobs)
  BY <1>1 DEF LeaveToMain, AllStarted, CallInv, InEntry
<1>3. CASE main' = "wild" /\ UNCHANGED <<at, thrs, glob, used>>
  <2>1. TypeOK' /\ CallInv' /\ PastInv'
    BY <1>1, <1>2, <1>3 DEF TypeOK, CallInv, InEntry, PastInv
  <2>2. VectorInv' /\ TableInv' /\ NoThreadLost'
    BY <1>1, <1>2, <1>3 DEF VectorInv, TableInv, Joins, NoThreadLost, Held
  <2> QED
    BY <2>1, <2>2 DEF LInv
<1>4. CASE /\ used + Len(thrs) <= Slots
           /\ glob' = glob \o thrs /\ used' = used + Len(thrs)
           /\ thrs' = <<>> /\ at' = at + 1 /\ main' = "entry"
  <2>1. /\ thrs \in Seq(Nat \X Nat) /\ glob \in Seq(Nat \X Nat)
    BY <1>1 DEF TypeOK
  <2>2. /\ glob' \in Seq(Nat \X Nat)
        /\ \A i \in DOMAIN glob' : \/ i \in DOMAIN glob /\ glob'[i] = glob[i]
                                   \/ i - Len(glob) \in DOMAIN thrs /\ glob'[i] = thrs[i - Len(glob)]
    BY <1>4, <2>1
  <2>3. /\ at' \in 1..Len(jobs) + 1 /\ used' \in 0..Slots
        /\ thrs' \in Seq(Nat \X Nat)
    BY <1>1, <1>2, <1>4, Numbers
  <2>4. TypeOK'
    BY <1>1, <1>2, <1>4, <2>2, <2>3 DEF TypeOK
  <2>5. CallInv'
    BY <1>4 DEF CallInv, InEntry
  <2>6. PastInv'
    BY <1>1, <1>2, <1>4, Numbers DEF PastInv, InEntry
  <2>7. VectorInv'
    BY <1>4 DEF VectorInv
  <2>8. TableInv'
    BY <1>1, <1>2, <2>2 DEF TableInv, VectorInv, Joins
  <2>9. NoThreadLost'
    BY <1>1, <1>2, <1>4, <2>1, HeldConcat DEF NoThreadLost
  <2> QED
    BY <2>4, <2>5, <2>6, <2>7, <2>8, <2>9 DEF LInv
<1> QED
  BY <1>3, <1>4 DEF LeaveToMain

\* What is left of a vector of threads after the join of its head.
LEMMA TailOf ==
  ASSUME NEW s \in Seq(Nat \X Nat), s # <<>>
  PROVE  /\ Tail(s) \in Seq(Nat \X Nat) /\ Len(Tail(s)) = Len(s) - 1
         /\ \A i \in DOMAIN Tail(s) : i + 1 \in DOMAIN s /\ Tail(s)[i] = s[i + 1]
OBVIOUS

LEMMA JoinKeeps ==
  ASSUME LInv, Join
  PROVE  LInv'
<1>1. TypeOK /\ CallInv /\ PastInv /\ VectorInv /\ TableInv /\ NoThreadLost
  BY DEF LInv
<1>2. /\ main = "join" /\ thrs # <<>> /\ Head(thrs) \in ended /\ thrs' = Tail(thrs)
      /\ UNCHANGED <<jobs, parallel, main, at, glob, used, running, ended>>
  BY DEF Join
<1>3. thrs \in Seq(Nat \X Nat)
  BY <1>1 DEF TypeOK
<1>4. /\ thrs' \in Seq(Nat \X Nat)
      /\ \A i \in DOMAIN thrs' : i + 1 \in DOMAIN thrs /\ thrs'[i] = thrs[i + 1]
  BY <1>2, <1>3, TailOf
<1>5. TypeOK'
  BY <1>1, <1>2, <1>4 DEF TypeOK
<1>6. CallInv' /\ PastInv'
  BY <1>1, <1>2 DEF CallInv, InEntry, PastInv
<1>7. VectorInv' /\ TableInv'
  BY <1>1, <1>2, <1>4 DEF VectorInv, TableInv, Joins
<1>8. NoThreadLost'
  <2> SUFFICES ASSUME NEW x \in running PROVE Held(x, thrs') \/ Held(x, glob)
    BY <1>2 DEF NoThreadLost
  <2>1. x # Head(thrs)
    BY <1>1, <1>2 DEF TypeOK
  <2> QED
    BY <1>1, <1>2, <1>3, <2>1, HeldTail DEF NoThreadLost
<1> QED
  BY <1>5, <1>6, <1>7, <1>8 DEF LInv

LEMMA JoinLastKeeps ==
  ASSUME LInv, JoinLast
  PROVE  LInv'
<1>1. TypeOK /\ CallInv /\ PastInv /\ VectorInv /\ TableInv /\ NoThreadLost
  BY DEF LInv
<1>2. /\ main = "last" /\ glob # <<>> /\ Head(glob) \in ended /\ glob' = Tail(glob)
      /\ UNCHANGED <<jobs, parallel, main, at, thrs, used, running, ended>>
  BY DEF JoinLast
<1>3. glob \in Seq(Nat \X Nat)
  BY <1>1 DEF TypeOK
<1>4. /\ glob' \in Seq(Nat \X Nat)
      /\ \A i \in DOMAIN glob' : i + 1 \in DOMAIN glob /\ glob'[i] = glob[i + 1]
  BY <1>2, <1>3, TailOf
<1>5. TypeOK'
  BY <1>1, <1>2, <1>4 DEF TypeOK
<1>6. CallInv' /\ PastInv' /\ VectorInv'
  BY <1>1, <1>2 DEF CallInv, InEntry, PastInv, VectorInv
<1>7. TableInv'
  BY <1>1, <1>2, <1>4 DEF TableInv, Joins
<1>8. NoThreadLost'
  <2> SUFFICES ASSUME NEW x \in running PROVE Held(x, thrs) \/ Held(x, glob')
    BY <1>2 DEF NoThreadLost
  <2>1. x # Head(glob)
    BY <1>1, <1>2 DEF TypeOK
  <2> QED
    BY <1>1, <1>2, <1>3, <2>1, HeldTail DEF NoThreadLost
<1> QED
  BY <1>5, <1>6, <1>7, <1>8 DEF LInv

LEMMA EndKeeps ==
  ASSUME LInv, NEW x \in running, End(x)
  PROVE  LInv'
<1>1. TypeOK /\ CallInv /\ PastInv /\ VectorInv /\ TableInv /\ NoThreadLost
  BY DEF LInv
<1>2. /\ running' = running \ {x} /\ ended' = ended \cup {x}
      /\ UNCHANGED <<jobs, parallel, main, at, thrs, glob, used>>
  BY DEF End, mainVars
<1>3. TypeOK'
  BY <1>1, <1>2 DEF TypeOK
<1>4. CallInv' /\ PastInv'
  BY <1>1, <1>2 DEF CallInv, InEntry, PastInv
<1>5. VectorInv' /\ TableInv' /\ NoThreadLost'
  BY <1>1, <1>2 DEF VectorInv, TableInv, Joins, NoThreadLost, Held
<1> QED
  BY <1>3, <1>4, <1>5 DEF LInv

LEMMA NextLInv == LInv /\ [Next]_vars => LInv'
<1> SUFFICES ASSUME LInv, [Next]_vars PROVE LInv'
  OBVIOUS
<1>1. CASE Main
  BY <1>1, MovesKeep, StartKeeps, LeaveToMainKeeps, JoinKeeps, JoinLastKeeps DEF Main, Moves
<1>2. CASE EndSome
  BY <1>2, EndKeeps DEF EndSome
<1>3. CASE UNCHANGED vars
  <2>1. UNCHANGED <<jobs, parallel, main, at, thrs, glob, used, running, ended>>
    BY <1>3 DEF vars, mainVars
  <2>2. TypeOK' = TypeOK /\ CallInv' = CallInv /\ PastInv' = PastInv
    BY <2>1 DEF TypeOK, CallInv, InEntry, PastInv
  <2>3. VectorInv' = VectorInv /\ TableInv' = TableInv /\ NoThreadLost' = NoThreadLost
    BY <2>1 DEF VectorInv, TableInv, Joins, NoThreadLost, Held
  <2> QED
    BY <2>2, <2>3 DEF LInv
<1> QED
  BY <1>1, <1>2, <1>3 DEF Next

LEMMA LInvAlways == Spec => []LInv
BY InitLInv, NextLInv, PTL DEF Spec

\* For every list of tasks: main, the entry's vector and the table of threads
\* keep their types, the table is not overrun but in "wild", and every instance
\* that runs or has ended is one of those asked for, once.
THEOREM LauncherTypeCorrect == Spec => []TypeOK
<1>1. LInv => TypeOK
  BY DEF LInv
<1> QED
  BY <1>1, LInvAlways, PTL

\* For every list of tasks: the process is never ended by the destructor of a
\* thread object whose thread still runs (main and every entry).
THEOREM ThreadsNeverLost == Spec => []NoThreadLost
<1>1. LInv => NoThreadLost
  BY DEF LInv
<1> QED
  BY <1>1, LInvAlways, PTL

\* A running instance of another task is in the table, so its task does not join.
LEMMA OtherIsInTable ==
  ASSUME LInv, NEW y \in running, y[1] # at
  PROVE  parallel /\ ~jobs[y[1]].udp
<1>1. ~Held(y, thrs)
  BY DEF LInv, VectorInv, Held
<1>2. Held(y, glob)
  BY <1>1 DEF LInv, NoThreadLost
<1>3. ~Joins(y[1])
  BY <1>2 DEF LInv, TableInv, Held
<1> QED
  BY <1>3 DEF LInv, TypeOK, Joins

\* For every list of tasks: an instance starts next to another task's only with
\* --parallel and never next to a UDP task's (the branch on
\* FLAG_IS_RUN_PARALLEL at the end of every entry).
THEOREM TasksStartAlone == Spec => StartsAlone
<1> DEFINE A == \A x \in running' \ running, y \in running :
                  x[1] # y[1] => parallel /\ ~jobs[y[1]].udp
<1>1. LInv /\ [Next]_vars => [A]_vars
  <2> SUFFICES ASSUME LInv, Next PROVE A
    OBVIOUS
  <2>1. CASE StartInstance
    BY <2>1, OtherIsInTable DEF StartInstance
  <2>2. CASE ~StartInstance
    <3>1. running' \subseteq running
      BY <2>2 DEF Next, Main, Enter, EntryFails, WaitForAll, LeaveToMain, Join, Leave,
         AllTasksDone, JoinLast, Exit, EndSome, End
    <3> QED
      BY <3>1
  <2> QED
    BY <2>1, <2>2
<1> QED
  BY <1>1, LInvAlways, PTL DEF Spec, StartsAlone

-----------------------------------------------------------------------------
\* An instance of every task passed has been started, or its entry failed; and
\* main comes to its end past the last task and with an empty table.
Known == running \cup ended

StartedInv ==
  /\ \A t \in DOMAIN jobs : t < at => jobs[t].mayFail \/ Instances(t) \subseteq Known
  /\ main = "start" => \A i \in 1..Len(thrs) : <<at, i>> \in Known
  /\ main = "join" => Instances(at) \subseteq Known
  /\ main \in {"last", "exit"} => at > Len(jobs)
  /\ main = "exit" => glob = <<>>

LEMMA WholeTask ==
  ASSUME StartedInv, AllStarted
  PROVE  Instances(at) \subseteq Known
BY DEF StartedInv, AllStarted, Instances

LEMMA StartedSteps ==
  ASSUME LInv, StartedInv, [Next]_vars
  PROVE  StartedInv'
<1>1. Known \subseteq Known' /\ jobs' = jobs
  BY DEF Next, Main, Enter, EntryFails, StartInstance, WaitForAll, LeaveToMain, Join, Leave,
     AllTasksDone, JoinLast, Exit, EndSome, End, vars, mainVars, Known
<1>2. \A t \in DOMAIN jobs : Instances(t)' = Instances(t)
  BY <1>1 DEF Instances
<1>3. /\ at \in Nat /\ Len(jobs) \in Nat /\ Len(thrs) \in Nat
      /\ DOMAIN jobs = 1..Len(jobs)
      /\ thrs \in Seq(Nat \X Nat)
  BY Numbers DEF LInv, TypeOK
<1>4. at' = at => Instances(at)' = Instances(at)
  BY <1>1 DEF Instances
<1>5. \A t \in DOMAIN jobs : t < at => jobs[t].mayFail \/ Instances(t)' \subseteq Known'
  BY <1>1, <1>2 DEF StartedInv
\* A step that keeps main within a task, or between two.
<1>6. ASSUME at' = at, main' = main, thrs' = thrs, glob' = glob \/ main # "exit"
      PROVE  StartedInv'
  <2>1. main = "join" => Instances(at)' \subseteq Known'
    BY <1>1, <1>4, <1>6 DEF StartedInv
  <2> QED
    BY <1>1, <1>5, <1>6, <2>1 DEF StartedInv
\* A step past a task that was started, or whose entry failed.
<1>7. ASSUME at' = at + 1, main' = "entry", at <= Len(jobs),
             jobs[at].mayFail \/ Instances(at) \subseteq Known
      PROVE  StartedInv'
  <2>1. ASSUME NEW t \in DOMAIN jobs, t < at + 1
        PROVE  jobs[t].mayFail \/ Instances(t)' \subseteq Known'
    <3>1. CASE t < at
      BY <1>5, <3>1
    <3>2. CASE t = at
      <4>1. jobs[t].mayFail \/ Instances(t) \subseteq Known
        BY <1>7, <3>2
      <4> QED
        BY <1>1, <1>2, <4>1
    <3> QED
      BY <1>3, <2>1, <3>1, <3>2
  <2> QED
    BY <1>1, <1>7, <2>1 DEF StartedInv
<1>8. CASE Enter
  <2>1. thrs = <<>>
    BY <1>8 DEF Enter, LInv, CallInv, InEntry
  <2> QED
    BY <1>1, <1>5, <1>8, <2>1 DEF Enter, StartedInv
<1>9. CASE EntryFails
  BY <1>7, <1>9 DEF EntryFails
<1>10. CASE StartInstance
  <2>1. /\ main = "start" /\ main' = "start" /\ at' = at
        /\ thrs' = Append(thrs, <<at, Len(thrs) + 1>>)
        /\ <<at, Len(thrs) + 1>> \in Known'
    BY <1>10 DEF StartInstance, Known
  <2>2. Len(thrs') = Len(thrs) + 1
    BY <1>3, <2>1
  <2>3. ASSUME NEW i \in 1..Len(thrs') PROVE <<at, i>> \in Known'
    <3>1. CASE i = Len(thrs) + 1
      BY <2>1, <3>1
    <3>2. CASE i \in 1..Len(thrs)
      BY <1>1, <2>1, <3>2 DEF StartedInv
    <3> QED
      BY <1>3, <2>2, <3>1, <3>2
  <2> QED
    BY <1>1, <1>5, <2>1, <2>3 DEF StartedInv
<1>11. CASE WaitForAll
  <2>1. main' = "join" /\ at' = at /\ at <= Len(jobs)
    BY <1>11 DEF WaitForAll, AllStarted, LInv, CallInv, InEntry
  <2>2. Instances(at)' \subseteq Known'
    BY <1>1, <1>4, <1>11, <2>1, WholeTask DEF WaitForAll
  <2> QED
    BY <1>1, <1>5, <2>1, <2>2 DEF StartedInv
<1>12. CASE LeaveToMain
  <2>1. at <= Len(jobs)
    BY <1>12 DEF LeaveToMain, AllStarted, LInv, CallInv, InEntry
  <2>2. CASE main' = "wild"
    <3>1. at' = at
      BY <1>12, <2>2 DEF LeaveToMain
    <3> QED
      BY <1>1, <1>5, <2>2, <3>1 DEF StartedInv
  <2>3. CASE main' # "wild"
    BY <1>7, <1>12, <2>1, <2>3, WholeTask DEF LeaveToMain
  <2> QED
    BY <2>2, <2>3
<1>13. CASE Join
  <2>1. main = "join" /\ main' = main /\ at' = at /\ at <= Len(jobs)
    BY <1>13 DEF Join, LInv, CallInv, InEntry
  <2>2. Instances(at)' \subseteq Known'
    BY <1>1, <1>4, <2>1 DEF StartedInv
  <2> QED
    BY <1>1, <1>5, <2>1, <2>2 DEF StartedInv
<1>14. CASE Leave
  <2>1. main = "join" /\ main' = "entry" /\ at' = at + 1 /\ at <= Len(jobs)
    BY <1>14 DEF Leave, LInv, CallInv, InEntry
  <2> QED
    BY <1>7, <2>1 DEF StartedInv
<1>15. CASE AllTasksDone
  BY <1>1, <1>5, <1>15 DEF AllTasksDone, StartedInv
<1>16. CASE JoinLast
  BY <1>6, <1>16 DEF JoinLast
<1>17. CASE Exit
  BY <1>1, <1>5, <1>17 DEF Exit, StartedInv
<1>18. CASE EndSome \/ UNCHANGED vars
  BY <1>6, <1>18 DEF EndSome, End, vars, mainVars
<1> QED
  BY <1>8, <1>9, <1>10, <1>11, <1>12, <1>13, <1>14, <1>15, <1>16, <1>17, <1>18 DEF Next, Main

LEMMA IdleStarted ==
  ASSUME LInv, Idle
  PROVE  StartedInv
<1>1. \A t \in DOMAIN jobs : t >= 1
  BY Numbers DEF LInv
<1>2. main = "entry" /\ at = 1
  BY DEF Idle
<1> QED
  BY <1>1, <1>2, Numbers DEF LInv, StartedInv

LEMMA CleanExit ==
  ASSUME LInv, StartedInv
  PROVE  ExitIsClean
<1> SUFFICES ASSUME main = "exit"
             PROVE  /\ running = {}
                    /\ \A t \in DOMAIN jobs : Instances(t) \subseteq ended \/ jobs[t].mayFail
  BY DEF ExitIsClean
<1>1. glob = <<>> /\ thrs = <<>> /\ at > Len(jobs)
  BY DEF StartedInv, LInv, CallInv, InEntry
<1>2. running = {}
  BY <1>1 DEF LInv, NoThreadLost, Held
<1>3. DOMAIN jobs = 1..Len(jobs) /\ Len(jobs) \in Nat /\ at \in Nat
  BY Numbers DEF LInv
<1> QED
  BY <1>1, <1>2, <1>3 DEF StartedInv, Known

\* For every list of tasks: main returns only after every instance of every task
\* has, but for those of a task whose entry failed.
THEOREM ExitsClean == Spec => []ExitIsClean
<1>1. Init => StartedInv
  BY InitLInv, IdleStarted DEF Init
<1>2. LInv /\ StartedInv /\ [Next]_vars => StartedInv'
  BY StartedSteps
<1>3. LInv /\ StartedInv => ExitIsClean
  BY CleanExit
<1> QED
  BY <1>1, <1>2, <1>3, LInvAlways, PTL DEF Spec

-----------------------------------------------------------------------------
\* The slots used are at most those instances: a task whose entry failed has
\* none, so there may be fewer.
UsedInv ==
  /\ main # "wild" => /\ IsFiniteSet(LeftRunning(at - 1))
                      /\ used <= Cardinality(LeftRunning(at - 1))
  /\ TableOverflow

LEMMA InstancesCount ==
  ASSUME NEW t, jobs[t].threads \in Nat
  PROVE  IsFiniteSet(Instances(t)) /\ Cardinality(Instances(t)) = jobs[t].threads
<1> DEFINE n == jobs[t].threads
           f == [i \in 1..n |-> <<t, i>>]
<1>1. IsFiniteSet(1..n) /\ Cardinality(1..n) = n
  <2>1. n \in Nat /\ (IF 1 > n THEN 0 ELSE n - 1 + 1) = n
    OBVIOUS
  <2> HIDE DEF n
  <2> QED
    BY <2>1, FS_Interval
<1>2. f \in [1..n -> Instances(t)]
  BY DEF Instances
<1>3. \A a, b \in 1..n : f[a] = f[b] => a = b
  OBVIOUS
<1>4. \A x \in Instances(t) : \E i \in 1..n : f[i] = x
  BY DEF Instances
<1>5. f \in Bijection(1..n, Instances(t))
  BY <1>2, <1>3, <1>4, Fun_IsBij
<1>6. ExistsBijection(1..n, Instances(t))
  BY <1>5, Fun_ExistsBij
<1> QED
  BY <1>1, <1>6, FS_Bijection

\* One task more: its instances count if main leaves them running.
LEMMA OneTaskMore ==
  ASSUME NEW n \in Nat, jobs[n + 1].threads \in Nat, IsFiniteSet(LeftRunning(n))
  PROVE  /\ IsFiniteSet(LeftRunning(n + 1))
         /\ Cardinality(LeftRunning(n + 1)) \in Nat /\ Cardinality(LeftRunning(n)) \in Nat
         /\ Cardinality(LeftRunning(n + 1)) =
              Cardinality(LeftRunning(n)) + IF Joins(n + 1) THEN 0 ELSE jobs[n + 1].threads
<1> DEFINE Tasks(k) == {u \in 1..k : ~Joins(u)}
<1>1. IsFiniteSet(Instances(n + 1)) /\ Cardinality(Instances(n + 1)) = jobs[n + 1].threads
  BY InstancesCount
<1>2. CASE Joins(n + 1)
  <2>1. Tasks(n + 1) = Tasks(n)
    BY <1>2
  <2>2. LeftRunning(n + 1) = LeftRunning(n)
    BY <2>1, Zenon DEF LeftRunning
  <2> QED
    BY <1>2, <2>2, FS_CardinalityType
<1>3. CASE ~Joins(n + 1)
  <2>1. Tasks(n + 1) = Tasks(n) \cup {n + 1}
    BY <1>3
  <2>2. LeftRunning(n + 1) = LeftRunning(n) \cup Instances(n + 1)
    <3>1. \A k, x : x \in LeftRunning(k) <=> \E t \in Tasks(k) : x \in Instances(t)
      BY DEF LeftRunning
    <3> HIDE DEF Tasks
    <3> QED
      BY <2>1, <3>1
  <2>3. LeftRunning(n) \cap Instances(n + 1) = {}
    <3>1. ASSUME NEW x \in LeftRunning(n) PROVE x[1] \in 1..n
      BY <3>1 DEF LeftRunning, Instances
    <3>2. ASSUME NEW x \in Instances(n + 1) PROVE x[1] = n + 1
      BY <3>2 DEF Instances
    <3> QED
      BY <3>1, <3>2
  <2>4. /\ IsFiniteSet(LeftRunning(n + 1))
        /\ Cardinality(LeftRunning(n + 1)) =
             Cardinality(LeftRunning(n)) + Cardinality(Instances(n + 1))
               - Cardinality(LeftRunning(n) \cap Instances(n + 1))
    BY <1>1, <2>2, FS_Union
  <2>5. Cardinality(LeftRunning(n) \cap Instances(n + 1)) = 0
    BY <2>3, FS_EmptySet
  <2> QED
    BY <1>1, <1>3, <2>4, <2>5, FS_CardinalityType
<1> QED
  BY <1>2, <1>3

LEMMA IdleUsed ==
  ASSUME Idle
  PROVE  UsedInv
<1>1. at = 1 /\ used = 0 /\ main = "entry"
  BY DEF Idle
<1>2. LeftRunning(at - 1) = {}
  BY <1>1 DEF LeftRunning
<1> QED
  BY <1>1, <1>2, FS_EmptySet DEF UsedInv, TableOverflow

LEMMA UsedInvSteps ==
  ASSUME LInv, UsedInv, [Next]_vars
  PROVE  UsedInv'
<1>1. /\ at \in Nat /\ at - 1 \in Nat /\ used \in Nat /\ Slots \in Nat
      /\ at <= Len(jobs) => jobs[at].threads \in Nat
  BY Numbers DEF LInv, TypeOK
<1>2. UNCHANGED <<jobs, parallel>>
  BY DEF Next, Main, Enter, EntryFails, StartInstance, WaitForAll, LeaveToMain, Join, Leave,
     AllTasksDone, JoinLast, Exit, EndSome, End, vars, mainVars
<1>3. \A n : LeftRunning(n)' = LeftRunning(n)
  BY <1>2 DEF LeftRunning, Instances, Joins
\* A step that leaves the table as it is, at the same task or past one.
<1>4. ASSUME main # "wild", main' # "wild", used' = used,
             at' = at \/ (at <= Len(jobs) /\ at' = at + 1)
      PROVE  UsedInv'
  <2>1. CASE at' = at
    BY <1>3, <1>4, <2>1 DEF UsedInv, TableOverflow
  <2>2. CASE at <= Len(jobs) /\ at' = at + 1
    <3>1. /\ IsFiniteSet(LeftRunning(at)) /\ used <= Cardinality(LeftRunning(at))
      <4>1. jobs[(at - 1) + 1].threads \in Nat /\ (at - 1) + 1 = at
        BY <1>1, <2>2
      <4> QED
        BY <1>1, <1>4, <4>1, OneTaskMore DEF UsedInv
    <3>2. at' - 1 = at
      BY <1>1, <2>2
    <3> QED
      BY <1>3, <1>4, <3>1, <3>2 DEF UsedInv, TableOverflow
  <2> QED
    BY <1>4, <2>1, <2>2
<1>5. CASE LeaveToMain
  <2>1. /\ main = "start" /\ ~Joins(at) /\ at <= Len(jobs)
        /\ Len(thrs) = jobs[at].threads
    BY <1>5 DEF LeaveToMain, AllStarted, LInv, CallInv, InEntry
  <2>2. /\ IsFiniteSet(LeftRunning(at)) /\ Cardinality(LeftRunning(at)) \in Nat
        /\ used + Len(thrs) <= Cardinality(LeftRunning(at))
    <3>1. jobs[(at - 1) + 1].threads \in Nat /\ (at - 1) + 1 = at
      BY <1>1, <2>1
    <3> QED
      BY <1>1, <2>1, <3>1, OneTaskMore DEF UsedInv
  <2>3. CASE used + Len(thrs) <= Slots
    <3>1. used' = used + Len(thrs) /\ at' - 1 = at /\ main' = "entry"
      BY <1>1, <1>5, <2>3 DEF LeaveToMain
    <3> QED
      BY <1>3, <2>2, <3>1 DEF UsedInv, TableOverflow
  <2>4. CASE ~(used + Len(thrs) <= Slots)
    <3>1. main' = "wild" /\ at' = at
      BY <1>5, <2>4 DEF LeaveToMain
    <3>2. Cardinality(LeftRunning(at)) > Slots
      BY <1>1, <2>1, <2>2, <2>4
    <3> QED
      BY <1>3, <3>1, <3>2 DEF UsedInv, TableOverflow
  <2> QED
    BY <2>3, <2>4
<1>6. CASE main = "wild" /\ main' = main /\ at' = at
  BY <1>3, <1>6 DEF UsedInv, TableOverflow
<1>7. CASE EndSome \/ UNCHANGED vars
  BY <1>4, <1>6, <1>7 DEF EndSome, End, vars, mainVars
<1>8. CASE EntryFails \/ Leave
  <2>1. at <= Len(jobs) /\ at' = at + 1 /\ used' = used /\ main # "wild" /\ main' # "wild"
    BY <1>8 DEF EntryFails, Leave, LInv, CallInv, InEntry
  <2> QED
    BY <1>4, <2>1
<1>9. CASE Enter \/ StartInstance \/ WaitForAll \/ Join \/ AllTasksDone \/ JoinLast \/ Exit
  BY <1>4, <1>9 DEF Enter, StartInstance, WaitForAll, AllStarted, Join, AllTasksDone,
     JoinLast, Exit
<1> QED
  BY <1>5, <1>7, <1>8, <1>9 DEF Next, Main

\* For every list of tasks: glob_threads is overrun only if --parallel leaves
\* more instances running than it has slots.
THEOREM OverrunOnlyIfTooMany == Spec => []TableOverflow
<1>1. Init => UsedInv
  BY IdleUsed DEF Init
<1>2. UsedInv => TableOverflow
  BY DEF UsedInv
<1> QED
  BY <1>1, <1>2, UsedInvSteps, LInvAlways, PTL DEF Spec
=============================================================================
