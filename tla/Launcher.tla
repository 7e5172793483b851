------------------------------ MODULE Launcher ------------------------------
(***************************************************************************)
(* main of rbench.cpp from "for( auto task : bench_tasks )" on, and the    *)
(* thread handling of every entry: an entry starts its instances, then     *)
(* joins them, or with --parallel leaves them to main in glob_threads.     *)
(* The UDP entries always join.  An instance is the pair of its task and   *)
(* its number in it; what it does is the business of StressLoop and        *)
(* UdpSession.                                                             *)
(***************************************************************************)
EXTENDS Integers, Sequences, FiniteSets

CONSTANTS
  JobLists,       \* the lists of tasks to launch
  Slots           \* the length of glob_threads; 1000 in the code

ASSUME LauncherAssumption ==
  /\ Slots \in Nat
  /\ JobLists \subseteq Seq([udp : BOOLEAN, mayFail : BOOLEAN, ends : BOOLEAN, threads : Nat \ {0}])

VARIABLES
  jobs,           \* bench_tasks: does it join, may its entry return -1, do its instances end, how many
  parallel,       \* FLAG_IS_RUN_PARALLEL
  main,           \* where main is: "entry", "start", "join", "last", "exit", "wild"
  at,             \* the task of the loop
  thrs,           \* the entry's vector, without the threads joined
  glob,           \* glob_threads up to glob_thr_cnt, without the threads joined
  used,           \* glob_thr_cnt
  running,        \* instances that have not returned
  ended           \* instances that have

mainVars == <<main, at, thrs, glob, used>>
vars == <<jobs, parallel, mainVars, running, ended>>

Instances(t) == {<<t, i>> : i \in 1..jobs[t].threads}

Idle ==
  /\ main = "entry" /\ at = 1 /\ thrs = <<>> /\ glob = <<>> /\ used = 0
  /\ running = {} /\ ended = {}

Init == jobs \in JobLists /\ parallel \in BOOLEAN /\ Idle

-----------------------------------------------------------------------------
\* An entry is called.
Enter ==
  /\ main = "entry" /\ at <= Len(jobs)
  /\ main' = "start"
  /\ UNCHANGED <<jobs, parallel, at, thrs, glob, used, running, ended>>

\* mmap or a socket fails before a thread is started; main ignores the -1.
EntryFails ==
  /\ main = "entry" /\ at <= Len(jobs) /\ jobs[at].mayFail
  /\ at' = at + 1
  /\ UNCHANGED <<jobs, parallel, main, thrs, glob, used, running, ended>>

StartInstanceBad ==
  /\ main = "start" /\ Len(thrs) <= jobs[at].threads
  /\ LET x == <<at, Len(thrs) + 1>> IN
       thrs' = Append(thrs, x) /\ running' = running \cup {x}
  /\ UNCHANGED <<jobs, parallel, main, at, glob, used, ended>>

\* thrs[i] = thread( ... ); the instance runs from here on.
StartInstance ==
  /\ main = "start" /\ Len(thrs) < jobs[at].threads
  /\ LET x == <<at, Len(thrs) + 1>> IN
       thrs' = Append(thrs, x) /\ running' = running \cup {x}
  /\ UNCHANGED <<jobs, parallel, main, at, glob, used, ended>>

AllStarted == main = "start" /\ Len(thrs) = jobs[at].threads

JoinsBad(t) == ~parallel
JoinsAlwaysBad(t) == TRUE

Joins(t) == ~parallel \/ jobs[t].udp

WaitForAll ==
  /\ AllStarted /\ Joins(at)
  /\ main' = "join"
  /\ UNCHANGED <<jobs, parallel, at, thrs, glob, used, running, ended>>

LeaveToMainBad ==
  /\ AllStarted /\ ~Joins(at)
  /\ IF used + Len(thrs) < Slots
     THEN /\ glob' = glob \o thrs /\ used' = used + Len(thrs)
          /\ thrs' = <<>> /\ at' = at + 1 /\ main' = "entry"
     ELSE main' = "wild" /\ UNCHANGED <<at, thrs, glob, used>>
  /\ UNCHANGED <<jobs, parallel, running, ended>>

\* Swapping thread objects into the table, whose end nobody checks.
LeaveToMain ==
  /\ AllStarted /\ ~Joins(at)
  /\ IF used + Len(thrs) <= Slots
     THEN /\ glob' = glob \o thrs /\ used' = used + Len(thrs)
          /\ thrs' = <<>> /\ at' = at + 1 /\ main' = "entry"
     ELSE main' = "wild" /\ UNCHANGED <<at, thrs, glob, used>>
  /\ UNCHANGED <<jobs, parallel, running, ended>>

\* join() of the next thread returns once that thread has ended.
Join ==
  /\ main = "join" /\ thrs # <<>> /\ Head(thrs) \in ended
  /\ thrs' = Tail(thrs)
  /\ UNCHANGED <<jobs, parallel, main, at, glob, used, running, ended>>

LeaveBad ==
  /\ main = "join" /\ Len(thrs) <= 1
  /\ main' = "entry" /\ at' = at + 1 /\ thrs' = <<>>
  /\ UNCHANGED <<jobs, parallel, glob, used, running, ended>>

Leave ==
  /\ main = "join" /\ thrs = <<>>
  /\ main' = "entry" /\ at' = at + 1
  /\ UNCHANGED <<jobs, parallel, thrs, glob, used, running, ended>>

\* glob_threads.resize( glob_thr_cnt ) drops only thread objects never used.
AllTasksDone ==
  /\ main = "entry" /\ at > Len(jobs)
  /\ main' = "last"
  /\ UNCHANGED <<jobs, parallel, at, thrs, glob, used, running, ended>>

JoinLast ==
  /\ main = "last" /\ glob # <<>> /\ Head(glob) \in ended
  /\ glob' = Tail(glob)
  /\ UNCHANGED <<jobs, parallel, main, at, thrs, used, running, ended>>

ExitBad ==
  /\ main = "last"
  /\ main' = "exit"
  /\ UNCHANGED <<jobs, parallel, at, thrs, glob, used, running, ended>>

\* Without the resize the join of a slot never used throws.
ExitOnlyIfFullBad ==
  /\ main = "last" /\ glob = <<>> /\ used = Slots
  /\ main' = "exit"
  /\ UNCHANGED <<jobs, parallel, at, thrs, glob, used, running, ended>>

Exit ==
  /\ main = "last" /\ glob = <<>>
  /\ main' = "exit"
  /\ UNCHANGED <<jobs, parallel, at, thrs, glob, used, running, ended>>

Main ==
  \/ Enter \/ EntryFails \/ StartInstance \/ WaitForAll \/ LeaveToMain
  \/ Join \/ Leave \/ AllTasksDone \/ JoinLast \/ Exit

End(x) ==
  /\ x \in running
  /\ running' = running \ {x} /\ ended' = ended \cup {x}
  /\ UNCHANGED <<jobs, parallel, mainVars>>

EndSome == \E x \in running : End(x)

Next == Main \/ EndSome

\* Instances with a limit return: StressLoop's Stops.
EndLimited == \E x \in running : jobs[x[1]].ends /\ End(x)

Fairness == WF_vars(Main) /\ WF_vars(EndLimited)

Spec == Init /\ [][Next]_vars /\ Fairness
-----------------------------------------------------------------------------
Held(x, threads) == \E i \in DOMAIN threads : threads[i] = x

TypeOK ==
  /\ jobs \in Seq([udp : BOOLEAN, mayFail : BOOLEAN, ends : BOOLEAN, threads : Nat \ {0}])
  /\ parallel \in BOOLEAN
  /\ main \in {"entry", "start", "join", "last", "exit", "wild"}
  /\ at \in 1..Len(jobs) + 1
  /\ thrs \in Seq(Nat \X Nat)
  /\ glob \in Seq(Nat \X Nat)
  /\ used \in 0..Slots
  /\ running \subseteq Nat \X Nat
  /\ ended \subseteq Nat \X Nat
  /\ running \cap ended = {}
  /\ \A x \in running \cup ended : x[1] \in DOMAIN jobs /\ x[2] \in 1..jobs[x[1]].threads

\* A thread object that is destroyed while its thread has not been joined ends
\* the process: between the entry's vector, the swaps and glob_threads no thread
\* that still runs may be dropped.
NoThreadLost == \A x \in running : Held(x, thrs) \/ Held(x, glob)

\* An instance starts next to another task's only with --parallel, and never
\* next to a UDP task's: "udp test do not support argument: parallel, ignored".
\* Measurements of one task are not disturbed by the next.
StartsAlone == [][\A x \in running' \ running, y \in running :
                    x[1] # y[1] => parallel /\ ~jobs[y[1]].udp]_vars

\* The program returns only after every instance of every task has, except those
\* of a task whose entry failed.
ExitIsClean == main = "exit" =>
  /\ running = {}
  /\ \A t \in DOMAIN jobs : Instances(t) \subseteq ended \/ jobs[t].mayFail

\* Instances of the tasks up to n that main leaves running.
LeftRunning(n) == UNION {Instances(t) : t \in {u \in 1..n : ~Joins(u)}}

\* The table of threads is overrun only by more instances than it has slots.
TableOverflow == main = "wild" => Cardinality(LeftRunning(at)) > Slots

\* With --parallel and no UDP task every task is started, though no instance
\* should ever end.
AllGetStarted ==
  parallel /\ (\A t \in DOMAIN jobs : ~jobs[t].udp) => <>(at > Len(jobs) \/ main = "wild")

\* If the instances have limits, the program ends.
Exits == (\A t \in DOMAIN jobs : jobs[t].ends) => <>(main \in {"exit", "wild"})
=============================================================================
