------------------------------ MODULE Program ------------------------------
(***************************************************************************)
(* The whole of main: parse_opts, then the launcher on the tasks it left.  *)
(***************************************************************************)
EXTENDS CommandLine

CONSTANT Slots

ASSUME SlotsAssumption == Slots \in Nat

VARIABLES main, at, thrs, glob, used, running, ended

launcherVars == <<main, at, thrs, glob, used, running, ended>>
programVars == <<vars, launcherVars>>

\* An instance that StressLoop ends; a UDP instance may wait for its peer forever.
Bounded(task) ==
  /\ task.name \notin Udp
  /\ "limited" \in task.flags \/ task.time > 0

Jobs == [k \in DOMAIN tasks |->
  [udp     |-> tasks[k].name \in Udp,
   mayFail |-> tasks[k].name \in Udp \cup {"mem-bw"},
   ends    |-> Bounded(tasks[k]),
   threads |-> tasks[k].threads]]

\* Every task has the global flags once the line is parsed.
Together == \E k \in DOMAIN tasks : "parallel" \in tasks[k].flags

\* Launcher's Init is not used, so neither is its JobLists.
L == INSTANCE Launcher WITH jobs <- Jobs, parallel <- Together, JobLists <- {}

ProgramInit == Init /\ L!Idle

Parse == Next /\ UNCHANGED launcherVars

Launch == phase = "parsed" /\ UNCHANGED vars /\ L!Main

InstanceEnds == phase = "parsed" /\ UNCHANGED vars /\ L!EndSome

ProgramNext == Parse \/ Launch \/ InstanceEnds

LimitedInstanceEnds == phase = "parsed" /\ UNCHANGED vars /\ L!EndLimited

ProgramSpec ==
  /\ ProgramInit
  /\ [][ProgramNext]_programVars
  /\ WF_programVars(Launch)
  /\ WF_programVars(LimitedInstanceEnds)

-----------------------------------------------------------------------------
NoUdp == \A k \in DOMAIN tasks : tasks[k].name \notin Udp

\* rbench --check comes to its end, whatever was named before it and without any
\* limit being given: parse_opts limits all its tasks and main waits for all.
CheckEnds ==
  (phase = "parsed" /\ "check" \in flags /\ NoUdp) ~> (main = "exit")

\* --parallel counts wherever it stands on the line: every task is started though
\* none of the instances should ever end.
ParallelAnywhere ==
  (phase = "parsed" /\ NoUdp /\ \E i \in DOMAIN line : line[i].opt = "parallel")
    ~> (at > Len(tasks))

\* The instances that start are those asked for: never more of a task than there
\* are processors, and at the exit of a program with no entry that may fail, as
\* many as its task has threads.
AsManyAsAsked ==
  /\ \A x \in running \cup ended : x[2] <= Cpus
  /\ main = "exit" =>
       \A k \in DOMAIN tasks : Jobs[k].mayFail \/ L!Instances(k) \subseteq ended
=============================================================================
