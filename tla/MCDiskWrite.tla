---------------------------- MODULE MCDiskWrite ----------------------------
(***************************************************************************)
(* Instances of DiskWrite: a file of three blocks, which seven kernels and *)
(* more outgrow, and a limit of rounds, of time or both.                   *)
(***************************************************************************)
EXTENDS DiskWrite

Task(limit, time) == [size |-> 3 * Granu, limit |-> limit, time |-> time]

LimitedTasks == {Task(3, NoLimit), Task(NoLimit, 2), Task(2, 3)}
=============================================================================
