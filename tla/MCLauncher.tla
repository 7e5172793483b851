----------------------------- MODULE MCLauncher -----------------------------
(* Up to three tasks of one or two instances, in every order.              *)
EXTENDS Launcher

Job(udp, mayFail, ends, threads) ==
  [udp |-> udp, mayFail |-> mayFail, ends |-> ends, threads |-> threads]

MCJobs ==
  {Job(udp, mayFail, ends, 2) : udp \in BOOLEAN, mayFail \in BOOLEAN, ends \in BOOLEAN}
  \cup {Job(FALSE, FALSE, TRUE, 1)}

MCJobLists == UNION {[1..n -> MCJobs] : n \in 0..3}
=============================================================================
