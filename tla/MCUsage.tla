------------------------------ MODULE MCUsage ------------------------------
(* Options for Usage: a valid and a refused value where the code tells them *)
(* apart, and sizes on both sides of 2^32 (Half).                           *)
EXTENDS Usage

Of(opt, values) == {[opt |-> opt, n |-> n] : n \in values}
Alone(opts) == {[opt |-> opt] : opt \in opts}
Named(names) == {[opt |-> "run", name |-> name] : name \in names}

Host(port) == [ip |-> "h", port |-> port]

MCCacheSize == <<32, 64, 128>>

MCAnyOptions ==
  Named({"cacheL2", "cpu-int", "mem-bw", "udp-client", "tlb", "disk-write", "no-such"})
  \cup Of("limited", {3}) \cup Alone({"limited-default", "parallel", "check"})
  \cup Of("ninstance", {0, 2}) \cup Of("time", {-1, 5}) \cup Of("strength", {30, 101})
  \cup Of("mem-bandwidth", {-1, 9000}) \cup Of("cache-size", {-1}) \cup Of("page-tot", {-5})
  \cup Of("d", {3}) \cup Of("diskfile-size", {1, 9000}) \cup Of("pack-size", {0, 9})
  \cup Of("pack-per-sec", {0, 4}) \cup Of("addr", {Malformed, Host(70000)}) \cup Of("addr-to", {Host(9)})
  \cup Of("period", {-1}) \cup Alone({"debug", "no-warn"})
=============================================================================
