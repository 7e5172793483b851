----------------------------- MODULE MCProgram -----------------------------
(* Command lines of up to three options, and what the program does then.   *)
EXTENDS Program

MCCacheSize == <<32, 64, 128>>

MCOptions ==
  {[opt |-> "run", name |-> name] : name \in {"cpu-int", "udp-client"}}
  \cup {[opt |-> "parallel"], [opt |-> "check"], [opt |-> "limited-default"],
        [opt |-> "ninstance", n |-> 3]}
=============================================================================
