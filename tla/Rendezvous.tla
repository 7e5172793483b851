----------------------------- MODULE Rendezvous -----------------------------
(***************************************************************************)
(* What a udp-client / udp-server pair promises, with no sockets and no    *)
(* status codes: server instances appear one by one, each client instance  *)
(* is given a server instance of its own, no load flows before the whole   *)
(* server is up, a client starts only against a server instance that has   *)
(* started, and either program ends only when all its instances have       *)
(* finished without error.                                                 *)
(***************************************************************************)
EXTENDS Naturals, FiniteSets

CONSTANTS CliCount, SrvCount

Clients == 1..CliCount
Servers == 1..SrvCount
Nobody  == 0

VARIABLES
    up,         \* server instances that exist
    partner,    \* server instance given to each client instance
    cliPhase,   \* what each instance is doing
    srvPhase,
    ended       \* programs that have ended well: subset of {"client", "server"}

rvars == <<up, partner, cliPhase, srvPhase, ended>>

Phases == {"idle", "running", "finished", "failed"}

Init ==
    /\ up = {}
    /\ partner  = [c \in Clients |-> Nobody]
    /\ cliPhase = [c \in Clients |-> "idle"]
    /\ srvPhase = [s \in Servers |-> "idle"]
    /\ ended = {}

Appear(s) ==
    /\ s \notin up
    /\ up' = up \cup {s}
    /\ UNCHANGED <<partner, cliPhase, srvPhase, ended>>

Pair(c, s) ==
    /\ partner[c] = Nobody
    /\ s \in up /\ \A d \in Clients : partner[d] # s
    /\ partner' = [partner EXCEPT ![c] = s]
    /\ UNCHANGED <<up, cliPhase, srvPhase, ended>>

Left == {"finished", "failed"}

\* A server instance starts for the client instance it serves, or for one
\* that was given an instance which has left: the address it left is free
\* to another.
StartServer(s) ==
    /\ srvPhase[s] = "idle" /\ up = Servers
    /\ \E c \in Clients :
          \/ partner[c] = s
          \/ partner[c] # Nobody /\ srvPhase[partner[c]] \in Left
    /\ srvPhase' = [srvPhase EXCEPT ![s] = "running"]
    /\ UNCHANGED <<up, partner, cliPhase, ended>>

\* A client instance starts once its partner has.  When an instance has left
\* its address to another, its own partner or another client instance, any
\* server instance that has started may be the one that starts it.
StartClient(c) ==
    /\ cliPhase[c] = "idle" /\ partner[c] # Nobody
    /\ \E s \in Servers :
          /\ srvPhase[s] \in {"running", "finished"}
          /\ \/ s = partner[c]
             \/ srvPhase[partner[c]] \in Left
             \/ \E d \in Clients \ {c} : cliPhase[d] \in Left
    /\ cliPhase' = [cliPhase EXCEPT ![c] = "running"]
    /\ UNCHANGED <<up, partner, srvPhase, ended>>

FinishServer(s) ==
    /\ srvPhase[s] = "running"
    /\ srvPhase' = [srvPhase EXCEPT ![s] = "finished"]
    /\ UNCHANGED <<up, partner, cliPhase, ended>>

FinishClient(c) ==
    /\ cliPhase[c] = "running"
    /\ cliPhase' = [cliPhase EXCEPT ![c] = "finished"]
    /\ UNCHANGED <<up, partner, srvPhase, ended>>

\* An instance that exists may fail, but only before it has started.
FailServer(s) ==
    /\ s \in up /\ srvPhase[s] = "idle"
    /\ srvPhase' = [srvPhase EXCEPT ![s] = "failed"]
    /\ UNCHANGED <<up, partner, cliPhase, ended>>

FailClient(c) ==
    /\ partner[c] # Nobody /\ cliPhase[c] = "idle"
    /\ cliPhase' = [cliPhase EXCEPT ![c] = "failed"]
    /\ UNCHANGED <<up, partner, srvPhase, ended>>

EndServer ==
    /\ \A s \in Servers : srvPhase[s] = "finished"
    /\ ended' = ended \cup {"server"}
    /\ UNCHANGED <<up, partner, cliPhase, srvPhase>>

EndClient ==
    /\ \A c \in Clients : cliPhase[c] = "finished"
    /\ ended' = ended \cup {"client"}
    /\ UNCHANGED <<up, partner, cliPhase, srvPhase>>

Next ==
    \/ \E s \in Servers : \/ Appear(s) \/ StartServer(s)
                          \/ FinishServer(s) \/ FailServer(s)
    \/ \E c \in Clients : \/ StartClient(c) \/ FinishClient(c) \/ FailClient(c)
                          \/ \E s \in Servers : Pair(c, s)
    \/ EndServer \/ EndClient

Spec == Init /\ [][Next]_rvars
=============================================================================
