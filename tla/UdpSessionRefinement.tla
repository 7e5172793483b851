------------------------ MODULE UdpSessionRefinement ------------------------
(* UdpSession keeps the promise of Rendezvous.                             *)
EXTENDS UdpSession

\* A thread's phase, from where it is and whether it left with an error.
\* A server thread that failed keeps that phase though the server main may
\* write READY over its error code: what tells is the count, not the code.
Phase(pc, conn) ==
    CASE pc \in {"calc", "batch"} -> "running"
      [] pc = "exit" -> IF Over(conn) THEN "finished" ELSE "failed"
      [] OTHER -> "idle"

existing  == {s \in Servers : srvPc[s] # "none"}
cliPhases == [c \in Clients |-> Phase(cliPc[c], cliConn[c])]
srvPhases == [s \in Servers |-> Phase(srvPc[s], srvConn[s])]
endedWell == {p \in {"client", "server"} :
                 IF p = "client" THEN cliMain = "done" ELSE srvMain = "done"}

R == INSTANCE Rendezvous WITH
    up <- existing, partner <- cliSrv,
    cliPhase <- cliPhases, srvPhase <- srvPhases, ended <- endedWell

\* The handshake, with its repeated touches, stray replies, failing threads
\* and lost datagrams, does only what the abstract rendezvous allows.
ImplementsRendezvous == R!Spec
=============================================================================
