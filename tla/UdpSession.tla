----------------------------- MODULE UdpSession -----------------------------
(***************************************************************************)
(* One udp-client stressor talking to one udp-server stressor              *)
(* (rbench-udp.cpp).  Each side is a process: a main thread running the    *)
(* bench entry, and one thread per instance.  Main threads pair instances  *)
(* over two main sockets; instance threads use a socket of their own.      *)
(*                                                                         *)
(*   client main                server main                                *)
(*     touch      ---------->     listen, start server thread s            *)
(*     start client thread c  <---------- reply (sent by s itself)         *)
(*   client thread c                                                       *)
(*     inform     ---------->     s learns the address of c                *)
(*                            <---------- READY, once server main has      *)
(*                                        started all of its threads       *)
(*     data       ---------->     s receives                               *)
(*                                                                         *)
(* A thread reports to its main through one double, conns[i]: a status     *)
(* code while it boots, then the number of packets so far, and that number *)
(* negated when it stops.                                                  *)
(*                                                                         *)
(* An address is a port, not a thread: a thread binds the first free port, *)
(* and one that returns leaves its port to the next.  Left out: an inform  *)
(* that comes to a thread with a peer already, which counts it as data.    *)
(***************************************************************************)
EXTENDS Integers, FiniteSets

CONSTANTS
    CliCount, SrvCount,         \* -n on each side (args.threads)
    SendPack, RecvPack,         \* packets of one send, one receive kernel
    SendCalcRounds,             \* kernels of the client's calibration
    RecvCalcRounds,             \* kernels of the server's calibration
    ReadyCopies,                \* copies of READY a server thread sends
    Batches,                    \* values module_runrounds can take
    CliLimit, SrvLimit,         \* -l: kernel rounds, or NoLimit
    CliTimed, SrvTimed,         \* is -t given?
    Arrivals,                   \* packets of one kernel that can arrive
    MayGiveUp,                  \* can 1000 waits for READY all fail?
    DataCap, TouchCap,          \* what a socket buffer holds
    CountCap,                   \* bound on reported packet counts
    MaxLoss, MaxFaults          \* bounds on lost datagrams, failed calls

Clients == 1..CliCount
Servers == 1..SrvCount
Nobody  == 0                    \* no thread

\* A thread's socket takes the first free port after its main's, so no
\* more of them are ever in use than there are threads.  Either side has
\* its own ports, and no other program takes one.
CliPorts == 1..CliCount
SrvPorts == 1..SrvCount
NoPort  == 0                    \* before bind
NoLimit == -1

ASSUME CountsAssumption == CliCount \in Nat \ {0} /\ SrvCount \in Nat \ {0}

ASSUME PackAssumption ==
    /\ SendPack \in Nat \ {0} /\ RecvPack \in Nat \ {0}
    /\ SendCalcRounds \in Nat /\ RecvCalcRounds \in Nat
    /\ ReadyCopies \in Nat \ {0}
    /\ Batches \subseteq Nat
    /\ Arrivals \subseteq 0..SendPack

ASSUME LimitAssumption ==
    /\ CliLimit \in Nat \cup {NoLimit} /\ SrvLimit \in Nat \cup {NoLimit}
    /\ CliTimed \in BOOLEAN /\ SrvTimed \in BOOLEAN /\ MayGiveUp \in BOOLEAN

ASSUME BoundAssumption ==
    /\ DataCap \in Nat /\ TouchCap \in Nat /\ CountCap \in Nat
    /\ MaxLoss \in Nat /\ MaxFaults \in Nat

\* Both calibrations must count past -STATE_BEGIN, and the count not be
\* cut off before that: else a negated count reads as a status code.
ASSUME CalibrationAssumption ==
    /\ SendPack * SendCalcRounds > 109 /\ RecvPack * RecvCalcRounds > 109
    /\ CountCap >= SendPack * SendCalcRounds
    /\ CountCap >= RecvPack * RecvCalcRounds

\* enum net_thread_state_t
STATE_BEGIN == -100
WAIT  == -10
READY == -9
ERROR == -8

VARIABLES
    cliMain, cliThrid,  \* client main: where it is, thread it is creating
    srvMain, srvThrid,  \* server main: likewise; while releasing, index + 1
    cliPc, srvPc,       \* each thread: where it is
    cliPort, srvPort,   \* port each thread has, or had when it returned
    cliSrv,             \* server thread whose address a client thread is given
    srvPeer,            \* client thread whose address a server thread learnt
    cliConn, srvConn,   \* conns[] of either main
    cliLeft, srvLeft,   \* kernels left of the current batch
    cliSum, srvSum,     \* knl_round_sumup
    touches,            \* touches waiting at the listening socket
    replies,            \* server threads whose reply waits at client main
    informs,            \* <<c, p>>: inform of c on its way to server port p
    readys,             \* READY copies on their way to each client port
    data,               \* data packets waiting at each server port
    losses, faults      \* spent of MaxLoss, MaxFaults

mainVars == <<cliMain, cliThrid, srvMain, srvThrid>>
cliVars  == <<cliPc, cliPort, cliSrv, cliConn, cliLeft, cliSum>>
srvVars  == <<srvPc, srvPort, srvPeer, srvConn, srvLeft, srvSum>>
netVars  == <<touches, replies, informs, readys, data>>
envVars  == <<losses, faults>>
vars == <<mainVars, cliVars, srvVars, netVars, envVars>>

ThreadPcs == {"none", "setup", "touch", "inform", "peer", "wait",
              "calc", "batch", "exit"}

Init ==
    /\ cliMain = "open" /\ cliThrid = 1
    /\ srvMain = "open" /\ srvThrid = 1
    /\ cliPc   = [c \in Clients |-> "none"]
    /\ srvPc   = [s \in Servers |-> "none"]
    /\ cliPort = [c \in Clients |-> NoPort]
    /\ srvPort = [s \in Servers |-> NoPort]
    /\ cliSrv  = [c \in Clients |-> Nobody]
    /\ srvPeer = [s \in Servers |-> Nobody]
    /\ cliConn = [c \in Clients |-> WAIT]
    /\ srvConn = [s \in Servers |-> WAIT]
    /\ cliLeft = [c \in Clients |-> 0]
    /\ srvLeft = [s \in Servers |-> 0]
    /\ cliSum  = [c \in Clients |-> 0]
    /\ srvSum  = [s \in Servers |-> 0]
    /\ touches = 0 /\ replies = {} /\ informs = {}
    /\ readys  = [p \in CliPorts |-> 0]
    /\ data    = [p \in SrvPorts |-> 0]
    /\ losses = 0 /\ faults = 0

-----------------------------------------------------------------------------
(* The two main threads                                                    *)

\* A call that fails for good (socket, bind or send), at most MaxFaults times.
Fault == faults < MaxFaults /\ faults' = faults + 1

ClientOpen ==
    /\ cliMain = "open"
    /\ cliMain' = "touch"
    /\ UNCHANGED <<cliThrid, srvMain, srvThrid, cliVars, srvVars, netVars, envVars>>

ClientOpenFails ==
    /\ cliMain = "open" /\ Fault
    /\ cliMain' = "failed"
    /\ UNCHANGED <<cliThrid, srvMain, srvThrid, cliVars, srvVars, netVars, losses>>

\* A datagram to a port nobody has bound is dropped, and so is one that
\* finds the socket's buffer full; the sender cannot tell.
ClientTouch ==
    /\ cliMain = "touch" /\ cliThrid <= CliCount
    /\ cliMain' = "reply"
    /\ touches' = IF srvMain \notin {"open", "failed", "done"} /\ touches < TouchCap
                  THEN touches + 1 ELSE touches
    /\ UNCHANGED <<cliThrid, srvMain, srvThrid, cliVars, srvVars, replies,
                   informs, readys, data, envVars>>

\* Replies left once that of s is received.
RepliesAfterBad(s) == replies
RepliesAfter(s) == replies \ {s}

\* Any waiting reply will do: nothing ties it to the touch just sent.
ClientReply(s) ==
    /\ cliMain = "reply" /\ s \in replies
    /\ cliMain' = IF cliThrid = CliCount THEN "gather" ELSE "touch"
    /\ cliThrid' = cliThrid + 1
    /\ cliPc'  = [cliPc EXCEPT ![cliThrid] = "setup"]
    /\ cliSrv' = [cliSrv EXCEPT ![cliThrid] = s]
    /\ replies' = RepliesAfter(s)
    /\ UNCHANGED <<srvMain, srvThrid, cliPort, cliConn, cliLeft, cliSum, srvVars,
                   touches, informs, readys, data, envVars>>

\* Recv gave up after six seconds.  touch_fail_cnt only chooses the message
\* to print: it is reset before it can end the loop.
ClientTimeout ==
    /\ cliMain = "reply"
    /\ cliMain' = "touch"
    /\ UNCHANGED <<cliThrid, srvMain, srvThrid, cliVars, srvVars, netVars, envVars>>

ClientGather ==
    /\ cliMain = "gather" /\ \A c \in Clients : cliConn[c] # WAIT
    /\ cliMain' = "monitor"
    /\ UNCHANGED <<cliThrid, srvMain, srvThrid, cliVars, srvVars, netVars, envVars>>

\* The monitor's reading of a report: below STATE_BEGIN the thread is over.
OverBad(conn) == conn < 0
Over(conn) == conn < STATE_BEGIN

\* Packets a report stands for; a status code stands for none.
ReportedBad(conn) == IF conn >= 0 THEN conn ELSE 0
Reported(conn) == IF conn >= 0 THEN conn ELSE IF Over(conn) THEN -conn ELSE 0

ClientMonitor ==
    /\ cliMain = "monitor" /\ \A c \in Clients : Over(cliConn[c])
    /\ cliMain' = "join"
    /\ UNCHANGED <<cliThrid, srvMain, srvThrid, cliVars, srvVars, netVars, envVars>>

ClientJoin ==
    /\ cliMain = "join" /\ \A c \in Clients : cliPc[c] = "exit"
    /\ cliMain' = "done"
    /\ UNCHANGED <<cliThrid, srvMain, srvThrid, cliVars, srvVars, netVars, envVars>>

ServerOpen ==
    /\ srvMain = "open"
    /\ srvMain' = "listen"
    /\ UNCHANGED <<cliMain, cliThrid, srvThrid, cliVars, srvVars, netVars, envVars>>

ServerOpenFails ==
    /\ srvMain = "open" /\ Fault
    /\ srvMain' = "failed"
    /\ UNCHANGED <<cliMain, cliThrid, srvThrid, cliVars, srvVars, netVars, losses>>

\* The loop that starts the threads has ended: thrid begins anew for the next.
AfterListenBad == srvThrid + 1
AfterListen == IF srvThrid = SrvCount THEN 1 ELSE srvThrid + 1

\* One touch taken, one thread started.  A timed-out Recv just listens again.
ServerListen ==
    /\ srvMain = "listen" /\ touches > 0
    /\ touches' = touches - 1
    /\ srvPc' = [srvPc EXCEPT ![srvThrid] = "setup"]
    /\ srvMain'  = IF srvThrid = SrvCount THEN "release" ELSE "listen"
    /\ srvThrid' = AfterListen
    /\ UNCHANGED <<cliMain, cliThrid, cliVars, srvPort, srvPeer, srvConn, srvLeft,
                   srvSum, replies, informs, readys, data, envVars>>

\* Where the loop that sets every conns[i] to READY ends.
LastReleasedBad == SrvCount - 1
LastReleased == SrvCount

\* One turn of that loop.
ServerRelease ==
    /\ srvMain = "release"
    /\ srvConn' = [srvConn EXCEPT ![srvThrid] = READY]
    /\ srvMain'  = IF srvThrid = LastReleased THEN "monitor" ELSE "release"
    /\ srvThrid' = srvThrid + 1
    /\ UNCHANGED <<cliMain, cliThrid, cliVars, srvPc, srvPort, srvPeer, srvLeft,
                   srvSum, netVars, envVars>>

ServerMonitor ==
    /\ srvMain = "monitor" /\ \A s \in Servers : Over(srvConn[s])
    /\ srvMain' = "join"
    /\ UNCHANGED <<cliMain, cliThrid, srvThrid, cliVars, srvVars, netVars, envVars>>

ServerJoin ==
    /\ srvMain = "join" /\ \A s \in Servers : srvPc[s] = "exit"
    /\ srvMain' = "done"
    /\ UNCHANGED <<cliMain, cliThrid, srvThrid, cliVars, srvVars, netVars, envVars>>

ClientMain == \/ ClientOpen \/ ClientTouch \/ ClientTimeout \/ ClientGather
              \/ ClientMonitor \/ ClientJoin
ServerMain == \/ ServerOpen \/ ServerListen \/ ServerRelease
              \/ ServerMonitor \/ ServerJoin

-----------------------------------------------------------------------------
(* Ports                                                                   *)

\* Port p is free among threads that have these ports and are at these pcs:
\* a thread's socket is closed when the thread returns.
FreeBad(p, ports, pcs) == TRUE
Free(p, ports, pcs) == \A t \in DOMAIN ports : ports[t] = p => pcs[t] = "exit"

\* The port that binding upwards from the main's port arrives at.
FirstFree(p, ports, pcs) ==
    Free(p, ports, pcs) /\ \A q \in 1..p - 1 : ~Free(q, ports, pcs)

\* Closing a socket drops what waits in it.
Closed(p) == [q \in SrvPorts |-> IF q = p THEN 0 ELSE data[q]]

-----------------------------------------------------------------------------
(* Server threads                                                          *)

\* *pconn *= -1 of a thread that stops.
FinalBad(conn) == conn
Final(conn) == -conn

\* *pconn += n, cut off at CountCap.
Bump(conn, n) == IF conn + n <= CountCap THEN conn + n ELSE conn

\* The new socket may get the port of a thread that has returned.  An inform
\* meant for that one was dropped, or is still on its way to the port.
SrvSetup(s) ==
    /\ srvPc[s] = "setup"
    /\ srvPc' = [srvPc EXCEPT ![s] = "touch"]
    /\ \E p \in SrvPorts :
          /\ FirstFree(p, srvPort, srvPc)
          /\ srvPort' = [srvPort EXCEPT ![s] = p]
          /\ \E dropped \in SUBSET {m \in informs : m[2] = p} :
                informs' = informs \ dropped
    /\ UNCHANGED <<mainVars, cliVars, srvPeer, srvConn, srvLeft, srvSum, touches,
                   replies, readys, data, envVars>>

SrvTouch(s) ==
    /\ srvPc[s] = "touch"
    /\ srvPc' = [srvPc EXCEPT ![s] = "peer"]
    /\ replies' = replies \cup {s}
    /\ UNCHANGED <<mainVars, cliVars, srvPort, srvPeer, srvConn, srvLeft, srvSum,
                   touches, informs, readys, data, envVars>>

\* The sender of the first datagram to arrive is taken for the peer.
SrvPeer(s, c) ==
    /\ srvPc[s] = "peer" /\ <<c, srvPort[s]>> \in informs
    /\ srvPc' = [srvPc EXCEPT ![s] = "wait"]
    /\ srvPeer' = [srvPeer EXCEPT ![s] = c]
    /\ informs' = informs \ {<<c, srvPort[s]>>}
    /\ UNCHANGED <<mainVars, cliVars, srvPort, srvConn, srvLeft, srvSum, touches,
                   replies, readys, data, envVars>>

\* The poll of conns[i] sees READY.
MayStartBad(s) == srvPc[s] = "wait"
MayStart(s) == srvPc[s] = "wait" /\ srvConn[s] = READY

\* The copies of READY go out at once.
SrvStart(s) ==
    /\ MayStart(s)
    /\ srvPc' = [srvPc EXCEPT ![s] = "calc"]
    /\ srvLeft' = [srvLeft EXCEPT ![s] = RecvCalcRounds]
    /\ readys' = [readys EXCEPT ![cliPort[srvPeer[s]]] = @ + ReadyCopies]
    /\ UNCHANGED <<mainVars, cliVars, srvPort, srvPeer, srvConn, srvSum, touches,
                   replies, informs, data, envVars>>

\* Socket, bind, touch or receive failed: the thread reports and returns.
SrvFail(s) ==
    /\ srvPc[s] \in {"setup", "touch", "peer"} /\ Fault
    /\ srvPc' = [srvPc EXCEPT ![s] = "exit"]
    /\ srvConn' = [srvConn EXCEPT ![s] = ERROR]
    /\ data' = Closed(srvPort[s])
    /\ UNCHANGED <<mainVars, cliVars, srvPort, srvPeer, srvLeft, srvSum, touches,
                   replies, informs, readys, losses>>

\* One receive kernel.  Its Recv has no timeout: the kernel returns only
\* when RecvPack packets have come.
SrvKernel(s) ==
    /\ srvPc[s] \in {"calc", "batch"} /\ srvLeft[s] > 0
    /\ data[srvPort[s]] >= RecvPack
    /\ data' = [data EXCEPT ![srvPort[s]] = @ - RecvPack]
    /\ srvLeft' = [srvLeft EXCEPT ![s] = @ - 1]
    /\ srvConn' = [srvConn EXCEPT ![s] = Bump(@, RecvPack)]
    /\ srvSum' = IF srvPc[s] = "batch" /\ SrvLimit # NoLimit
                 THEN [srvSum EXCEPT ![s] = @ + 1] ELSE srvSum
    /\ UNCHANGED <<mainVars, cliVars, srvPc, srvPort, srvPeer, touches, replies,
                   informs, readys, envVars>>

SrvLimitReached(s) == SrvLimit # NoLimit /\ srvSum[s] >= SrvLimit

\* Calibration done, or a batch done with no reason to stop: the next batch.
SrvNextBatch(s) ==
    /\ srvPc[s] \in {"calc", "batch"} /\ srvLeft[s] = 0
    /\ srvPc[s] = "batch" => ~SrvLimitReached(s)
    /\ srvPc' = [srvPc EXCEPT ![s] = "batch"]
    /\ \E b \in Batches : srvLeft' = [srvLeft EXCEPT ![s] = b]
    /\ UNCHANGED <<mainVars, cliVars, srvPort, srvPeer, srvConn, srvSum, netVars,
                   envVars>>

\* End of a batch at the round limit, or past the time limit.  Returning
\* closes the thread's socket.
SrvStop(s) ==
    /\ srvPc[s] = "batch" /\ srvLeft[s] = 0
    /\ SrvLimitReached(s) \/ SrvTimed
    /\ srvPc' = [srvPc EXCEPT ![s] = "exit"]
    /\ srvConn' = [srvConn EXCEPT ![s] = Final(@)]
    /\ data' = Closed(srvPort[s])
    /\ UNCHANGED <<mainVars, cliVars, srvPort, srvPeer, srvLeft, srvSum, touches,
                   replies, informs, readys, envVars>>

ServerThread(s) ==
    \/ SrvSetup(s) \/ SrvTouch(s) \/ \E c \in Clients : SrvPeer(s, c)
    \/ SrvStart(s) \/ SrvKernel(s) \/ SrvNextBatch(s) \/ SrvStop(s)

-----------------------------------------------------------------------------
(* Client threads                                                          *)

\* As on the server side: copies of READY meant for a thread that had the
\* port before were dropped, or are still on their way to it.
CliSetup(c) ==
    /\ cliPc[c] = "setup"
    /\ cliPc' = [cliPc EXCEPT ![c] = "inform"]
    /\ \E p \in CliPorts :
          /\ FirstFree(p, cliPort, cliPc)
          /\ cliPort' = [cliPort EXCEPT ![c] = p]
          /\ \E k \in 0..readys[p] : readys' = [readys EXCEPT ![p] = k]
    /\ UNCHANGED <<mainVars, cliSrv, cliConn, cliLeft, cliSum, srvVars, touches,
                   replies, informs, data, envVars>>

\* The server thread whose reply the client thread was started for.
InformedBad(c) == c
Informed(c) == cliSrv[c]

CliInform(c) ==
    /\ cliPc[c] = "inform"
    /\ cliPc' = [cliPc EXCEPT ![c] = "wait"]
    /\ informs' = informs \cup {<<c, srvPort[Informed(c)]>>}
    /\ UNCHANGED <<mainVars, cliPort, cliSrv, cliConn, cliLeft, cliSum, srvVars,
                   touches, replies, readys, data, envVars>>

CliReady(c) ==
    /\ cliPc[c] = "wait" /\ readys[cliPort[c]] > 0
    /\ readys' = [readys EXCEPT ![cliPort[c]] = @ - 1]
    /\ cliPc' = [cliPc EXCEPT ![c] = "calc"]
    /\ cliConn' = [cliConn EXCEPT ![c] = READY]
    /\ cliLeft' = [cliLeft EXCEPT ![c] = SendCalcRounds]
    /\ UNCHANGED <<mainVars, cliPort, cliSrv, cliSum, srvVars, touches, replies,
                   informs, data, envVars>>

\* A thousand waits of six seconds have all timed out.
PatienceEndsBad == FALSE
PatienceEnds == MayGiveUp

CliGiveUp(c) ==
    /\ cliPc[c] = "wait" /\ PatienceEnds
    /\ cliPc' = [cliPc EXCEPT ![c] = "exit"]
    /\ cliConn' = [cliConn EXCEPT ![c] = ERROR]
    /\ UNCHANGED <<mainVars, cliPort, cliSrv, cliLeft, cliSum, srvVars, netVars,
                   envVars>>

CliFail(c) ==
    /\ cliPc[c] \in {"setup", "inform"} /\ Fault
    /\ cliPc' = [cliPc EXCEPT ![c] = "exit"]
    /\ cliConn' = [cliConn EXCEPT ![c] = ERROR]
    /\ UNCHANGED <<mainVars, cliPort, cliSrv, cliLeft, cliSum, srvVars, netVars,
                   losses>>

\* The thread whose socket has server port p now, if any is in one of pcs.
HeldAt(p, pcs) == \E s \in Servers : srvPort[s] = p /\ srvPc[s] \in pcs

\* A server thread that waits for its peer takes any packet for an inform.
TakenForInform(c, p, k) ==
    k > 0 /\ HeldAt(p, {"touch", "peer"}) /\ <<c, p>> \notin informs

\* What the socket at port p holds once n more packets came to it: a closed
\* port drops them.
Delivered(p, n) ==
    IF ~HeldAt(p, ThreadPcs \ {"exit"}) THEN data[p]
    ELSE IF data[p] + n <= DataCap THEN data[p] + n ELSE DataCap

\* One send kernel: SendPack packets leave, k of them reach the buffer.
CliKernel(c, k) ==
    LET p == srvPort[cliSrv[c]] IN
    /\ cliPc[c] \in {"calc", "batch"} /\ cliLeft[c] > 0
    /\ cliLeft' = [cliLeft EXCEPT ![c] = @ - 1]
    /\ cliConn' = [cliConn EXCEPT ![c] = Bump(@, SendPack)]
    /\ IF TakenForInform(c, p, k)
       THEN /\ informs' = informs \cup {<<c, p>>}
            /\ data' = [data EXCEPT ![p] = Delivered(p, k - 1)]
       ELSE /\ data' = [data EXCEPT ![p] = Delivered(p, k)]
            /\ UNCHANGED informs
    /\ cliSum' = IF cliPc[c] = "batch" /\ CliLimit # NoLimit
                 THEN [cliSum EXCEPT ![c] = @ + 1] ELSE cliSum
    /\ UNCHANGED <<mainVars, cliPc, cliPort, cliSrv, srvVars, touches, replies,
                   readys, envVars>>

CliLimitReached(c) == CliLimit # NoLimit /\ cliSum[c] >= CliLimit

CliNextBatch(c) ==
    /\ cliPc[c] \in {"calc", "batch"} /\ cliLeft[c] = 0
    /\ cliPc[c] = "batch" => ~CliLimitReached(c)
    /\ cliPc' = [cliPc EXCEPT ![c] = "batch"]
    /\ \E b \in Batches : cliLeft' = [cliLeft EXCEPT ![c] = b]
    /\ UNCHANGED <<mainVars, cliPort, cliSrv, cliConn, cliSum, srvVars, netVars,
                   envVars>>

CliStop(c) ==
    /\ cliPc[c] = "batch" /\ cliLeft[c] = 0
    /\ CliLimitReached(c) \/ CliTimed
    /\ cliPc' = [cliPc EXCEPT ![c] = "exit"]
    /\ cliConn' = [cliConn EXCEPT ![c] = Final(@)]
    /\ UNCHANGED <<mainVars, cliPort, cliSrv, cliLeft, cliSum, srvVars, netVars,
                   envVars>>

ClientThread(c) ==
    \/ CliSetup(c) \/ CliInform(c) \/ CliReady(c)
    \/ \E k \in Arrivals : CliKernel(c, k)
    \/ CliNextBatch(c) \/ CliStop(c)

-----------------------------------------------------------------------------
(* The network loses what it likes, at most MaxLoss datagrams in all.      *)

Lose == losses < MaxLoss /\ losses' = losses + 1

LoseTouch ==
    /\ touches > 0 /\ Lose
    /\ touches' = touches - 1
    /\ UNCHANGED <<mainVars, cliVars, srvVars, replies, informs, readys, data, faults>>

LoseReply(s) ==
    /\ s \in replies /\ Lose
    /\ replies' = replies \ {s}
    /\ UNCHANGED <<mainVars, cliVars, srvVars, touches, informs, readys, data, faults>>

LoseInform(c, p) ==
    /\ <<c, p>> \in informs /\ Lose
    /\ informs' = informs \ {<<c, p>>}
    /\ UNCHANGED <<mainVars, cliVars, srvVars, touches, replies, readys, data, faults>>

LoseReady(p) ==
    /\ readys[p] > 0 /\ Lose
    /\ readys' = [readys EXCEPT ![p] = @ - 1]
    /\ UNCHANGED <<mainVars, cliVars, srvVars, touches, replies, informs, data, faults>>

Failures ==
    \/ ClientOpenFails \/ ServerOpenFails
    \/ \E s \in Servers : SrvFail(s)
    \/ \E c \in Clients : CliFail(c) \/ CliGiveUp(c)

Losses ==
    \/ LoseTouch
    \/ \E s \in Servers : LoseReply(s)
    \/ \E c \in Clients, p \in SrvPorts : LoseInform(c, p)
    \/ \E p \in CliPorts : LoseReady(p)

Next ==
    \/ ClientMain \/ \E s \in Servers : ClientReply(s)
    \/ ServerMain
    \/ \E s \in Servers : ServerThread(s)
    \/ \E c \in Clients : ClientThread(c)
    \/ Failures
    \/ Losses

Spec == Init /\ [][Next]_vars

\* Threads run.  Recv returns a datagram that is waiting before it lets the
\* timeout expire, so a reply that stays does not lose to ClientTimeout for
\* ever; a time limit, once past, is seen at the end of the next batch; and
\* the thousand waits for READY run out.  Nothing makes a call fail or a
\* datagram get lost.
Fairness ==
    /\ WF_vars(ClientMain) /\ WF_vars(ServerMain)
    /\ SF_vars(\E s \in Servers : ClientReply(s))
    /\ \A s \in Servers : WF_vars(ServerThread(s)) /\ SF_vars(SrvStop(s))
    /\ \A c \in Clients : /\ WF_vars(ClientThread(c)) /\ SF_vars(CliStop(c))
                          /\ WF_vars(CliGiveUp(c))

FairSpec == Spec /\ Fairness

-----------------------------------------------------------------------------
(* Properties                                                              *)

MainType ==
    /\ cliMain \in {"open", "touch", "reply", "gather", "monitor", "join", "done", "failed"}
    /\ srvMain \in {"open", "listen", "release", "monitor", "join", "done", "failed"}
    /\ cliThrid \in 1..CliCount + 1 /\ srvThrid \in 1..SrvCount + 1

CliType ==
    /\ cliPc   \in [Clients -> ThreadPcs \ {"touch", "peer"}]
    /\ cliPort \in [Clients -> CliPorts \cup {NoPort}]
    /\ cliSrv  \in [Clients -> Servers \cup {Nobody}]
    /\ cliConn \in [Clients -> Int]
    /\ cliLeft \in [Clients -> Nat] /\ cliSum  \in [Clients -> Nat]

SrvType ==
    /\ srvPc   \in [Servers -> ThreadPcs \ {"inform"}]
    /\ srvPort \in [Servers -> SrvPorts \cup {NoPort}]
    /\ srvPeer \in [Servers -> Clients \cup {Nobody}]
    /\ srvConn \in [Servers -> Int]
    /\ srvLeft \in [Servers -> Nat] /\ srvSum  \in [Servers -> Nat]

NetType ==
    /\ touches \in 0..TouchCap /\ replies \subseteq Servers
    /\ informs \subseteq Clients \X SrvPorts
    /\ readys \in [CliPorts -> Nat] /\ data \in [SrvPorts -> 0..DataCap]

EnvType == losses \in 0..MaxLoss /\ faults \in 0..MaxFaults

TypeOK == MainType /\ CliType /\ SrvType /\ NetType /\ EnvType

\* No two client threads are given the same server thread, however many
\* touches were repeated and in whatever order the replies came.  Of threads:
\* two may be given the same address, once its first holder has returned.
PairingInjective ==
    \A c, d \in Clients : cliSrv[c] = cliSrv[d] /\ cliSrv[c] # Nobody => c = d

\* Thread t has returned, and its port is, or was, that of s as well.
LeftThePort(t, s) == srvPort[t] = srvPort[s] /\ srvPc[t] = "exit"

\* A server thread's peer is the client thread that was given it, so data
\* and READY flow between the same two threads; or one that was given a
\* thread which had its port before and has returned, never any other.
PeerAgreement ==
    \A s \in Servers : srvPeer[s] # Nobody =>
        LET t == cliSrv[srvPeer[s]] IN t # Nobody /\ (t = s \/ LeftThePort(t, s))

\* No client thread sends before the server has started all its threads.
StartBarrier ==
    \A c \in Clients : cliPc[c] \in {"calc", "batch"} =>
        \A s \in Servers : srvPc[s] # "none"

Begun == {"calc", "batch", "exit"}

\* A server thread that had the port c was given has taken c for its peer
\* and has begun.
HasReceiver(c) ==
    \E s \in Servers : /\ srvPort[s] = srvPort[cliSrv[c]]
                       /\ srvPeer[s] = c /\ srvPc[s] \in Begun

\* The port of c was that of a client thread which has returned.
SecondInPort(c) ==
    \E d \in Clients \ {c} : cliPort[d] = cliPort[c] /\ cliPc[d] = "exit"

\* A client thread sends only once a server thread at the port it was given
\* has taken it for its peer and begun to receive, unless its own port is
\* second hand: then the READY it acts on may have been meant for another.
SendsToReceiver ==
    \A c \in Clients : cliPc[c] \in {"calc", "batch"} =>
        HasReceiver(c) \/ SecondInPort(c)

\* When a main leaves its monitor loop every one of its threads has run its
\* course: status codes and packet counts, though one number, never mix.
MonitorSound ==
    /\ cliMain \in {"join", "done"} =>
          \A c \in Clients : cliPc[c] = "exit" /\ cliConn[c] # ERROR
    /\ srvMain \in {"join", "done"} =>
          \A s \in Servers : srvPc[s] = "exit" /\ srvConn[s] # ERROR

\* A packet count shown by the monitor never goes back, neither when a
\* thread negates it to stop nor when the server main writes READY.
ReportsGrow ==
    [][/\ \A c \in Clients : Reported(cliConn[c]) <= Reported(cliConn'[c])
       /\ \A s \in Servers : Reported(srvConn[s]) <= Reported(srvConn'[s])]_vars

\* No datagram is lost on its way and no call fails.
Fortunate == losses = 0 /\ faults = 0

\* In a fortunate session of as many clients as servers every server instance is
\* started, gets a peer and is released, though touches are dropped at a port not
\* yet bound, repeated, and answered late.
AllInstancesStart == []Fortunate => \A s \in Servers : <>(srvPc[s] \in {"calc", "batch"})

\* With a limit or a time, a client thread once started returns, with its load
\* sent or with an error, whatever the network loses and the server does.
ClientThreadsReturn ==
    \A c \in Clients : cliPc[c] = "setup" ~> cliPc[c] = "exit"

\* With a limit or a time given, the client program of a fortunate session
\* comes to its end, unless one of its threads has run out of patience.
ClientEnds == [](Fortunate /\ \A c \in Clients : cliConn[c] # ERROR) => <>(cliMain = "done")

\* With a limit or a time given, the server program comes to its end.
ServerEnds == <>(srvMain = "done")

\* A client program whose thread failed still comes to its end.
ClientEndsDespiteError ==
    (\E c \in Clients : cliConn[c] = ERROR) ~> cliMain \in {"done", "failed"}

-----------------------------------------------------------------------------
(* The invariants above are not inductive.  These are, and imply them.     *)

\* Threads are started in the order of their numbers.
IndexInv ==
    /\ cliMain \in {"open", "touch", "reply"} => cliThrid <= CliCount
    /\ srvMain \in {"open", "listen", "release", "failed"} => srvThrid <= SrvCount
    /\ \A c \in Clients : cliPc[c] = "none" <=> c >= cliThrid
    /\ \A c \in Clients : cliPc[c] = "none" <=> cliSrv[c] = Nobody
    /\ \A s \in Servers : srvPc[s] = "none" <=>
          srvMain \in {"open", "listen", "failed"} /\ s >= srvThrid

AllUp == \A s \in Servers : srvPc[s] # "none"

Booting == {"none", "setup", "touch", "peer", "wait"}

\* A thread has a port from its setup on.
BoundInv(pc, port) ==
    /\ pc \in {"none", "setup"} => port = NoPort
    /\ pc \notin {"none", "setup", "exit"} => port # NoPort

\* A port has one holder at a time: of two threads that had it one has left.
HeldOnce(pcs, ports) ==
    \A t, u \in DOMAIN ports :
        ports[t] = ports[u] /\ ports[t] # NoPort =>
            t = u \/ pcs[t] = "exit" \/ pcs[u] = "exit"

PortInv ==
    /\ \A c \in Clients : BoundInv(cliPc[c], cliPort[c])
    /\ \A s \in Servers : BoundInv(srvPc[s], srvPort[s])
    /\ HeldOnce(cliPc, cliPort) /\ HeldOnce(srvPc, srvPort)

\* A reply is sent once, from a bound port: it is on its way or a client
\* thread holds its sender, not both; and before it is sent neither is so.
RepliesFree ==
    \A s \in Servers :
        /\ s \in replies => \A c \in Clients : cliSrv[c] # s
        /\ s \in replies \/ (\E c \in Clients : cliSrv[c] = s) => srvPort[s] # NoPort
        /\ srvPc[s] \in {"none", "setup", "touch"} =>
              s \notin replies /\ \A c \in Clients : cliSrv[c] # s

\* A client thread sends from its port to the port it was given.
InformsRight ==
    \A c \in Clients, p \in SrvPorts : <<c, p>> \in informs =>
        /\ cliSrv[c] # Nobody /\ srvPort[cliSrv[c]] = p
        /\ cliPort[c] # NoPort

PeerKnown ==
    \A s \in Servers :
        /\ srvPc[s] \in {"wait", "calc", "batch"} => srvPeer[s] # Nobody
        /\ srvPeer[s] # Nobody => srvPort[s] # NoPort /\ cliPort[srvPeer[s]] # NoPort

\* No thread is released before all exist.
ReleasedLate ==
    \A s \in Servers : srvPc[s] \in Booting /\ srvConn[s] # WAIT => AllUp

\* READY goes only to the port of a peer, from a server thread that has begun.
ReadyFromBegun ==
    \A p \in CliPorts : readys[p] > 0 =>
        /\ \E s \in Servers : /\ srvPeer[s] # Nobody /\ cliPort[srvPeer[s]] = p
                             /\ srvPc[s] \in Begun
        /\ AllUp

HandshakeInv ==
    /\ IndexInv /\ PortInv /\ RepliesFree /\ InformsRight
    /\ PairingInjective /\ PeerAgreement /\ PeerKnown /\ ReleasedLate /\ ReadyFromBegun
    /\ StartBarrier /\ SendsToReceiver

\* Packets a calibration has sent, or received, so far.
CliCalibrated(c) == SendPack * (SendCalcRounds - cliLeft[c])
SrvCalibrated(s) == RecvPack * (RecvCalcRounds - srvLeft[s])

\* A status code while a thread boots, an exact count while it calibrates,
\* a count beyond every code in a batch, and the code or the negated count
\* once it has returned.
CliReport(c) ==
    /\ cliPc[c] \in {"none", "setup", "inform", "wait"} => cliConn[c] = WAIT
    /\ cliPc[c] = "calc" =>
          /\ cliLeft[c] <= SendCalcRounds
          /\ cliConn[c] = READY + CliCalibrated(c)
    /\ cliPc[c] = "batch" => cliConn[c] > -STATE_BEGIN
    /\ cliPc[c] = "exit" => cliConn[c] = ERROR \/ Over(cliConn[c])

SrvReport(s) ==
    /\ srvPc[s] \in Booting => srvConn[s] \in {WAIT, READY}
    /\ srvPc[s] = "calc" =>
          /\ srvLeft[s] <= RecvCalcRounds
          /\ srvConn[s] = READY + SrvCalibrated(s)
    /\ srvPc[s] = "batch" => srvConn[s] > -STATE_BEGIN
    /\ srvPc[s] = "exit" => srvConn[s] \in {ERROR, READY} \/ Over(srvConn[s])

\* Until it is released a server thread has at most a code to lose.
Unreleased(s) == \/ srvMain \in {"open", "listen", "failed"}
                 \/ srvMain = "release" /\ s >= srvThrid

UnreleasedHasCode(s) ==
    Unreleased(s) => \/ srvPc[s] \in Booting /\ srvConn[s] = WAIT
                     \/ srvPc[s] = "exit" /\ srvConn[s] = ERROR

\* A main past its monitor loop has seen every thread over.
PastMonitor ==
    /\ cliMain \in {"join", "done"} => \A c \in Clients : Over(cliConn[c])
    /\ srvMain \in {"join", "done"} => \A s \in Servers : Over(srvConn[s])

CountInv ==
    /\ \A c \in Clients : CliReport(c)
    /\ \A s \in Servers : SrvReport(s) /\ UnreleasedHasCode(s)
    /\ PastMonitor

\* A server thread that failed, or has not come so far, has learnt no peer:
\* one whose peer is known will run its course.
PeerLearntLast ==
    \A s \in Servers :
        \/ srvPc[s] \in {"none", "setup", "touch", "peer"}
        \/ srvPc[s] = "exit" /\ ~Over(srvConn[s])
        => srvPeer[s] = Nobody
=============================================================================
