-------------------------- MODULE UdpSessionProofs --------------------------
(* Theorems about UdpSession, for every number of instances and every      *)
(* value of the other constants.                                           *)
EXTENDS UdpSessionRefinement, TLAPS

USE DEF Clients, Servers, CliPorts, SrvPorts, Nobody, NoPort, NoLimit

-----------------------------------------------------------------------------
(* Who changes what.  Each invariant below talks of a few variables; these *)
(* lemmas leave only the steps that change them to be looked at.           *)

LEMMA MainFrame ==
    ASSUME [Next]_vars
    PROVE  \/ ClientMain \/ ServerMain \/ ClientOpenFails \/ ServerOpenFails
           \/ \E s \in Servers : ClientReply(s)
           \/ UNCHANGED mainVars
BY DEF Next, vars, ServerThread, ClientThread, Failures, Losses,
       SrvSetup, SrvTouch, SrvPeer, SrvStart, SrvKernel, SrvNextBatch, SrvStop,
       CliSetup, CliInform, CliReady, CliKernel, CliNextBatch, CliStop,
       SrvFail, CliFail, CliGiveUp, LoseTouch, LoseReply, LoseInform, LoseReady

LEMMA CliFrame ==
    ASSUME [Next]_vars
    PROVE  \/ \E s \in Servers : ClientReply(s)
           \/ \E c \in Clients : ClientThread(c) \/ CliFail(c) \/ CliGiveUp(c)
           \/ UNCHANGED cliVars
BY DEF Next, vars, ClientMain, ServerMain, ServerThread, Failures, Losses,
       ClientOpen, ClientTouch, ClientTimeout, ClientGather, ClientMonitor, ClientJoin,
       ServerOpen, ServerListen, ServerRelease, ServerMonitor, ServerJoin,
       SrvSetup, SrvTouch, SrvPeer, SrvStart, SrvKernel, SrvNextBatch, SrvStop,
       ClientOpenFails, ServerOpenFails, SrvFail,
       LoseTouch, LoseReply, LoseInform, LoseReady

LEMMA SrvFrame ==
    ASSUME [Next]_vars
    PROVE  \/ ServerListen \/ ServerRelease
           \/ \E s \in Servers : ServerThread(s) \/ SrvFail(s)
           \/ UNCHANGED srvVars
BY DEF Next, vars, ClientMain, ServerMain, ClientThread, Failures, Losses,
       ClientOpen, ClientTouch, ClientTimeout, ClientGather, ClientMonitor, ClientJoin,
       ServerOpen, ServerMonitor, ServerJoin, ClientReply,
       CliSetup, CliInform, CliReady, CliKernel, CliNextBatch, CliStop,
       ClientOpenFails, ServerOpenFails, CliFail, CliGiveUp,
       LoseTouch, LoseReply, LoseInform, LoseReady

LEMMA NetFrame ==
    ASSUME [Next]_vars
    PROVE  \/ ClientTouch \/ ServerListen
           \/ \E s \in Servers : \/ ClientReply(s) \/ SrvSetup(s) \/ SrvTouch(s)
                                \/ SrvStart(s) \/ SrvKernel(s) \/ SrvStop(s)
                                \/ SrvFail(s) \/ LoseReply(s)
           \/ \E c \in Clients, s \in Servers : SrvPeer(s, c)
           \/ \E c \in Clients : CliSetup(c) \/ CliInform(c) \/ CliReady(c)
           \/ \E c \in Clients, k \in Arrivals : CliKernel(c, k)
           \/ \E c \in Clients, p \in SrvPorts : LoseInform(c, p)
           \/ \E p \in CliPorts : LoseReady(p)
           \/ LoseTouch
           \/ UNCHANGED netVars
BY DEF Next, vars, ClientMain, ServerMain, ServerThread, ClientThread, Failures, Losses,
       ClientOpen, ClientTimeout, ClientGather, ClientMonitor, ClientJoin,
       ServerOpen, ServerRelease, ServerMonitor, ServerJoin,
       SrvNextBatch, CliNextBatch, CliStop,
       ClientOpenFails, ServerOpenFails, CliFail, CliGiveUp

LEMMA EnvFrame ==
    ASSUME [Next]_vars
    PROVE  Failures \/ Losses \/ UNCHANGED envVars
BY DEF Next, vars, ClientMain, ServerMain, ServerThread, ClientThread,
       ClientOpen, ClientTouch, ClientTimeout, ClientGather, ClientMonitor, ClientJoin,
       ServerOpen, ServerListen, ServerRelease, ServerMonitor, ServerJoin, ClientReply,
       SrvSetup, SrvTouch, SrvPeer, SrvStart, SrvKernel, SrvNextBatch, SrvStop,
       CliSetup, CliInform, CliReady, CliKernel, CliNextBatch, CliStop

-----------------------------------------------------------------------------
(* Type correctness                                                        *)

LEMMA MainTypeStep ==
    ASSUME MainType, IndexInv, [Next]_vars
    PROVE  MainType'
<1> USE DEF MainType, IndexInv
<1>1. CASE ClientMain
  BY <1>1 DEF ClientMain, ClientOpen, ClientTouch, ClientTimeout,
              ClientGather, ClientMonitor, ClientJoin
<1>2. CASE ServerMain
  BY <1>2, CountsAssumption
  DEF ServerMain, ServerOpen, ServerListen, ServerRelease, ServerMonitor,
      ServerJoin, AfterListen, LastReleased
<1>3. CASE ClientOpenFails \/ ServerOpenFails
  BY <1>3 DEF ClientOpenFails, ServerOpenFails
<1>4. ASSUME NEW s \in Servers, ClientReply(s) PROVE MainType'
  <2>1. cliThrid <= CliCount
    BY <1>4 DEF ClientReply
  <2> QED BY <1>4, <2>1, CountsAssumption DEF ClientReply
<1>5. CASE UNCHANGED mainVars
  BY <1>5 DEF mainVars
<1> QED BY <1>1, <1>2, <1>3, <1>4, <1>5, MainFrame

LEMMA CliTypeStep ==
    ASSUME CliType, MainType, [Next]_vars
    PROVE  CliType'
<1> USE DEF CliType, ThreadPcs
<1>1. ASSUME NEW s \in Servers, ClientReply(s) PROVE CliType'
  BY <1>1 DEF ClientReply
<1>2. ASSUME NEW c \in Clients, ClientThread(c) PROVE CliType'
  <2>1. CASE CliSetup(c) \/ CliInform(c)
    BY <2>1 DEF CliSetup, CliInform
  <2>2. CASE CliReady(c)
    BY <2>2, PackAssumption DEF CliReady, READY
  <2>3. ASSUME NEW k \in Arrivals, CliKernel(c, k) PROVE CliType'
    BY <2>3, PackAssumption DEF CliKernel, Bump
  <2>4. CASE CliNextBatch(c)
    BY <2>4, PackAssumption DEF CliNextBatch
  <2>5. CASE CliStop(c)
    BY <2>5 DEF CliStop, Final
  <2> QED BY <1>2, <2>1, <2>2, <2>3, <2>4, <2>5 DEF ClientThread
<1>3. ASSUME NEW c \in Clients, CliFail(c) \/ CliGiveUp(c) PROVE CliType'
  BY <1>3 DEF CliFail, CliGiveUp, ERROR
<1>4. CASE UNCHANGED cliVars
  BY <1>4 DEF cliVars
<1> QED BY <1>1, <1>2, <1>3, <1>4, CliFrame

LEMMA SrvTypeStep ==
    ASSUME SrvType, MainType, [Next]_vars
    PROVE  SrvType'
<1> USE DEF SrvType, ThreadPcs
<1>1. CASE ServerListen
  BY <1>1 DEF ServerListen
<1>2. CASE ServerRelease
  <2>1. srvConn' = [srvConn EXCEPT ![srvThrid] = READY] /\ READY \in Int
    BY <1>2 DEF ServerRelease, READY
  <2>2. srvConn' \in [Servers -> Int]
    BY <2>1
  <2> QED BY <1>2, <2>2 DEF ServerRelease
<1>3. ASSUME NEW s \in Servers, ServerThread(s) PROVE SrvType'
  <2>1. CASE SrvSetup(s)
    <3>1. srvPort' \in [Servers -> SrvPorts \cup {NoPort}]
      BY <2>1 DEF SrvSetup
    <3> QED BY <2>1, <3>1 DEF SrvSetup
  <2>2. CASE SrvTouch(s)
    BY <2>2 DEF SrvTouch
  <2>3. ASSUME NEW c \in Clients, SrvPeer(s, c) PROVE SrvType'
    BY <2>3 DEF SrvPeer
  <2>4. CASE SrvStart(s)
    BY <2>4, PackAssumption DEF SrvStart
  <2>5. CASE SrvKernel(s)
    BY <2>5, PackAssumption DEF SrvKernel, Bump
  <2>6. CASE SrvNextBatch(s)
    BY <2>6, PackAssumption DEF SrvNextBatch
  <2>7. CASE SrvStop(s)
    BY <2>7 DEF SrvStop, Final
  <2> QED BY <1>3, <2>1, <2>2, <2>3, <2>4, <2>5, <2>6, <2>7 DEF ServerThread
<1>4. ASSUME NEW s \in Servers, SrvFail(s) PROVE SrvType'
  BY <1>4 DEF SrvFail, ERROR
<1>5. CASE UNCHANGED srvVars
  BY <1>5 DEF srvVars
<1> QED BY <1>1, <1>2, <1>3, <1>4, <1>5, SrvFrame

\* What arrives at a receiver fits its buffer.
LEMMA DeliveredType ==
    ASSUME NetType, NEW p \in SrvPorts, NEW n \in Nat
    PROVE  Delivered(p, n) \in 0..DataCap
BY BoundAssumption DEF Delivered, NetType

\* A client thread that sends, or informs, was given a port.
LEMMA GivenPort ==
    ASSUME TypeOK, IndexInv, RepliesFree, NEW c \in Clients, cliPc[c] # "none"
    PROVE  cliSrv[c] \in Servers /\ srvPort[cliSrv[c]] \in SrvPorts
<1>1. cliSrv[c] \in Servers
  BY DEF IndexInv, TypeOK, CliType
<1>2. srvPort[cliSrv[c]] # NoPort
  BY <1>1 DEF RepliesFree
<1> QED BY <1>1, <1>2 DEF TypeOK, SrvType

LEMMA NetTypeStep ==
    ASSUME TypeOK, IndexInv, PortInv, RepliesFree, PeerKnown, [Next]_vars
    PROVE  NetType'
<1> USE DEF TypeOK, NetType
<1>1. CASE ClientTouch
  BY <1>1, BoundAssumption DEF ClientTouch
<1>2. CASE ServerListen \/ LoseTouch
  <2>1. touches' \in 0..TouchCap
    BY <1>2, BoundAssumption DEF ServerListen, LoseTouch
  <2> QED BY <1>2, <2>1 DEF ServerListen, LoseTouch
<1>3. ASSUME NEW s \in Servers,
             \/ ClientReply(s) \/ SrvSetup(s) \/ SrvTouch(s) \/ SrvStart(s)
             \/ SrvKernel(s) \/ SrvStop(s) \/ SrvFail(s) \/ LoseReply(s)
      PROVE  NetType'
  <2>1. CASE ClientReply(s) \/ SrvTouch(s) \/ LoseReply(s)
    BY <2>1 DEF ClientReply, RepliesAfter, SrvTouch, LoseReply
  <2>2. CASE SrvStart(s)
    <3>1. srvPeer[s] \in Clients /\ cliPort[srvPeer[s]] \in CliPorts
      BY <2>2 DEF SrvStart, MayStart, PeerKnown, SrvType, CliType
    <3>2. readys[cliPort[srvPeer[s]]] + ReadyCopies \in Nat
      BY <3>1, PackAssumption
    <3>3. readys' \in [CliPorts -> Nat]
      BY <2>2, <3>2 DEF SrvStart
    <3> QED BY <2>2, <3>3 DEF SrvStart
  <2>3. CASE SrvKernel(s)
    <3>1. srvPort[s] \in SrvPorts
      BY <2>3 DEF SrvKernel, PortInv, BoundInv, SrvType
    <3>2. data[srvPort[s]] \in 0..DataCap /\ data[srvPort[s]] - RecvPack \in 0..DataCap
      BY <2>3, <3>1, PackAssumption, BoundAssumption DEF SrvKernel
    <3>3. data' \in [SrvPorts -> 0..DataCap]
      BY <2>3, <3>2 DEF SrvKernel
    <3> QED BY <2>3, <3>3 DEF SrvKernel
  <2>4. CASE SrvStop(s) \/ SrvFail(s)
    <3>1. data' \in [SrvPorts -> 0..DataCap]
      BY <2>4, BoundAssumption DEF SrvStop, SrvFail, Closed
    <3> QED BY <2>4, <3>1 DEF SrvStop, SrvFail
  <2>5. CASE SrvSetup(s)
    BY <2>5 DEF SrvSetup
  <2> QED BY <1>3, <2>1, <2>2, <2>3, <2>4, <2>5
<1>4. ASSUME NEW c \in Clients, NEW s \in Servers, SrvPeer(s, c) PROVE NetType'
  BY <1>4 DEF SrvPeer
<1>5. ASSUME NEW c \in Clients, NEW p \in SrvPorts, LoseInform(c, p) PROVE NetType'
  BY <1>5 DEF LoseInform
<1>6. ASSUME NEW c \in Clients, CliInform(c) PROVE NetType'
  <2>1. srvPort[cliSrv[c]] \in SrvPorts
    BY <1>6, GivenPort DEF CliInform
  <2> QED BY <1>6, <2>1 DEF CliInform, Informed
<1>7. ASSUME NEW c \in Clients, CliSetup(c) PROVE NetType'
  <2>1. \E p \in CliPorts : \E k \in 0..readys[p] : readys' = [readys EXCEPT ![p] = k]
    BY <1>7 DEF CliSetup
  <2>2. readys' \in [CliPorts -> Nat]
    BY <2>1
  <2> QED BY <1>7, <2>2 DEF CliSetup
<1>8. ASSUME NEW p \in CliPorts, readys[p] > 0, readys' = [readys EXCEPT ![p] = @ - 1],
             UNCHANGED <<touches, replies, informs, data>>
      PROVE  NetType'
  <2>1. readys[p] - 1 \in Nat
    BY <1>8
  <2> QED BY <1>8, <2>1
<1>9. ASSUME NEW c \in Clients, CliReady(c) PROVE NetType'
  <2>1. cliPort[c] \in CliPorts
    BY <1>9 DEF CliReady, PortInv, BoundInv, CliType
  <2> QED BY <1>8, <1>9, <2>1 DEF CliReady
<1>10. ASSUME NEW p \in CliPorts, LoseReady(p) PROVE NetType'
  BY <1>8, <1>10 DEF LoseReady
<1>11. ASSUME NEW c \in Clients, NEW k \in Arrivals, CliKernel(c, k)
       PROVE  NetType'
  <2> DEFINE p == srvPort[cliSrv[c]]
  <2>1. p \in SrvPorts
    BY <1>11, GivenPort DEF CliKernel
  <2>2. PICK n \in Nat : data' = [data EXCEPT ![p] = Delivered(p, n)]
    <3>1. k \in Nat /\ (k > 0 => k - 1 \in Nat)
      BY PackAssumption
    <3>2. \/ k > 0 /\ data' = [data EXCEPT ![p] = Delivered(p, k - 1)]
          \/ data' = [data EXCEPT ![p] = Delivered(p, k)]
      BY <1>11 DEF CliKernel, TakenForInform
    <3> QED BY <3>1, <3>2
  <2>3. data' \in [SrvPorts -> 0..DataCap]
    <3>1. Delivered(p, n) \in 0..DataCap
      BY <2>1, DeliveredType
    <3> QED BY <2>2, <3>1
  <2>4. informs' \subseteq Clients \X SrvPorts
    BY <1>11, <2>1 DEF CliKernel
  <2> QED BY <1>11, <2>3, <2>4 DEF CliKernel
<1>12. CASE UNCHANGED netVars
  BY <1>12 DEF netVars
<1> QED BY <1>1, <1>2, <1>3, <1>4, <1>5, <1>6, <1>7, <1>9, <1>10, <1>11, <1>12, NetFrame

LEMMA EnvTypeStep ==
    ASSUME EnvType, [Next]_vars
    PROVE  EnvType'
<1>1. CASE Failures
  BY <1>1, BoundAssumption
  DEF EnvType, Failures, Fault, ClientOpenFails, ServerOpenFails, SrvFail,
      CliFail, CliGiveUp, envVars
<1>2. CASE Losses
  <2>1. Lose /\ UNCHANGED faults
    BY <1>2 DEF Losses, LoseTouch, LoseReply, LoseInform, LoseReady
  <2> QED BY <2>1, BoundAssumption DEF EnvType, Lose
<1>3. CASE UNCHANGED envVars
  BY <1>3 DEF EnvType, envVars
<1> QED BY <1>1, <1>2, <1>3, EnvFrame

\* Threads are started in the order of their numbers, once each.
LEMMA IndexStep ==
    ASSUME TypeOK, IndexInv, [Next]_vars
    PROVE  IndexInv'
<1> USE DEF TypeOK, MainType, IndexInv
<1>1. CASE ClientMain
  BY <1>1, CountsAssumption
  DEF ClientMain, ClientOpen, ClientTouch, ClientTimeout,
      ClientGather, ClientMonitor, ClientJoin, cliVars, srvVars
<1>2. CASE ServerMain
  <2>1. CASE ServerListen
    <3>1. srvPc' = [srvPc EXCEPT ![srvThrid] = "setup"] /\ srvThrid \in Servers
      BY <2>1, CountsAssumption DEF ServerListen
    <3>2. \A s \in Servers : srvPc'[s] = IF s = srvThrid THEN "setup" ELSE srvPc[s]
      BY <3>1 DEF SrvType
    <3> QED BY <2>1, <3>1, <3>2, CountsAssumption DEF ServerListen, AfterListen, cliVars
  <2>2. CASE ServerRelease
    BY <2>2, CountsAssumption DEF ServerRelease, LastReleased, cliVars
  <2> QED
    BY <1>2, <2>1, <2>2
    DEF ServerMain, ServerOpen, ServerMonitor, ServerJoin, cliVars, srvVars
<1>3. ASSUME NEW s \in Servers, ClientReply(s) PROVE IndexInv'
  <2>1. cliThrid \in Clients /\ cliThrid' = cliThrid + 1
    BY <1>3, CountsAssumption DEF ClientReply
  <2>2. \A c \in Clients :
           /\ cliPc'[c] = IF c = cliThrid THEN "setup" ELSE cliPc[c]
           /\ cliSrv'[c] = IF c = cliThrid THEN s ELSE cliSrv[c]
    BY <1>3, <2>1 DEF ClientReply, CliType
  <2> QED BY <1>3, <2>1, <2>2, CountsAssumption DEF ClientReply, srvVars
<1>4. ASSUME NEW c \in Clients, ClientThread(c) \/ CliFail(c) \/ CliGiveUp(c)
      PROVE  IndexInv'
  <2>1. /\ cliPc[c] # "none" /\ cliPc'[c] # "none"
        /\ \A d \in Clients \ {c} : cliPc'[d] = cliPc[d]
    BY <1>4 DEF CliType, ClientThread, CliSetup, CliInform, CliReady, CliKernel,
                CliNextBatch, CliStop, CliFail, CliGiveUp
  <2>2. UNCHANGED <<mainVars, cliSrv, srvVars>>
    BY <1>4 DEF ClientThread, CliSetup, CliInform, CliReady, CliKernel,
                CliNextBatch, CliStop, CliFail, CliGiveUp
  <2> QED BY <2>1, <2>2 DEF mainVars, srvVars
<1>5. ASSUME NEW s \in Servers, ServerThread(s) \/ SrvFail(s)
      PROVE  IndexInv'
  <2>1. /\ srvPc[s] # "none" /\ srvPc'[s] # "none"
        /\ \A t \in Servers \ {s} : srvPc'[t] = srvPc[t]
    BY <1>5 DEF SrvType, ServerThread, SrvSetup, SrvTouch, SrvPeer, SrvStart, MayStart,
                SrvKernel, SrvNextBatch, SrvStop, SrvFail
  <2>2. UNCHANGED <<mainVars, cliVars>>
    BY <1>5 DEF ServerThread, SrvSetup, SrvTouch, SrvPeer, SrvStart,
                SrvKernel, SrvNextBatch, SrvStop, SrvFail
  <2> QED BY <2>1, <2>2 DEF mainVars, cliVars
<1>6. CASE ClientOpenFails \/ ServerOpenFails
  BY <1>6, CountsAssumption DEF ClientOpenFails, ServerOpenFails, cliVars, srvVars
<1>7. CASE Losses
  BY <1>7 DEF Losses, LoseTouch, LoseReply, LoseInform, LoseReady,
              mainVars, cliVars, srvVars
<1>8. CASE UNCHANGED vars
  BY <1>8 DEF vars, mainVars, cliVars, srvVars
<1> QED BY <1>1, <1>2, <1>3, <1>4, <1>5, <1>6, <1>7, <1>8 DEF Next, Failures

LEMMA TypeStep ==
    ASSUME TypeOK, IndexInv, PortInv, RepliesFree, PeerKnown, [Next]_vars
    PROVE  TypeOK'
BY MainTypeStep, CliTypeStep, SrvTypeStep, NetTypeStep, EnvTypeStep DEF TypeOK

LEMMA TypeInit == Init => TypeOK /\ IndexInv
BY CountsAssumption, PackAssumption, BoundAssumption
DEF Init, TypeOK, MainType, CliType, SrvType, NetType, EnvType, IndexInv, ThreadPcs, WAIT

-----------------------------------------------------------------------------
(* The handshake                                                           *)

\* The server thread given to a client thread is never taken back or changed.
LEMMA CliSrvStep ==
    ASSUME TypeOK, IndexInv, [Next]_vars, NEW c \in Clients
    PROVE  \/ cliSrv'[c] = cliSrv[c]
           \/ /\ cliSrv[c] = Nobody /\ cliPc'[c] = "setup"
              /\ \E s \in replies : cliSrv' = [cliSrv EXCEPT ![c] = s] /\ replies' = replies \ {s}
<1>1. ASSUME NEW s \in Servers, ClientReply(s)
      PROVE  \/ cliSrv'[c] = cliSrv[c]
             \/ /\ cliSrv[c] = Nobody /\ cliPc'[c] = "setup"
                /\ \E t \in replies : cliSrv' = [cliSrv EXCEPT ![c] = t] /\ replies' = replies \ {t}
  <2>1. cliThrid \in Clients /\ cliSrv[cliThrid] = Nobody
    BY <1>1, CountsAssumption DEF ClientReply, IndexInv, TypeOK, MainType
  <2> QED BY <1>1, <2>1 DEF ClientReply, RepliesAfter, TypeOK, CliType
<1>2. ASSUME NEW d \in Clients, ClientThread(d) \/ CliFail(d) \/ CliGiveUp(d)
      PROVE  cliSrv' = cliSrv
  BY <1>2 DEF ClientThread, CliSetup, CliInform, CliReady, CliKernel,
              CliNextBatch, CliStop, CliFail, CliGiveUp
<1> QED BY <1>1, <1>2, CliFrame DEF cliVars

\* A server thread only moves forward, and learns its peer but once.
LEMMA SrvStep ==
    ASSUME TypeOK, IndexInv, [Next]_vars, NEW s \in Servers
    PROVE  \/ /\ srvPc'[s] = srvPc[s] /\ srvPeer'[s] = srvPeer[s]
              /\ srvPort'[s] = srvPort[s]
           \/ /\ srvPc[s] = "none" /\ srvPc'[s] = "setup" /\ srvPeer'[s] = srvPeer[s]
              /\ srvPort'[s] = srvPort[s]
           \/ SrvSetup(s) \/ SrvTouch(s) \/ \E c \in Clients : SrvPeer(s, c)
           \/ SrvStart(s) \/ SrvNextBatch(s) \/ SrvStop(s) \/ SrvFail(s)
<1> USE DEF TypeOK, SrvType
<1>1. CASE ServerListen
  <2>1. srvThrid \in Servers /\ srvPc[srvThrid] = "none"
    BY <1>1, CountsAssumption DEF ServerListen, IndexInv, MainType
  <2> QED BY <1>1, <2>1 DEF ServerListen
<1>2. ASSUME NEW t \in Servers, t # s, ServerThread(t) \/ SrvFail(t)
      PROVE  /\ srvPc'[s] = srvPc[s] /\ srvPeer'[s] = srvPeer[s]
             /\ srvPort'[s] = srvPort[s]
  BY <1>2 DEF ServerThread, SrvSetup, SrvTouch, SrvPeer, SrvStart,
              SrvKernel, SrvNextBatch, SrvStop, SrvFail
<1>3. CASE SrvKernel(s) \/ ServerRelease
  BY <1>3 DEF SrvKernel, ServerRelease
<1> QED BY <1>1, <1>2, <1>3, SrvFrame DEF ServerThread, srvVars

\* So does a client thread.
LEMMA CliStep ==
    ASSUME TypeOK, IndexInv, [Next]_vars, NEW c \in Clients
    PROVE  \/ cliPc'[c] = cliPc[c] /\ cliPort'[c] = cliPort[c]
           \/ cliPc[c] = "none" /\ cliPc'[c] = "setup" /\ cliPort'[c] = cliPort[c]
           \/ CliSetup(c) \/ CliInform(c) \/ CliReady(c)
           \/ CliNextBatch(c) \/ CliStop(c) \/ CliFail(c) \/ CliGiveUp(c)
<1> USE DEF TypeOK, CliType
<1>1. ASSUME NEW s \in Servers, ClientReply(s)
      PROVE  \/ cliPc'[c] = cliPc[c] /\ cliPort'[c] = cliPort[c]
             \/ cliPc[c] = "none" /\ cliPc'[c] = "setup" /\ cliPort'[c] = cliPort[c]
  <2>1. cliThrid \in Clients /\ cliPc[cliThrid] = "none"
    BY <1>1, CountsAssumption DEF ClientReply, IndexInv, MainType
  <2> QED BY <1>1, <2>1 DEF ClientReply
<1>2. ASSUME NEW d \in Clients, d # c, ClientThread(d) \/ CliFail(d) \/ CliGiveUp(d)
      PROVE  cliPc'[c] = cliPc[c] /\ cliPort'[c] = cliPort[c]
  BY <1>2 DEF ClientThread, CliSetup, CliInform, CliReady, CliKernel,
              CliNextBatch, CliStop, CliFail, CliGiveUp
<1>3. ASSUME NEW k \in Arrivals, CliKernel(c, k)
      PROVE  cliPc'[c] = cliPc[c] /\ cliPort'[c] = cliPort[c]
  BY <1>3 DEF CliKernel
<1> QED BY <1>1, <1>2, <1>3, CliFrame DEF ClientThread, cliVars

\* A port once had is had for good, and a thread once left stays away.
LEMMA SrvPortKept ==
    ASSUME TypeOK, IndexInv, PortInv, [Next]_vars, NEW s \in Servers
    PROVE  /\ srvPort[s] # NoPort => srvPort'[s] = srvPort[s]
           /\ srvPc[s] = "exit" => srvPc'[s] = "exit"
BY SrvStep
DEF PortInv, BoundInv, SrvSetup, SrvTouch, SrvPeer, SrvStart, MayStart, SrvNextBatch,
    SrvStop, SrvFail, TypeOK, SrvType

LEMMA CliPortKept ==
    ASSUME TypeOK, IndexInv, PortInv, [Next]_vars, NEW c \in Clients
    PROVE  /\ cliPort[c] # NoPort => cliPort'[c] = cliPort[c]
           /\ cliPc[c] = "exit" => cliPc'[c] = "exit"
BY CliStep
DEF PortInv, BoundInv, CliSetup, CliInform, CliReady, CliNextBatch, CliStop, CliFail,
    CliGiveUp, TypeOK, CliType

\* Binding takes a port whose holders have all left.
LEMMA SetupTakesFree ==
    ASSUME TypeOK
    PROVE  /\ \A s \in Servers : SrvSetup(s) =>
                 /\ srvPort'[s] \in SrvPorts /\ srvPc[s] = "setup" /\ srvPc'[s] = "touch"
                 /\ \A t \in Servers \ {s} :
                       /\ srvPort'[t] = srvPort[t] /\ srvPc'[t] = srvPc[t]
                       /\ srvPort[t] = srvPort'[s] => srvPc[t] = "exit"
           /\ \A c \in Clients : CliSetup(c) =>
                 /\ cliPort'[c] \in CliPorts /\ cliPc[c] = "setup" /\ cliPc'[c] = "inform"
                 /\ \A d \in Clients \ {c} :
                       /\ cliPort'[d] = cliPort[d] /\ cliPc'[d] = cliPc[d]
                       /\ cliPort[d] = cliPort'[c] => cliPc[d] = "exit"
<1>1. ASSUME NEW s \in Servers, SrvSetup(s)
      PROVE  /\ srvPort'[s] \in SrvPorts /\ srvPc[s] = "setup" /\ srvPc'[s] = "touch"
             /\ \A t \in Servers \ {s} :
                   /\ srvPort'[t] = srvPort[t] /\ srvPc'[t] = srvPc[t]
                   /\ srvPort[t] = srvPort'[s] => srvPc[t] = "exit"
  <2>1. PICK p \in SrvPorts : /\ Free(p, srvPort, srvPc)
                              /\ srvPort' = [srvPort EXCEPT ![s] = p]
    BY <1>1 DEF SrvSetup, FirstFree
  <2>2. srvPc[s] = "setup" /\ srvPc' = [srvPc EXCEPT ![s] = "touch"]
    BY <1>1 DEF SrvSetup
  <2> QED BY <2>1, <2>2 DEF Free, TypeOK, SrvType
<1>2. ASSUME NEW c \in Clients, CliSetup(c)
      PROVE  /\ cliPort'[c] \in CliPorts /\ cliPc[c] = "setup" /\ cliPc'[c] = "inform"
             /\ \A d \in Clients \ {c} :
                   /\ cliPort'[d] = cliPort[d] /\ cliPc'[d] = cliPc[d]
                   /\ cliPort[d] = cliPort'[c] => cliPc[d] = "exit"
  <2>1. PICK p \in CliPorts : /\ Free(p, cliPort, cliPc)
                              /\ cliPort' = [cliPort EXCEPT ![c] = p]
    BY <1>2 DEF CliSetup, FirstFree
  <2>2. cliPc[c] = "setup" /\ cliPc' = [cliPc EXCEPT ![c] = "inform"]
    BY <1>2 DEF CliSetup
  <2> QED BY <2>1, <2>2 DEF Free, TypeOK, CliType
<1> QED BY <1>1, <1>2

LEMMA BoundStep ==
    ASSUME TypeOK, IndexInv, PortInv, [Next]_vars
    PROVE  /\ \A c \in Clients : BoundInv(cliPc[c], cliPort[c])'
           /\ \A s \in Servers : BoundInv(srvPc[s], srvPort[s])'
<1>1. ASSUME NEW c \in Clients PROVE BoundInv(cliPc[c], cliPort[c])'
  <2>1. CASE CliSetup(c)
    BY <2>1, SetupTakesFree DEF BoundInv
  <2>2. CASE ~CliSetup(c)
    BY <2>2, CliStep
    DEF PortInv, BoundInv, CliInform, CliReady, CliNextBatch, CliStop, CliFail,
        CliGiveUp, TypeOK, CliType
  <2> QED BY <2>1, <2>2
<1>2. ASSUME NEW s \in Servers PROVE BoundInv(srvPc[s], srvPort[s])'
  <2>1. CASE SrvSetup(s)
    BY <2>1, SetupTakesFree DEF BoundInv
  <2>2. CASE ~SrvSetup(s)
    <3>1. srvPort'[s] = srvPort[s]
      BY <2>2, SrvStep DEF SrvTouch, SrvPeer, SrvStart, SrvNextBatch, SrvStop, SrvFail
    <3>2. /\ srvPc'[s] \in {"none", "setup"} => srvPc[s] \in {"none", "setup"}
          /\ srvPc'[s] \notin {"none", "setup", "exit"}
                => srvPc[s] \notin {"none", "setup", "exit"}
      BY <2>2, SrvStep DEF SrvTouch, SrvPeer, SrvStart, MayStart, SrvNextBatch, SrvStop,
                           SrvFail, TypeOK, SrvType
    <3> QED BY <3>1, <3>2 DEF PortInv, BoundInv
  <2> QED BY <2>1, <2>2
<1> QED BY <1>1, <1>2

\* A thread that is not setting up has the port it had.
LEMMA PortSame ==
    ASSUME TypeOK, IndexInv, [Next]_vars
    PROVE  /\ \A c \in Clients : CliSetup(c) \/ cliPort'[c] = cliPort[c]
           /\ \A s \in Servers : SrvSetup(s) \/ srvPort'[s] = srvPort[s]
<1>1. ASSUME NEW c \in Clients, ~CliSetup(c) PROVE cliPort'[c] = cliPort[c]
  BY <1>1, CliStep DEF CliInform, CliReady, CliNextBatch, CliStop, CliFail, CliGiveUp
<1>2. ASSUME NEW s \in Servers, ~SrvSetup(s) PROVE srvPort'[s] = srvPort[s]
  BY <1>2, SrvStep DEF SrvTouch, SrvPeer, SrvStart, SrvNextBatch, SrvStop, SrvFail
<1> QED BY <1>1, <1>2

LEMMA HeldStep ==
    ASSUME TypeOK, IndexInv, PortInv, [Next]_vars
    PROVE  HeldOnce(cliPc, cliPort)' /\ HeldOnce(srvPc, srvPort)'
<1>1. /\ DOMAIN cliPort = Clients /\ DOMAIN cliPort' = Clients
      /\ DOMAIN srvPort = Servers /\ DOMAIN srvPort' = Servers
  BY CliTypeStep, SrvTypeStep DEF TypeOK, CliType, SrvType
<1>2. ASSUME NEW c \in Clients, NEW d \in Clients, c # d,
             cliPort'[c] = cliPort'[d], cliPort'[c] # NoPort
      PROVE  cliPc'[c] = "exit" \/ cliPc'[d] = "exit"
  <2>1. CASE CliSetup(c) \/ CliSetup(d)
    BY <1>2, <2>1, SetupTakesFree
  <2>2. CASE cliPort'[c] = cliPort[c] /\ cliPort'[d] = cliPort[d]
    BY <1>1, <1>2, <2>2, CliPortKept DEF PortInv, HeldOnce
  <2> QED BY <2>1, <2>2, PortSame
<1>3. ASSUME NEW s \in Servers, NEW t \in Servers, s # t,
             srvPort'[s] = srvPort'[t], srvPort'[s] # NoPort
      PROVE  srvPc'[s] = "exit" \/ srvPc'[t] = "exit"
  <2>1. CASE SrvSetup(s) \/ SrvSetup(t)
    BY <1>3, <2>1, SetupTakesFree
  <2>2. CASE srvPort'[s] = srvPort[s] /\ srvPort'[t] = srvPort[t]
    BY <1>1, <1>3, <2>2, SrvPortKept DEF PortInv, HeldOnce
  <2> QED BY <2>1, <2>2, PortSame
<1> QED BY <1>1, <1>2, <1>3 DEF HeldOnce

\* Once all server threads exist they all go on existing.
LEMMA AllUpStep ==
    ASSUME TypeOK, IndexInv, AllUp, [Next]_vars
    PROVE  AllUp'
<1> SUFFICES ASSUME NEW s \in Servers PROVE srvPc'[s] # "none"
  BY DEF AllUp
<1> QED BY SrvStep
        DEF AllUp, TypeOK, SrvType, SrvSetup, SrvTouch, SrvPeer, SrvStart,
            SrvNextBatch, SrvStop, SrvFail

LEMMA PairingStep ==
    ASSUME TypeOK, IndexInv, RepliesFree, PairingInjective, [Next]_vars
    PROVE  PairingInjective'
<1> SUFFICES ASSUME NEW c \in Clients, NEW d \in Clients,
                    cliSrv'[c] = cliSrv'[d], cliSrv'[c] # Nobody
             PROVE  c = d
  BY DEF PairingInjective
<1>1. \A s \in replies, e \in Clients : cliSrv[e] # s
  BY DEF RepliesFree, TypeOK, NetType
<1>2. cliSrv'[c] = cliSrv[c] \/ \A e \in Clients : cliSrv[e] # cliSrv'[c]
  BY <1>1, CliSrvStep DEF TypeOK, CliType
<1>3. cliSrv'[d] = cliSrv[d] \/ \A e \in Clients : cliSrv[e] # cliSrv'[d]
  BY <1>1, CliSrvStep DEF TypeOK, CliType
<1>4. CASE cliSrv'[c] = cliSrv[c] /\ cliSrv'[d] = cliSrv[d]
  BY <1>4 DEF PairingInjective
<1>5. CASE cliSrv'[c] # cliSrv[c] /\ cliSrv'[d] # cliSrv[d]
  BY <1>5, CliSrvStep DEF TypeOK, CliType
<1> QED BY <1>2, <1>3, <1>4, <1>5

\* What a client thread is given is its own for good, and had its port when
\* it was given.
LEMMA GivenKept ==
    ASSUME TypeOK, IndexInv, PortInv, RepliesFree, [Next]_vars,
           NEW c \in Clients, cliSrv[c] # Nobody
    PROVE  /\ cliSrv[c] \in Servers /\ cliSrv'[c] = cliSrv[c]
           /\ srvPort[cliSrv[c]] # NoPort /\ srvPort'[cliSrv[c]] = srvPort[cliSrv[c]]
<1>1. cliSrv[c] \in Servers /\ srvPort[cliSrv[c]] # NoPort
  BY DEF RepliesFree, TypeOK, CliType
<1> QED BY <1>1, CliSrvStep, SrvPortKept

LEMMA PeerStep ==
    ASSUME TypeOK, IndexInv, PortInv, RepliesFree, InformsRight, PeerKnown,
           PeerAgreement, [Next]_vars
    PROVE  PeerAgreement'
<1> SUFFICES ASSUME NEW s \in Servers, srvPeer'[s] # Nobody
             PROVE  /\ cliSrv'[srvPeer'[s]] # Nobody
                    /\ \/ cliSrv'[srvPeer'[s]] = s
                       \/ /\ srvPort'[cliSrv'[srvPeer'[s]]] = srvPort'[s]
                          /\ srvPc'[cliSrv'[srvPeer'[s]]] = "exit"
  BY DEF PeerAgreement, LeftThePort
<1> DEFINE c == srvPeer'[s]
           t == cliSrv[c]
<1>1. /\ c \in Clients /\ t # Nobody /\ srvPort[s] # NoPort
      /\ t = s \/ LeftThePort(t, s)
  <2>1. CASE srvPeer'[s] = srvPeer[s]
    BY <2>1 DEF PeerAgreement, PeerKnown, TypeOK, SrvType
  <2>2. ASSUME NEW d \in Clients, SrvPeer(s, d)
        PROVE  /\ c \in Clients /\ t # Nobody /\ srvPort[s] # NoPort
               /\ t = s \/ LeftThePort(t, s)
    <3>1. c = d /\ <<c, srvPort[s]>> \in informs /\ srvPc[s] = "peer"
      BY <2>2 DEF SrvPeer, TypeOK, SrvType
    <3>2. srvPort[s] \in SrvPorts
      BY <3>1 DEF TypeOK, SrvType, PortInv, BoundInv
    <3>3. t # Nobody /\ srvPort[t] = srvPort[s]
      BY <2>2, <3>1, <3>2 DEF InformsRight
    <3>4. t \in Servers /\ DOMAIN srvPort = Servers
      BY <2>2, <3>1, <3>3 DEF TypeOK, CliType, SrvType
    <3>5. t = s \/ srvPc[t] = "exit"
      BY <3>1, <3>2, <3>3, <3>4 DEF PortInv, HeldOnce
    <3> QED BY <2>2, <3>1, <3>2, <3>3, <3>5 DEF LeftThePort
  <2>3. srvPeer'[s] = srvPeer[s] \/ \E d \in Clients : SrvPeer(s, d)
    BY SrvStep DEF SrvSetup, SrvTouch, SrvStart, SrvNextBatch, SrvStop, SrvFail
  <2> QED BY <2>1, <2>2, <2>3
<1>2. /\ t \in Servers /\ cliSrv'[c] = t /\ srvPort'[t] = srvPort[t]
      /\ srvPort'[s] = srvPort[s]
  BY <1>1, GivenKept, SrvPortKept
<1>3. t = s \/ (srvPort'[t] = srvPort'[s] /\ srvPc'[t] = "exit")
  BY <1>1, <1>2, SrvPortKept DEF LeftThePort
<1> QED BY <1>1, <1>2, <1>3

\* What becomes of the replies: one more when a server thread touches, one
\* less when a client thread is given its sender or it is lost.
LEMMA RepliesStep ==
    ASSUME TypeOK, [Next]_vars
    PROVE  \/ replies' \subseteq replies
           \/ \E s \in Servers : SrvTouch(s)
BY NetFrame
DEF netVars, ClientTouch, ServerListen, ClientReply, RepliesAfter, SrvSetup, SrvStart,
      SrvKernel, SrvStop, SrvFail, SrvPeer, CliSetup, CliInform, CliReady, CliKernel,
      LoseTouch, LoseReply, LoseInform, LoseReady

LEMMA RepliesFreeStep ==
    ASSUME TypeOK, IndexInv, PortInv, RepliesFree, [Next]_vars
    PROVE  RepliesFree'
<1> SUFFICES ASSUME NEW s \in Servers
             PROVE  /\ s \in replies' => \A c \in Clients : cliSrv'[c] # s
                    /\ s \in replies' \/ (\E c \in Clients : cliSrv'[c] = s)
                          => srvPort'[s] # NoPort
                    /\ srvPc'[s] \in {"none", "setup", "touch"} =>
                          s \notin replies' /\ \A c \in Clients : cliSrv'[c] # s
  BY DEF RepliesFree
<1>1. ASSUME NEW c \in Clients, cliSrv'[c] = s
      PROVE  cliSrv[c] = s \/ (s \in replies /\ s \notin replies')
  BY <1>1, CliSrvStep DEF TypeOK, CliType, NetType
<1>2. CASE SrvTouch(s)
  <2>1. srvPort[s] # NoPort /\ srvPort'[s] = srvPort[s]
    BY <1>2 DEF SrvTouch, PortInv, BoundInv
  <2> QED BY <1>2, <1>1, <2>1 DEF SrvTouch, RepliesFree, TypeOK, SrvType
<1>3. CASE ~SrvTouch(s)
  <2>1. s \in replies' => s \in replies
    BY <1>3, RepliesStep DEF SrvTouch
  <2>2. srvPc'[s] \in {"none", "setup", "touch"} => srvPc[s] \in {"none", "setup", "touch"}
    BY <1>3, SrvStep DEF SrvSetup, SrvPeer, SrvStart, MayStart, SrvNextBatch, SrvStop,
                         SrvFail, TypeOK, SrvType
  <2>3. s \in replies' \/ (\E c \in Clients : cliSrv'[c] = s) => srvPort'[s] # NoPort
    BY <1>1, <2>1, SrvPortKept DEF RepliesFree
  <2> QED BY <1>1, <2>1, <2>2, <2>3 DEF RepliesFree
<1> QED BY <1>2, <1>3

\* An inform more is sent by a thread that informs, or is the first packet
\* of a kernel.
LEMMA InformsFrame ==
    ASSUME [Next]_vars
    PROVE  \/ informs' \subseteq informs
           \/ \E c \in Clients :
                 /\ cliPc[c] \in {"inform", "calc", "batch"}
                 /\ informs' = informs \cup {<<c, srvPort[cliSrv[c]]>>}
<1>1. ASSUME NEW c \in Clients, CliInform(c) \/ \E k \in Arrivals : CliKernel(c, k)
      PROVE  \/ informs' \subseteq informs
             \/ /\ cliPc[c] \in {"inform", "calc", "batch"}
                /\ informs' = informs \cup {<<c, srvPort[cliSrv[c]]>>}
  BY <1>1 DEF CliInform, Informed, CliKernel
<1> QED
  BY <1>1, NetFrame
  DEF netVars, ClientTouch, ServerListen, ClientReply, SrvSetup, SrvTouch, SrvStart,
      SrvKernel, SrvStop, SrvFail, SrvPeer, CliSetup, CliReady, LoseTouch,
      LoseReply, LoseInform, LoseReady

LEMMA InformsStep ==
    ASSUME TypeOK, IndexInv, PortInv, RepliesFree, InformsRight, [Next]_vars
    PROVE  InformsRight'
<1> SUFFICES ASSUME NEW c \in Clients, NEW p \in SrvPorts, <<c, p>> \in informs'
             PROVE  /\ cliSrv'[c] # Nobody /\ srvPort'[cliSrv'[c]] = p
                    /\ cliPort'[c] # NoPort
  BY DEF InformsRight
<1>1. cliSrv[c] # Nobody /\ srvPort[cliSrv[c]] = p /\ cliPort[c] # NoPort
  <2>1. CASE <<c, p>> \in informs
    BY <2>1 DEF InformsRight
  <2>2. CASE <<c, p>> \notin informs
    <3>1. PICK d \in Clients : /\ cliPc[d] \in {"inform", "calc", "batch"}
                               /\ informs' = informs \cup {<<d, srvPort[cliSrv[d]]>>}
      BY <2>2, InformsFrame
    <3>2. d = c /\ p = srvPort[cliSrv[d]]
      BY <2>2, <3>1
    <3> QED BY <3>1, <3>2 DEF IndexInv, PortInv, BoundInv
  <2> QED BY <2>1, <2>2
<1> QED BY <1>1, GivenKept, CliPortKept

LEMMA PeerKnownStep ==
    ASSUME TypeOK, IndexInv, PortInv, InformsRight, PeerKnown, [Next]_vars
    PROVE  PeerKnown'
<1> SUFFICES ASSUME NEW s \in Servers
             PROVE  /\ srvPc'[s] \in {"wait", "calc", "batch"} => srvPeer'[s] # Nobody
                    /\ srvPeer'[s] # Nobody =>
                          srvPort'[s] # NoPort /\ cliPort'[srvPeer'[s]] # NoPort
  BY DEF PeerKnown
<1>1. ASSUME NEW c \in Clients, SrvPeer(s, c)
      PROVE  /\ srvPeer'[s] = c /\ srvPort'[s] # NoPort /\ cliPort'[c] # NoPort
  <2>1. srvPeer'[s] = c /\ srvPc[s] = "peer" /\ <<c, srvPort[s]>> \in informs
    BY <1>1 DEF SrvPeer, TypeOK, SrvType
  <2>2. srvPort[s] \in SrvPorts
    BY <2>1 DEF TypeOK, SrvType, PortInv, BoundInv
  <2>3. cliPort[c] # NoPort
    BY <2>1, <2>2 DEF InformsRight
  <2> QED BY <2>1, <2>2, <2>3, SrvPortKept, CliPortKept
<1>2. CASE \A c \in Clients : ~SrvPeer(s, c)
  <2>1. srvPeer'[s] = srvPeer[s]
    BY <1>2, SrvStep DEF SrvSetup, SrvTouch, SrvStart, SrvNextBatch, SrvStop, SrvFail
  <2>2. srvPc'[s] \in {"wait", "calc", "batch"} => srvPc[s] \in {"wait", "calc", "batch"}
    BY <1>2, SrvStep DEF SrvSetup, SrvTouch, SrvStart, MayStart, SrvNextBatch, SrvStop,
                         SrvFail, TypeOK, SrvType
  <2>3. srvPeer[s] # Nobody => /\ srvPort'[s] # NoPort
                              /\ cliPort'[srvPeer[s]] # NoPort
    BY SrvPortKept, CliPortKept DEF PeerKnown, TypeOK, SrvType
  <2> QED BY <2>1, <2>2, <2>3 DEF PeerKnown
<1> QED BY <1>1, <1>2

\* The report of a booting server thread is touched only by the release.
LEMMA SrvConnStep ==
    ASSUME TypeOK, [Next]_vars, NEW s \in Servers
    PROVE  \/ srvConn'[s] = srvConn[s]
           \/ ServerRelease /\ s = srvThrid /\ srvConn'[s] = READY
           \/ SrvKernel(s) \/ SrvStop(s) \/ SrvFail(s)
<1> USE DEF TypeOK, SrvType
<1>1. CASE ServerRelease
  BY <1>1 DEF ServerRelease
<1>2. ASSUME NEW t \in Servers, t # s, ServerThread(t) \/ SrvFail(t)
      PROVE  srvConn'[s] = srvConn[s]
  BY <1>2 DEF ServerThread, SrvSetup, SrvTouch, SrvPeer, SrvStart,
              SrvKernel, SrvNextBatch, SrvStop, SrvFail
<1>3. CASE SrvSetup(s) \/ SrvTouch(s) \/ (\E c \in Clients : SrvPeer(s, c))
             \/ SrvStart(s) \/ SrvNextBatch(s) \/ ServerListen
  BY <1>3 DEF SrvSetup, SrvTouch, SrvPeer, SrvStart, SrvNextBatch, ServerListen
<1> QED BY <1>1, <1>2, <1>3, SrvFrame DEF ServerThread, srvVars

LEMMA ReleasedStep ==
    ASSUME TypeOK, IndexInv, ReleasedLate, [Next]_vars
    PROVE  ReleasedLate'
<1> SUFFICES ASSUME NEW s \in Servers, srvPc'[s] \in Booting, srvConn'[s] # WAIT
             PROVE  AllUp'
  BY DEF ReleasedLate
<1>1. srvPc[s] \in Booting
  BY SrvStep DEF Booting, TypeOK, SrvType, SrvSetup, SrvTouch, SrvPeer, SrvStart, MayStart,
                 SrvNextBatch, SrvStop, SrvFail
<1>2. CASE srvConn'[s] = srvConn[s]
  BY <1>1, <1>2, AllUpStep DEF ReleasedLate
<1>3. CASE ServerRelease
  BY <1>3, AllUpStep DEF ServerRelease, IndexInv, AllUp
<1>4. ~SrvKernel(s) /\ ~SrvStop(s) /\ ~SrvFail(s)
  BY <1>1 DEF SrvKernel, SrvStop, SrvFail, Booting, TypeOK, SrvType
<1> QED BY <1>2, <1>3, <1>4, SrvConnStep

\* A server thread that has begun, and has a peer, goes on so.
LEMMA BegunStep ==
    ASSUME TypeOK, IndexInv, PortInv, PeerKnown, [Next]_vars,
           NEW s \in Servers, srvPc[s] \in Begun, srvPeer[s] # Nobody
    PROVE  /\ srvPc'[s] \in Begun /\ srvPeer'[s] = srvPeer[s]
           /\ srvPort'[s] = srvPort[s] /\ cliPort'[srvPeer[s]] = cliPort[srvPeer[s]]
<1>1. srvPc'[s] \in Begun /\ srvPeer'[s] = srvPeer[s]
  BY SrvStep DEF Begun, TypeOK, SrvType, SrvSetup, SrvTouch, SrvPeer, SrvStart, MayStart,
                 SrvNextBatch, SrvStop, SrvFail
<1> QED BY <1>1, SrvPortKept, CliPortKept DEF PeerKnown, TypeOK, SrvType

\* Copies of READY at a port become more only when a server thread starts.
LEMMA ReadysStep ==
    ASSUME TypeOK, IndexInv, PortInv, [Next]_vars, NEW p \in CliPorts, readys'[p] > 0
    PROVE  \/ readys[p] > 0
           \/ \E s \in Servers : SrvStart(s) /\ cliPort[srvPeer[s]] = p
<1>1. readys \in [CliPorts -> Nat]
  BY DEF TypeOK, NetType
<1>2. ASSUME NEW s \in Servers, SrvStart(s), readys[p] = 0
      PROVE  cliPort[srvPeer[s]] = p
  <2>1. readys' = [readys EXCEPT ![cliPort[srvPeer[s]]] = @ + ReadyCopies]
    BY <1>2 DEF SrvStart
  <2> QED BY <1>1, <1>2, <2>1
<1>3. ASSUME NEW c \in Clients, CliSetup(c) PROVE readys[p] > 0
  <2>1. PICK q \in CliPorts : \E k \in 0..readys[q] : readys' = [readys EXCEPT ![q] = k]
    BY <1>3 DEF CliSetup
  <2> QED BY <1>1, <2>1
<1>4. ASSUME NEW q \in CliPorts, readys[q] > 0, readys' = [readys EXCEPT ![q] = @ - 1]
      PROVE  readys[p] > 0
  BY <1>1, <1>4
<1>5. ASSUME NEW c \in Clients, CliReady(c) PROVE readys[p] > 0
  <2>1. cliPort[c] \in CliPorts
    BY <1>5 DEF CliReady, PortInv, BoundInv, TypeOK, CliType
  <2> QED BY <1>4, <1>5, <2>1 DEF CliReady
<1>6. ASSUME NEW q \in CliPorts, LoseReady(q) PROVE readys[p] > 0
  BY <1>4, <1>6 DEF LoseReady
<1>7. CASE readys' = readys
  BY <1>7
<1>8. \/ readys' = readys \/ \E s \in Servers : SrvStart(s)
      \/ \E c \in Clients : CliSetup(c) \/ CliReady(c)
      \/ \E q \in CliPorts : LoseReady(q)
  BY NetFrame
  DEF netVars, ClientTouch, ServerListen, ClientReply, SrvSetup, SrvTouch,
      SrvKernel, SrvStop, SrvFail, SrvPeer, CliInform, CliKernel, LoseTouch,
      LoseReply, LoseInform
<1>9. readys[p] = 0 \/ readys[p] > 0
  BY <1>1
<1> QED BY <1>2, <1>3, <1>5, <1>6, <1>7, <1>8, <1>9

LEMMA ReadyStep ==
    ASSUME TypeOK, IndexInv, PortInv, PeerKnown, ReleasedLate, ReadyFromBegun, [Next]_vars
    PROVE  ReadyFromBegun'
<1> SUFFICES ASSUME NEW p \in CliPorts, readys'[p] > 0
             PROVE  /\ \E s \in Servers : /\ srvPeer'[s] # Nobody
                                          /\ cliPort'[srvPeer'[s]] = p
                                          /\ srvPc'[s] \in Begun
                    /\ AllUp'
  BY DEF ReadyFromBegun
<1>1. CASE readys[p] > 0
  <2>1. PICK s \in Servers : /\ srvPeer[s] # Nobody /\ cliPort[srvPeer[s]] = p
                             /\ srvPc[s] \in Begun
    BY <1>1 DEF ReadyFromBegun
  <2>2. AllUp
    BY <1>1 DEF ReadyFromBegun
  <2> QED BY <2>1, <2>2, BegunStep, AllUpStep
<1>2. ASSUME NEW s \in Servers, SrvStart(s), cliPort[srvPeer[s]] = p
      PROVE  /\ srvPeer'[s] # Nobody /\ cliPort'[srvPeer'[s]] = p
             /\ srvPc'[s] \in Begun /\ AllUp'
  <2>1. /\ srvPc[s] = "wait" /\ srvConn[s] = READY /\ srvPc'[s] = "calc"
        /\ UNCHANGED <<srvPeer, cliPort>>
    BY <1>2 DEF SrvStart, MayStart, cliVars, TypeOK, SrvType
  <2>2. AllUp
    BY <2>1 DEF ReleasedLate, Booting, READY, WAIT
  <2>3. srvPeer[s] # Nobody
    BY <2>1 DEF PeerKnown
  <2> QED BY <1>2, <2>1, <2>2, <2>3, AllUpStep DEF Begun
<1> QED BY <1>1, <1>2, ReadysStep

\* A client thread starts on a READY that was sent to its port.
LEMMA StartedStep ==
    ASSUME TypeOK, IndexInv, [Next]_vars, NEW c \in Clients,
           cliPc'[c] \in {"calc", "batch"}, cliPc[c] \notin {"calc", "batch"}
    PROVE  CliReady(c)
BY CliStep DEF CliSetup, CliInform, CliNextBatch, CliStop, CliFail, CliGiveUp, TypeOK, CliType

LEMMA BarrierStep ==
    ASSUME TypeOK, IndexInv, PortInv, ReadyFromBegun, StartBarrier, [Next]_vars
    PROVE  StartBarrier'
<1> SUFFICES ASSUME NEW c \in Clients, cliPc'[c] \in {"calc", "batch"} PROVE AllUp'
  BY DEF StartBarrier, AllUp
<1>1. AllUp
  <2>1. CASE cliPc[c] \in {"calc", "batch"}
    BY <2>1 DEF StartBarrier, AllUp
  <2>2. CASE cliPc[c] \notin {"calc", "batch"}
    <3>1. cliPc[c] = "wait" /\ readys[cliPort[c]] > 0
      BY <2>2, StartedStep DEF CliReady
    <3>2. cliPort[c] \in CliPorts
      BY <3>1 DEF PortInv, BoundInv, TypeOK, CliType
    <3> QED BY <3>1, <3>2 DEF ReadyFromBegun
  <2> QED BY <2>1, <2>2
<1> QED BY <1>1, AllUpStep

\* READY at the port of c comes from a server thread whose peer is c, or a
\* client thread that had the port and has left.
LEMMA ReadyIsServed ==
    ASSUME TypeOK, IndexInv, PortInv, PeerAgreement, ReadyFromBegun,
           NEW c \in Clients, CliReady(c)
    PROVE  HasReceiver(c) \/ SecondInPort(c)
<1>1. cliPc[c] = "wait" /\ readys[cliPort[c]] > 0
  BY DEF CliReady
<1>2. cliPort[c] \in CliPorts
  BY <1>1 DEF PortInv, BoundInv, TypeOK, CliType
<1>3. PICK s \in Servers : /\ srvPeer[s] # Nobody /\ cliPort[srvPeer[s]] = cliPort[c]
                           /\ srvPc[s] \in Begun
  BY <1>1, <1>2 DEF ReadyFromBegun
<1>4. CASE srvPeer[s] = c
  <2>1. srvPort[cliSrv[c]] = srvPort[s]
    BY <1>3, <1>4 DEF PeerAgreement, LeftThePort
  <2> QED BY <1>3, <1>4, <2>1 DEF HasReceiver
<1>5. CASE srvPeer[s] # c
  <2>1. srvPeer[s] \in Clients \ {c} /\ DOMAIN cliPort = Clients
    BY <1>3, <1>5 DEF TypeOK, SrvType, CliType
  <2>2. cliPc[srvPeer[s]] = "exit"
    BY <1>1, <1>2, <1>3, <2>1 DEF PortInv, HeldOnce
  <2> QED BY <1>3, <2>1, <2>2 DEF SecondInPort
<1> QED BY <1>4, <1>5

LEMMA SendsStep ==
    ASSUME TypeOK, IndexInv, PortInv, RepliesFree, PeerAgreement, PeerKnown,
           ReadyFromBegun, SendsToReceiver, [Next]_vars
    PROVE  SendsToReceiver'
<1> SUFFICES ASSUME NEW c \in Clients, cliPc'[c] \in {"calc", "batch"}
             PROVE  HasReceiver(c)' \/ SecondInPort(c)'
  BY DEF SendsToReceiver
<1>1. /\ HasReceiver(c) \/ SecondInPort(c)
      /\ cliPc[c] \in {"wait", "calc", "batch"}
  <2>1. CASE cliPc[c] \in {"calc", "batch"}
    BY <2>1 DEF SendsToReceiver
  <2>2. CASE cliPc[c] \notin {"calc", "batch"}
    BY <2>2, StartedStep, ReadyIsServed DEF CliReady
  <2> QED BY <2>1, <2>2
<1>2. CASE HasReceiver(c)
  <2>1. PICK s \in Servers : /\ srvPort[s] = srvPort[cliSrv[c]]
                             /\ srvPeer[s] = c /\ srvPc[s] \in Begun
    BY <1>2 DEF HasReceiver
  <2>2. cliSrv'[c] = cliSrv[c] /\ srvPort'[cliSrv[c]] = srvPort[cliSrv[c]]
    BY <1>1, GivenKept DEF IndexInv
  <2>3. srvPort'[s] = srvPort[s] /\ srvPeer'[s] = c /\ srvPc'[s] \in Begun
    BY <2>1, BegunStep
  <2> QED BY <2>1, <2>2, <2>3 DEF HasReceiver
<1>3. CASE SecondInPort(c)
  <2>1. PICK d \in Clients \ {c} : cliPort[d] = cliPort[c] /\ cliPc[d] = "exit"
    BY <1>3 DEF SecondInPort
  <2>2. cliPort[c] # NoPort
    BY <1>1 DEF PortInv, BoundInv
  <2>3. cliPort'[d] = cliPort'[c] /\ cliPc'[d] = "exit"
    BY <2>1, <2>2, CliPortKept
  <2> QED BY <2>3 DEF SecondInPort
<1> QED BY <1>1, <1>2, <1>3

LEMMA HandshakeStep ==
    ASSUME TypeOK, HandshakeInv, [Next]_vars
    PROVE  HandshakeInv'
<1> USE DEF HandshakeInv
<1>1. IndexInv' /\ PortInv'
  BY IndexStep, BoundStep, HeldStep DEF PortInv
<1>2. RepliesFree' /\ InformsRight' /\ PairingInjective'
  BY RepliesFreeStep, InformsStep, PairingStep
<1>3. PeerAgreement' /\ PeerKnown' /\ ReleasedLate' /\ ReadyFromBegun'
  BY PeerStep, PeerKnownStep, ReleasedStep, ReadyStep
<1>4. StartBarrier' /\ SendsToReceiver'
  BY BarrierStep, SendsStep
<1> QED BY <1>1, <1>2, <1>3, <1>4

LEMMA HandshakeInit == Init => TypeOK /\ HandshakeInv
<1> SUFFICES ASSUME Init PROVE TypeOK /\ HandshakeInv
  OBVIOUS
<1>1. TypeOK /\ IndexInv
  BY TypeInit
<1>2. PortInv /\ RepliesFree /\ InformsRight
  BY DEF Init, PortInv, BoundInv, HeldOnce, RepliesFree, InformsRight
<1>3. PairingInjective /\ PeerAgreement /\ PeerKnown
  BY DEF Init, PairingInjective, PeerAgreement, PeerKnown
<1>4. ReleasedLate /\ ReadyFromBegun /\ StartBarrier /\ SendsToReceiver
  BY DEF Init, ReleasedLate, ReadyFromBegun, StartBarrier, SendsToReceiver
<1> QED BY <1>1, <1>2, <1>3, <1>4 DEF HandshakeInv

\* The invariant of the handshake, whatever is lost, repeated or fails.
THEOREM HandshakeCorrect == Spec => [](TypeOK /\ HandshakeInv)
<1>1. (TypeOK /\ HandshakeInv) /\ [Next]_vars => (TypeOK /\ HandshakeInv)'
  BY HandshakeStep, TypeStep DEF HandshakeInv
<1> QED BY <1>1, HandshakeInit, PTL DEF Spec

\* Every variable keeps to its type and threads start in order, for every
\* choice of the constants.
THEOREM TypeCorrect == Spec => [](TypeOK /\ IndexInv)
<1>1. HandshakeInv => IndexInv
  BY DEF HandshakeInv
<1> QED BY <1>1, HandshakeCorrect, PTL

\* No server thread is given to two client threads.
THEOREM PairingSafe == Spec => []PairingInjective
<1>1. HandshakeInv => PairingInjective
  BY DEF HandshakeInv
<1> QED BY <1>1, HandshakeCorrect, PTL

\* A server thread's peer is the client thread it was given to, or one given
\* to a thread that has left the same port.
THEOREM PeersAgree == Spec => []PeerAgreement
<1>1. HandshakeInv => PeerAgreement
  BY DEF HandshakeInv
<1> QED BY <1>1, HandshakeCorrect, PTL

\* No load flows before every server thread exists.
THEOREM BarrierHolds == Spec => []StartBarrier
<1>1. HandshakeInv => StartBarrier
  BY DEF HandshakeInv
<1> QED BY <1>1, HandshakeCorrect, PTL

\* Load goes only to a port whose thread had taken the sender for its peer
\* and begun to receive, unless the sender's own port is second hand.
THEOREM LoadIsReceived == Spec => []SendsToReceiver
<1>1. HandshakeInv => SendsToReceiver
  BY DEF HandshakeInv
<1> QED BY <1>1, HandshakeCorrect, PTL

-----------------------------------------------------------------------------
(* What a thread reports                                                   *)

\* A kernel more of a calibration is its packets more, and the whole of it
\* is beyond every status code.
LEMMA CalibrationCount ==
    ASSUME NEW p \in Nat, NEW r \in Nat, NEW l \in Nat, l <= r
    PROVE  /\ p * (r - l) \in Nat /\ p * (r - l) <= p * r
           /\ l > 0 => p * (r - (l - 1)) = p * (r - l) + p
<1> DEFINE k == r - l
<1>1. k \in Nat /\ r = k + l /\ r - (l - 1) = k + 1
  OBVIOUS
<1>2. p * k \in Nat /\ p * l \in Nat
  BY <1>1
<1>3. p * r = p * k + p * l /\ p * (k + 1) = p * k + p
  BY <1>1
<1> HIDE DEF k
<1>4. p * k <= p * r
  BY <1>2, <1>3
<1> QED BY <1>1, <1>2, <1>3, <1>4 DEF k

\* A client thread's report changes by its own steps.
LEMMA CliConnStep ==
    ASSUME TypeOK, IndexInv, [Next]_vars, NEW c \in Clients
    PROVE  \/ cliPc'[c] = cliPc[c] /\ cliConn'[c] = cliConn[c] /\ cliLeft'[c] = cliLeft[c]
           \/ cliPc[c] = "none" /\ cliPc'[c] = "setup" /\ cliConn'[c] = cliConn[c]
           \/ ClientThread(c) \/ CliFail(c) \/ CliGiveUp(c)
<1> USE DEF TypeOK, CliType
<1>1. ASSUME NEW s \in Servers, ClientReply(s)
      PROVE  \/ cliPc'[c] = cliPc[c] /\ cliConn'[c] = cliConn[c] /\ cliLeft'[c] = cliLeft[c]
             \/ cliPc[c] = "none" /\ cliPc'[c] = "setup" /\ cliConn'[c] = cliConn[c]
  <2>1. cliThrid \in Clients /\ cliPc[cliThrid] = "none"
    BY <1>1, CountsAssumption DEF ClientReply, IndexInv, MainType
  <2> QED BY <1>1, <2>1 DEF ClientReply
<1>2. ASSUME NEW d \in Clients, d # c, ClientThread(d) \/ CliFail(d) \/ CliGiveUp(d)
      PROVE  cliPc'[c] = cliPc[c] /\ cliConn'[c] = cliConn[c] /\ cliLeft'[c] = cliLeft[c]
  BY <1>2 DEF ClientThread, CliSetup, CliInform, CliReady, CliKernel,
              CliNextBatch, CliStop, CliFail, CliGiveUp
<1> QED BY <1>1, <1>2, CliFrame DEF cliVars

\* A send kernel more is its packets more, and never more than all of them.
LEMMA CliCalibratedStep ==
    ASSUME NEW c \in Clients, cliLeft[c] \in Nat, cliLeft[c] <= SendCalcRounds
    PROVE  /\ CliCalibrated(c) \in Nat
           /\ cliLeft[c] = SendCalcRounds => CliCalibrated(c) = 0
           /\ cliLeft[c] = 0 => CliCalibrated(c) > 109
           /\ cliLeft[c] > 0 /\ cliLeft'[c] = cliLeft[c] - 1 =>
                 /\ CliCalibrated(c)' = CliCalibrated(c) + SendPack
                 /\ CliCalibrated(c)' <= CountCap
<1>1. SendPack \in Nat /\ SendCalcRounds \in Nat /\ SendPack * SendCalcRounds \in Nat
  BY PackAssumption
<1>2. CliCalibrated(c) \in Nat
  BY <1>1, CalibrationCount, Zenon DEF CliCalibrated
<1>3. cliLeft[c] = SendCalcRounds => CliCalibrated(c) = 0
  BY <1>1 DEF CliCalibrated
<1>4. cliLeft[c] = 0 => CliCalibrated(c) > 109
  BY <1>1, CalibrationAssumption DEF CliCalibrated
<1>5. ASSUME cliLeft[c] > 0, cliLeft'[c] = cliLeft[c] - 1
      PROVE  /\ CliCalibrated(c)' = CliCalibrated(c) + SendPack
             /\ CliCalibrated(c)' <= CountCap
  <2>1. cliLeft'[c] \in Nat /\ cliLeft'[c] <= SendCalcRounds
    BY <1>1, <1>5
  <2>2. CliCalibrated(c)' = CliCalibrated(c) + SendPack
    <3>1. SendPack * (SendCalcRounds - (cliLeft[c] - 1)) = CliCalibrated(c) + SendPack
      BY <1>1, <1>5, CalibrationCount, Zenon DEF CliCalibrated
    <3> QED BY <1>5, <3>1, Zenon DEF CliCalibrated
  <2>3. CliCalibrated(c)' \in Nat /\ CliCalibrated(c)' <= SendPack * SendCalcRounds
    BY <1>1, <2>1, CalibrationCount, Zenon DEF CliCalibrated
  <2> QED BY <1>1, <2>2, <2>3, CalibrationAssumption, BoundAssumption
<1> QED BY <1>2, <1>3, <1>4, <1>5

\* A send kernel adds its packets: while calibrating the cap is far away.
LEMMA CliKernelReport ==
    ASSUME TypeOK, NEW c \in Clients, CliReport(c), NEW k \in Arrivals, CliKernel(c, k)
    PROVE  /\ CliReport(c)'
           /\ cliConn[c] >= READY /\ cliConn'[c] >= cliConn[c]
<1> USE DEF TypeOK, CliType
<1>1. /\ cliPc'[c] = cliPc[c] /\ cliPc[c] \in {"calc", "batch"}
      /\ cliLeft[c] \in Nat \ {0} /\ cliLeft'[c] = cliLeft[c] - 1
      /\ cliConn'[c] = Bump(cliConn[c], SendPack)
  BY DEF CliKernel
<1>2. CASE cliPc[c] = "calc"
  <2>1. cliLeft[c] <= SendCalcRounds /\ cliConn[c] = READY + CliCalibrated(c)
    BY <1>2 DEF CliReport
  <2>2. /\ CliCalibrated(c) \in Nat /\ CliCalibrated(c)' = CliCalibrated(c) + SendPack
        /\ CliCalibrated(c)' <= CountCap
    BY <1>1, <2>1, CliCalibratedStep
  <2>3. cliConn'[c] = READY + CliCalibrated(c)'
    BY <1>1, <2>1, <2>2, BoundAssumption, PackAssumption DEF Bump, READY
  <2> QED BY <1>1, <1>2, <2>1, <2>2, <2>3, PackAssumption DEF CliReport, READY
<1>3. CASE cliPc[c] = "batch"
  BY <1>1, <1>3, PackAssumption DEF CliReport, Bump, STATE_BEGIN, READY
<1> QED BY <1>1, <1>2, <1>3

\* A report only grows, and a thread that stops negates a packet count.
LEMMA CliReportStep ==
    ASSUME TypeOK, IndexInv, NEW c \in Clients, CliReport(c), [Next]_vars
    PROVE  CliReport(c)' /\ Reported(cliConn[c]) <= Reported(cliConn'[c])
<1> USE DEF TypeOK, CliType
<1>1. CASE \/ cliPc'[c] = cliPc[c] /\ cliConn'[c] = cliConn[c] /\ cliLeft'[c] = cliLeft[c]
           \/ cliPc[c] = "none" /\ cliPc'[c] = "setup" /\ cliConn'[c] = cliConn[c]
  <2>1. cliLeft'[c] = cliLeft[c] => CliCalibrated(c)' = CliCalibrated(c)
    BY Zenon DEF CliCalibrated
  <2>2. CliReport(c)'
    BY <1>1, <2>1 DEF CliReport
  <2>3. cliConn'[c] = cliConn[c] /\ cliConn[c] \in Int
    BY <1>1
  <2> QED BY <2>2, <2>3 DEF Reported, Over
<1>2. CASE CliSetup(c) \/ CliInform(c)
  <2>1. /\ cliConn'[c] = cliConn[c] /\ cliConn[c] \in Int /\ cliConn[c] = WAIT
        /\ cliPc'[c] \in {"inform", "wait"}
    BY <1>2 DEF CliSetup, CliInform, CliReport
  <2>2. CliReport(c)'
    BY <2>1 DEF CliReport
  <2> QED BY <2>1, <2>2 DEF Reported, Over
<1>3. CASE CliReady(c)
  <2>1. /\ cliPc[c] = "wait" /\ cliPc'[c] = "calc" /\ cliConn'[c] = READY
        /\ cliLeft'[c] = SendCalcRounds
    BY <1>3 DEF CliReady
  <2>2. CliCalibrated(c)' = 0
    BY <2>1, PackAssumption DEF CliCalibrated
  <2> QED BY <2>1, <2>2, PackAssumption
          DEF CliReport, Reported, Over, WAIT, READY, STATE_BEGIN
<1>4. ASSUME NEW k \in Arrivals, CliKernel(c, k)
      PROVE  CliReport(c)' /\ Reported(cliConn[c]) <= Reported(cliConn'[c])
  <2>1. cliConn'[c] \in Int
    BY <1>4, PackAssumption DEF CliKernel, Bump
  <2> QED BY <1>4, <2>1, CliKernelReport DEF Reported, Over, READY, STATE_BEGIN
<1>5. CASE CliNextBatch(c)
  <2>1. cliPc[c] = "calc" => CliCalibrated(c) > 109 /\ CliCalibrated(c) \in Nat
    BY <1>5, CliCalibratedStep DEF CliNextBatch, CliReport
  <2>2. /\ cliPc[c] \in {"calc", "batch"} /\ cliLeft[c] = 0
        /\ cliPc'[c] = "batch" /\ cliConn'[c] = cliConn[c]
    BY <1>5 DEF CliNextBatch
  <2>3. cliConn[c] > -STATE_BEGIN
    BY <2>1, <2>2 DEF CliReport, READY, STATE_BEGIN
  <2> QED BY <2>2, <2>3 DEF CliReport, Reported, Over
<1>6. CASE CliStop(c)
  BY <1>6 DEF CliStop, Final, CliReport, Reported, Over, STATE_BEGIN
<1>7. CASE CliFail(c) \/ CliGiveUp(c)
  <2>1. cliPc'[c] = "exit" /\ cliConn'[c] = ERROR /\ cliConn[c] = WAIT
    BY <1>7 DEF CliFail, CliGiveUp, CliReport
  <2> QED BY <2>1 DEF CliReport, Reported, Over, WAIT, ERROR, STATE_BEGIN
<1> QED BY <1>1, <1>2, <1>3, <1>4, <1>5, <1>6, <1>7, CliConnStep DEF ClientThread

\* A receive kernel more is its packets more, and never more than all of them.
LEMMA SrvCalibratedStep ==
    ASSUME NEW s \in Servers, srvLeft[s] \in Nat, srvLeft[s] <= RecvCalcRounds
    PROVE  /\ SrvCalibrated(s) \in Nat
           /\ srvLeft[s] = RecvCalcRounds => SrvCalibrated(s) = 0
           /\ srvLeft[s] = 0 => SrvCalibrated(s) > 109
           /\ srvLeft[s] > 0 /\ srvLeft'[s] = srvLeft[s] - 1 =>
                 /\ SrvCalibrated(s)' = SrvCalibrated(s) + RecvPack
                 /\ SrvCalibrated(s)' <= CountCap
<1>1. RecvPack \in Nat /\ RecvCalcRounds \in Nat /\ RecvPack * RecvCalcRounds \in Nat
  BY PackAssumption
<1>2. SrvCalibrated(s) \in Nat
  BY <1>1, CalibrationCount, Zenon DEF SrvCalibrated
<1>3. srvLeft[s] = RecvCalcRounds => SrvCalibrated(s) = 0
  BY <1>1 DEF SrvCalibrated
<1>4. srvLeft[s] = 0 => SrvCalibrated(s) > 109
  BY <1>1, CalibrationAssumption DEF SrvCalibrated
<1>5. ASSUME srvLeft[s] > 0, srvLeft'[s] = srvLeft[s] - 1
      PROVE  /\ SrvCalibrated(s)' = SrvCalibrated(s) + RecvPack
             /\ SrvCalibrated(s)' <= CountCap
  <2>1. srvLeft'[s] \in Nat /\ srvLeft'[s] <= RecvCalcRounds
    BY <1>1, <1>5
  <2>2. SrvCalibrated(s)' = SrvCalibrated(s) + RecvPack
    <3>1. RecvPack * (RecvCalcRounds - (srvLeft[s] - 1)) = SrvCalibrated(s) + RecvPack
      BY <1>1, <1>5, CalibrationCount, Zenon DEF SrvCalibrated
    <3> QED BY <1>5, <3>1, Zenon DEF SrvCalibrated
  <2>3. SrvCalibrated(s)' \in Nat /\ SrvCalibrated(s)' <= RecvPack * RecvCalcRounds
    BY <1>1, <2>1, CalibrationCount, Zenon DEF SrvCalibrated
  <2> QED BY <1>1, <2>2, <2>3, CalibrationAssumption, BoundAssumption
<1> QED BY <1>2, <1>3, <1>4, <1>5

LEMMA SrvKernelReport ==
    ASSUME TypeOK, NEW s \in Servers, SrvReport(s), SrvKernel(s)
    PROVE  /\ SrvReport(s)'
           /\ srvConn[s] >= READY /\ srvConn'[s] >= srvConn[s]
<1> USE DEF TypeOK, SrvType
<1>1. /\ srvPc'[s] = srvPc[s] /\ srvPc[s] \in {"calc", "batch"}
      /\ srvLeft[s] \in Nat \ {0} /\ srvLeft'[s] = srvLeft[s] - 1
      /\ srvConn'[s] = Bump(srvConn[s], RecvPack)
  BY DEF SrvKernel
<1>2. CASE srvPc[s] = "calc"
  <2>1. srvLeft[s] <= RecvCalcRounds /\ srvConn[s] = READY + SrvCalibrated(s)
    BY <1>2 DEF SrvReport
  <2>2. /\ SrvCalibrated(s) \in Nat /\ SrvCalibrated(s)' = SrvCalibrated(s) + RecvPack
        /\ SrvCalibrated(s)' <= CountCap
    BY <1>1, <2>1, SrvCalibratedStep
  <2>3. srvConn'[s] = READY + SrvCalibrated(s)'
    BY <1>1, <2>1, <2>2, BoundAssumption, PackAssumption DEF Bump, READY
  <2> QED BY <1>1, <1>2, <2>1, <2>2, <2>3, PackAssumption DEF SrvReport, Booting, READY
<1>3. CASE srvPc[s] = "batch"
  BY <1>1, <1>3, PackAssumption DEF SrvReport, Bump, Booting, STATE_BEGIN, READY
<1> QED BY <1>1, <1>2, <1>3

\* A server thread's report changes by its own steps and by its release.
LEMMA SrvChange ==
    ASSUME TypeOK, IndexInv, [Next]_vars, NEW s \in Servers
    PROVE  \/ srvPc'[s] = srvPc[s] /\ srvConn'[s] = srvConn[s] /\ srvLeft'[s] = srvLeft[s]
           \/ srvPc[s] = "none" /\ srvPc'[s] = "setup" /\ srvConn'[s] = srvConn[s]
           \/ /\ ServerRelease /\ s = srvThrid
              /\ srvPc'[s] = srvPc[s] /\ srvConn'[s] = READY
           \/ ServerThread(s) \/ SrvFail(s)
<1> USE DEF TypeOK, SrvType
<1>1. CASE ServerListen
  <2>1. srvThrid \in Servers /\ srvPc[srvThrid] = "none"
    BY <1>1, CountsAssumption DEF ServerListen, IndexInv, MainType
  <2> QED BY <1>1, <2>1 DEF ServerListen
<1>2. CASE ServerRelease
  BY <1>2 DEF ServerRelease
<1>3. ASSUME NEW t \in Servers, t # s, ServerThread(t) \/ SrvFail(t)
      PROVE  srvPc'[s] = srvPc[s] /\ srvConn'[s] = srvConn[s] /\ srvLeft'[s] = srvLeft[s]
  BY <1>3 DEF ServerThread, SrvSetup, SrvTouch, SrvPeer, SrvStart,
              SrvKernel, SrvNextBatch, SrvStop, SrvFail
<1> QED BY <1>1, <1>2, <1>3, SrvFrame DEF srvVars

\* The release overwrites a status code, never a packet count.
LEMMA SrvReportStep ==
    ASSUME TypeOK, IndexInv, NEW s \in Servers, SrvReport(s), UnreleasedHasCode(s),
           [Next]_vars
    PROVE  SrvReport(s)' /\ Reported(srvConn[s]) <= Reported(srvConn'[s])
<1> USE DEF TypeOK, SrvType
<1>1. CASE \/ srvPc'[s] = srvPc[s] /\ srvConn'[s] = srvConn[s] /\ srvLeft'[s] = srvLeft[s]
           \/ srvPc[s] = "none" /\ srvPc'[s] = "setup" /\ srvConn'[s] = srvConn[s]
  <2>1. srvLeft'[s] = srvLeft[s] => SrvCalibrated(s)' = SrvCalibrated(s)
    BY Zenon DEF SrvCalibrated
  <2>2. SrvReport(s)'
    BY <1>1, <2>1 DEF SrvReport, Booting
  <2>3. srvConn'[s] = srvConn[s] /\ srvConn[s] \in Int
    BY <1>1
  <2> QED BY <2>2, <2>3 DEF Reported, Over
<1>2. CASE ServerRelease /\ s = srvThrid /\ srvPc'[s] = srvPc[s] /\ srvConn'[s] = READY
  <2>1. \/ srvPc[s] \in Booting /\ srvConn[s] = WAIT
        \/ srvPc[s] = "exit" /\ srvConn[s] = ERROR
    BY <1>2 DEF UnreleasedHasCode, Unreleased, ServerRelease, MainType
  <2> QED BY <1>2, <2>1 DEF SrvReport, Booting, Reported, Over, READY, WAIT, ERROR, STATE_BEGIN
<1>3. CASE SrvSetup(s) \/ SrvTouch(s) \/ \E c \in Clients : SrvPeer(s, c)
  <2>1. /\ srvConn'[s] = srvConn[s] /\ srvConn[s] \in Int
        /\ srvPc[s] \in Booting /\ srvPc'[s] \in Booting
    BY <1>3 DEF SrvSetup, SrvTouch, SrvPeer, Booting
  <2>2. SrvReport(s)'
    BY <2>1 DEF SrvReport, Booting
  <2> QED BY <2>1, <2>2 DEF Reported, Over
<1>4. CASE SrvStart(s)
  <2>1. /\ srvPc'[s] = "calc" /\ srvConn'[s] = READY /\ srvConn[s] = READY
        /\ srvLeft'[s] = RecvCalcRounds
    BY <1>4 DEF SrvStart, MayStart
  <2>2. SrvCalibrated(s)' = 0
    BY <2>1, PackAssumption DEF SrvCalibrated
  <2> QED BY <2>1, <2>2, PackAssumption DEF SrvReport, Booting, Reported, Over, READY, STATE_BEGIN
<1>5. CASE SrvKernel(s)
  <2>1. srvConn'[s] \in Int
    BY <1>5, PackAssumption DEF SrvKernel, Bump
  <2> QED BY <1>5, <2>1, SrvKernelReport DEF Reported, Over, READY, STATE_BEGIN
<1>6. CASE SrvNextBatch(s)
  <2>1. srvPc[s] = "calc" => SrvCalibrated(s) > 109 /\ SrvCalibrated(s) \in Nat
    BY <1>6, SrvCalibratedStep DEF SrvNextBatch, SrvReport
  <2>2. /\ srvPc[s] \in {"calc", "batch"} /\ srvLeft[s] = 0
        /\ srvPc'[s] = "batch" /\ srvConn'[s] = srvConn[s]
    BY <1>6 DEF SrvNextBatch
  <2>3. srvConn[s] > -STATE_BEGIN
    BY <2>1, <2>2 DEF SrvReport, READY, STATE_BEGIN
  <2> QED BY <2>2, <2>3 DEF SrvReport, Booting, Reported, Over
<1>7. CASE SrvStop(s)
  BY <1>7 DEF SrvStop, Final, SrvReport, Booting, Reported, Over, STATE_BEGIN
<1>8. CASE SrvFail(s)
  <2>1. srvPc'[s] = "exit" /\ srvConn'[s] = ERROR /\ srvConn[s] \in {WAIT, READY}
    BY <1>8 DEF SrvFail, SrvReport, Booting
  <2> QED BY <2>1 DEF SrvReport, Booting, Reported, Over, WAIT, READY, ERROR, STATE_BEGIN
<1> QED BY <1>1, <1>2, <1>3, <1>4, <1>5, <1>6, <1>7, <1>8, SrvChange DEF ServerThread

\* A main moves past its monitor loop, and a thread's release, only forward.
LEMMA UnreleasedStep ==
    ASSUME TypeOK, IndexInv, NEW s \in Servers, SrvReport(s), UnreleasedHasCode(s),
           [Next]_vars
    PROVE  UnreleasedHasCode(s)'
<1> USE DEF TypeOK, SrvType
<1> SUFFICES ASSUME Unreleased(s)'
             PROVE  \/ srvPc'[s] \in Booting /\ srvConn'[s] = WAIT
                    \/ srvPc'[s] = "exit" /\ srvConn'[s] = ERROR
  BY DEF UnreleasedHasCode
<1>1. Unreleased(s) /\ ~(ServerRelease /\ s = srvThrid)
  <2>1. CASE ServerMain
    <3>1. CASE ServerListen
      BY <3>1 DEF ServerListen, ServerRelease, Unreleased
    <3>2. CASE ServerRelease
      BY <3>2 DEF ServerRelease, Unreleased, MainType
    <3> QED BY <2>1, <3>1, <3>2
            DEF ServerMain, ServerOpen, ServerMonitor, ServerJoin, ServerRelease, Unreleased
  <2>2. CASE ServerOpenFails
    BY <2>2 DEF ServerOpenFails, Unreleased, ServerRelease
  <2>3. CASE UNCHANGED <<srvMain, srvThrid>>
    BY <2>3, CountsAssumption DEF Unreleased, ServerRelease, MainType, IndexInv
  <2> QED
    BY <2>1, <2>2, <2>3, MainFrame
    DEF ClientMain, ClientOpen, ClientTouch, ClientTimeout, ClientGather, ClientMonitor,
        ClientJoin, ClientOpenFails, ClientReply, mainVars
<1>2. \/ srvPc[s] \in Booting /\ srvConn[s] = WAIT
      \/ srvPc[s] = "exit" /\ srvConn[s] = ERROR
  BY <1>1 DEF UnreleasedHasCode
<1>3. CASE SrvSetup(s) \/ SrvTouch(s) \/ \E c \in Clients : SrvPeer(s, c)
  BY <1>2, <1>3 DEF SrvSetup, SrvTouch, SrvPeer, Booting
<1>4. CASE SrvFail(s)
  BY <1>4 DEF SrvFail
<1>5. ~SrvStart(s) /\ ~SrvKernel(s) /\ ~SrvNextBatch(s) /\ ~SrvStop(s)
  BY <1>2 DEF SrvStart, MayStart, SrvKernel, SrvNextBatch, SrvStop, Booting, WAIT, READY
<1> QED BY <1>1, <1>2, <1>3, <1>4, <1>5, SrvChange DEF ServerThread, Booting

\* Only a thread that has left reports a number below every code.
LEMMA OverHasLeft ==
    ASSUME TypeOK
    PROVE  /\ \A c \in Clients : CliReport(c) /\ Over(cliConn[c]) => cliPc[c] = "exit"
           /\ \A s \in Servers : SrvReport(s) /\ Over(srvConn[s]) => srvPc[s] = "exit"
<1> USE DEF TypeOK, CliType, SrvType, ThreadPcs, Over
<1>1. ASSUME NEW c \in Clients, CliReport(c), Over(cliConn[c]) PROVE cliPc[c] = "exit"
  <2>1. cliPc[c] # "calc"
    <3>1. cliPc[c] = "calc" => CliCalibrated(c) \in Nat
      BY <1>1, CliCalibratedStep DEF CliReport
    <3> QED BY <1>1, <3>1 DEF CliReport, READY, STATE_BEGIN
  <2> QED BY <1>1, <2>1 DEF CliReport, WAIT, STATE_BEGIN
<1>2. ASSUME NEW s \in Servers, SrvReport(s), Over(srvConn[s]) PROVE srvPc[s] = "exit"
  <2>1. srvPc[s] # "calc"
    <3>1. srvPc[s] = "calc" => SrvCalibrated(s) \in Nat
      BY <1>2, SrvCalibratedStep DEF SrvReport
    <3> QED BY <1>2, <3>1 DEF SrvReport, Booting, READY, STATE_BEGIN
  <2> QED BY <1>2, <2>1 DEF SrvReport, Booting, WAIT, READY, STATE_BEGIN
<1> QED BY <1>1, <1>2

\* Over for good: what a thread reported when it left is never overwritten.
LEMMA OverStays ==
    ASSUME TypeOK, IndexInv, CountInv, [Next]_vars
    PROVE  /\ \A c \in Clients : Over(cliConn[c]) => cliConn'[c] = cliConn[c]
           /\ \A s \in Servers : Over(srvConn[s]) => srvConn'[s] = srvConn[s]
<1>1. ASSUME NEW c \in Clients, Over(cliConn[c]) PROVE cliConn'[c] = cliConn[c]
  <2>1. cliPc[c] = "exit"
    BY <1>1, OverHasLeft DEF CountInv
  <2> QED BY <2>1, CliConnStep
          DEF ClientThread, CliSetup, CliInform, CliReady, CliKernel, CliNextBatch,
              CliStop, CliFail, CliGiveUp
<1>2. ASSUME NEW s \in Servers, Over(srvConn[s]) PROVE srvConn'[s] = srvConn[s]
  <2>1. srvPc[s] = "exit"
    BY <1>2, OverHasLeft DEF CountInv
  <2>2. ~(ServerRelease /\ s = srvThrid)
    BY <1>2, <2>1 DEF CountInv, UnreleasedHasCode, Unreleased, ServerRelease, Over, Booting,
                      ERROR, STATE_BEGIN, TypeOK, MainType
  <2> QED BY <2>1, <2>2, SrvChange
          DEF ServerThread, SrvSetup, SrvTouch, SrvPeer, SrvStart, MayStart, SrvKernel,
              SrvNextBatch, SrvStop, SrvFail
<1> QED BY <1>1, <1>2

LEMMA PastMonitorStep ==
    ASSUME TypeOK, IndexInv, CountInv, [Next]_vars
    PROVE  PastMonitor'
<1>1. ASSUME cliMain' \in {"join", "done"} PROVE \A c \in Clients : Over(cliConn'[c])
  <2>1. \A c \in Clients : Over(cliConn[c])
    <3>1. CASE cliMain \in {"join", "done"}
      BY <3>1 DEF CountInv, PastMonitor
    <3>2. CASE cliMain \notin {"join", "done"}
      <4>1. ClientMonitor
        BY <1>1, <3>2, MainFrame
        DEF ClientMain, ClientOpen, ClientTouch, ClientTimeout, ClientGather, ClientJoin,
            ServerMain, ServerOpen, ServerListen, ServerRelease, ServerMonitor, ServerJoin,
            ClientOpenFails, ServerOpenFails, ClientReply, mainVars
      <4> QED BY <4>1 DEF ClientMonitor
    <3> QED BY <3>1, <3>2
  <2> QED BY <2>1, OverStays
<1>2. ASSUME srvMain' \in {"join", "done"} PROVE \A s \in Servers : Over(srvConn'[s])
  <2>1. \A s \in Servers : Over(srvConn[s])
    <3>1. CASE srvMain \in {"join", "done"}
      BY <3>1 DEF CountInv, PastMonitor
    <3>2. CASE srvMain \notin {"join", "done"}
      <4>1. ServerMonitor
        BY <1>2, <3>2, MainFrame
        DEF ClientMain, ClientOpen, ClientTouch, ClientTimeout, ClientGather, ClientMonitor,
            ClientJoin, ServerMain, ServerOpen, ServerListen, ServerRelease, ServerJoin,
            ClientOpenFails, ServerOpenFails, ClientReply, mainVars
      <4> QED BY <4>1 DEF ServerMonitor
    <3> QED BY <3>1, <3>2
  <2> QED BY <2>1, OverStays
<1> QED BY <1>1, <1>2 DEF PastMonitor

LEMMA CountStep ==
    ASSUME TypeOK, IndexInv, CountInv, [Next]_vars
    PROVE  CountInv'
BY CliReportStep, SrvReportStep, UnreleasedStep, PastMonitorStep DEF CountInv

LEMMA CountInit == Init => CountInv
BY DEF Init, CountInv, CliReport, SrvReport, UnreleasedHasCode, PastMonitor, Booting

\* Codes and packet counts, though one number, never mix.
THEOREM ReportsReadable == Spec => [](TypeOK /\ HandshakeInv /\ CountInv)
<1>1. (TypeOK /\ HandshakeInv /\ CountInv) /\ [Next]_vars => CountInv'
  BY CountStep DEF HandshakeInv
<1> QED BY <1>1, CountInit, HandshakeCorrect, PTL DEF Spec

\* A main leaves its monitor loop only when all of its threads have run
\* their course, none of them with an error.
THEOREM MonitorsSound == Spec => []MonitorSound
<1>1. TypeOK /\ CountInv => MonitorSound
  <2> SUFFICES ASSUME TypeOK, CountInv PROVE MonitorSound
    OBVIOUS
  <2>1. ~Over(ERROR)
    BY DEF Over, ERROR, STATE_BEGIN
  <2> QED BY <2>1, OverHasLeft DEF CountInv, PastMonitor, MonitorSound
<1> QED BY <1>1, ReportsReadable, PTL

\* No step takes a packet count back that the monitor may have shown.
THEOREM CountsNeverFall == Spec => ReportsGrow
<1>1. TypeOK /\ HandshakeInv /\ CountInv /\ [Next]_vars
      => [/\ \A c \in Clients : Reported(cliConn[c]) <= Reported(cliConn'[c])
          /\ \A s \in Servers : Reported(srvConn[s]) <= Reported(srvConn'[s])]_vars
  BY CliReportStep, SrvReportStep DEF HandshakeInv, CountInv
<1> QED BY <1>1, ReportsReadable, PTL DEF Spec, ReportsGrow

-----------------------------------------------------------------------------
(* The session implements the rendezvous: each step is one of its steps or *)
(* leaves what it sees as it was.                                          *)

LEMMA PeerLearntStep ==
    ASSUME TypeOK, IndexInv, CountInv, PeerLearntLast, [Next]_vars
    PROVE  PeerLearntLast'
<1> USE DEF TypeOK, SrvType
<1> SUFFICES ASSUME NEW s \in Servers,
                    \/ srvPc'[s] \in {"none", "setup", "touch", "peer"}
                    \/ srvPc'[s] = "exit" /\ ~Over(srvConn'[s])
             PROVE  srvPeer'[s] = Nobody
  BY DEF PeerLearntLast
<1>1. CASE srvPc'[s] = srvPc[s] /\ srvPeer'[s] = srvPeer[s]
  BY <1>1, OverStays DEF PeerLearntLast
<1>2. CASE SrvSetup(s) \/ SrvTouch(s) \/ SrvFail(s)
  BY <1>2 DEF SrvSetup, SrvTouch, SrvFail, PeerLearntLast
<1>3. ASSUME SrvStop(s) PROVE FALSE
  BY <1>3 DEF SrvStop, Final, CountInv, SrvReport, Over, STATE_BEGIN
<1>4. ~SrvStart(s) /\ ~SrvNextBatch(s) /\ \A c \in Clients : ~SrvPeer(s, c)
  BY DEF SrvStart, SrvNextBatch, SrvPeer
<1> QED BY <1>1, <1>2, <1>3, <1>4, SrvStep DEF PeerLearntLast

\* A server thread that has begun for a peer runs or has run well.
LEMMA BegunRuns ==
    ASSUME TypeOK, CountInv, PeerLearntLast,
           NEW s \in Servers, srvPc[s] \in Begun, srvPeer[s] # Nobody
    PROVE  srvPhases[s] \in {"running", "finished"}
<1>1. srvPc[s] = "exit" => Over(srvConn[s])
  BY DEF PeerLearntLast
<1> QED BY <1>1 DEF Begun, srvPhases, Phase

\* A thread that has returned has left, well or not.
LEMMA ExitLeft ==
    /\ \A s \in Servers : srvPc[s] = "exit" => srvPhases[s] \in R!Left
    /\ \A c \in Clients : cliPc[c] = "exit" => cliPhases[c] \in R!Left
BY DEF srvPhases, cliPhases, Phase, R!Left

LEMMA ListenMaps ==
    ASSUME TypeOK, IndexInv, ServerListen
    PROVE  \E s \in R!Servers : R!Appear(s)
<1> USE DEF TypeOK, SrvType, MainType
<1>1. srvThrid \in Servers /\ srvPc[srvThrid] = "none" /\ srvMain' # "done" /\ srvMain # "done"
  BY CountsAssumption DEF ServerListen, IndexInv
<1>2. srvThrid \notin existing /\ existing' = existing \cup {srvThrid}
  BY <1>1 DEF ServerListen, existing
<1>3. srvPhases' = srvPhases
  <2>1. \A s \in Servers : Phase(srvPc'[s], srvConn'[s]) = Phase(srvPc[s], srvConn[s])
    BY <1>1 DEF ServerListen, Phase
  <2> QED BY <2>1 DEF srvPhases
<1>4. endedWell' = endedWell /\ cliPhases' = cliPhases /\ cliSrv' = cliSrv
  BY <1>1 DEF ServerListen, endedWell, cliPhases, cliVars
<1> QED BY <1>1, <1>2, <1>3, <1>4 DEF R!Appear, R!Servers

LEMMA ReplyMaps ==
    ASSUME TypeOK, IndexInv, RepliesFree, NEW s \in Servers, ClientReply(s)
    PROVE  \E c \in R!Clients : R!Pair(c, s)
<1> USE DEF TypeOK, CliType, MainType
<1>1. /\ cliThrid \in Clients /\ cliPc[cliThrid] = "none" /\ cliSrv[cliThrid] = Nobody
      /\ cliMain # "done" /\ cliMain' # "done"
  BY CountsAssumption DEF ClientReply, IndexInv
<1>2. s \in existing /\ \A c \in Clients : cliSrv[c] # s
  BY DEF ClientReply, RepliesFree, existing
<1>3. cliPhases' = cliPhases
  <2>1. \A c \in Clients : Phase(cliPc'[c], cliConn'[c]) = Phase(cliPc[c], cliConn[c])
    BY <1>1 DEF ClientReply, Phase
  <2> QED BY <2>1 DEF cliPhases
<1>4. endedWell' = endedWell /\ srvPhases' = srvPhases /\ existing' = existing
  BY <1>1 DEF ClientReply, endedWell, srvPhases, existing, srvVars
<1>5. cliSrv' = [cliSrv EXCEPT ![cliThrid] = s]
  BY DEF ClientReply
<1> QED BY <1>1, <1>2, <1>3, <1>4, <1>5 DEF R!Pair, R!Clients, R!Nobody

\* What a server thread's own step leaves of the mapped state.
LEMMA SrvStepMaps ==
    ASSUME TypeOK, NEW s \in Servers, ServerThread(s) \/ SrvFail(s)
    PROVE  /\ existing' = existing /\ s \in existing
           /\ cliSrv' = cliSrv /\ cliPhases' = cliPhases /\ endedWell' = endedWell
           /\ srvPhases' = [srvPhases EXCEPT ![s] = Phase(srvPc'[s], srvConn'[s])]
<1> USE DEF TypeOK, SrvType
<1>1. /\ srvPc[s] # "none" /\ srvPc'[s] # "none"
      /\ \A t \in Servers \ {s} : srvPc'[t] = srvPc[t] /\ srvConn'[t] = srvConn[t]
  BY DEF ServerThread, SrvSetup, SrvTouch, SrvPeer, SrvStart, MayStart,
         SrvKernel, SrvNextBatch, SrvStop, SrvFail
<1>2. UNCHANGED <<mainVars, cliVars>>
  BY DEF ServerThread, SrvSetup, SrvTouch, SrvPeer, SrvStart,
         SrvKernel, SrvNextBatch, SrvStop, SrvFail
<1>3. existing' = existing /\ s \in existing
  BY <1>1 DEF existing
<1>4. cliSrv' = cliSrv /\ cliPhases' = cliPhases /\ endedWell' = endedWell
  BY <1>2 DEF mainVars, cliVars, cliPhases, endedWell
<1>5. srvPhases' = [srvPhases EXCEPT ![s] = Phase(srvPc'[s], srvConn'[s])]
  BY <1>1 DEF srvPhases
<1> QED BY <1>3, <1>4, <1>5

LEMMA CliStepMaps ==
    ASSUME TypeOK, NEW c \in Clients, ClientThread(c) \/ CliFail(c) \/ CliGiveUp(c)
    PROVE  /\ cliPc[c] # "none"
           /\ existing' = existing /\ cliSrv' = cliSrv
           /\ srvPhases' = srvPhases /\ endedWell' = endedWell
           /\ cliPhases' = [cliPhases EXCEPT ![c] = Phase(cliPc'[c], cliConn'[c])]
<1> USE DEF TypeOK, CliType
<1>1. /\ cliPc[c] # "none"
      /\ \A d \in Clients \ {c} : cliPc'[d] = cliPc[d] /\ cliConn'[d] = cliConn[d]
  BY DEF ClientThread, CliSetup, CliInform, CliReady, CliKernel,
         CliNextBatch, CliStop, CliFail, CliGiveUp
<1>2. UNCHANGED <<mainVars, cliSrv, srvVars>>
  BY DEF ClientThread, CliSetup, CliInform, CliReady, CliKernel,
         CliNextBatch, CliStop, CliFail, CliGiveUp
<1>3. existing' = existing /\ srvPhases' = srvPhases /\ endedWell' = endedWell
  BY <1>2 DEF mainVars, srvVars, existing, srvPhases, endedWell
<1>4. cliPhases' = [cliPhases EXCEPT ![c] = Phase(cliPc'[c], cliConn'[c])]
  BY <1>1 DEF cliPhases
<1> QED BY <1>1, <1>2, <1>3, <1>4

LEMMA ServerThreadMaps ==
    ASSUME TypeOK, HandshakeInv, CountInv, NEW s \in Servers, ServerThread(s) \/ SrvFail(s)
    PROVE  [R!Next]_(R!rvars)
<1> USE DEF TypeOK, SrvType
<1>1. srvPhases[s] = Phase(srvPc[s], srvConn[s])
  BY DEF srvPhases, Phase
<1>2. CASE SrvSetup(s) \/ SrvTouch(s) \/ (\E c \in Clients : SrvPeer(s, c))
             \/ SrvKernel(s) \/ SrvNextBatch(s)
  <2>1. Phase(srvPc'[s], srvConn'[s]) = Phase(srvPc[s], srvConn[s])
    BY <1>2 DEF SrvSetup, SrvTouch, SrvPeer, SrvKernel, SrvNextBatch, Phase
  <2>2. srvPhases' = srvPhases
    BY <1>1, <2>1, SrvStepMaps DEF srvPhases
  <2> QED BY <2>2, SrvStepMaps DEF R!rvars
<1>3. CASE SrvStart(s)
  <2>1. srvPhases[s] = "idle" /\ Phase(srvPc'[s], srvConn'[s]) = "running"
    BY <1>1, <1>3 DEF SrvStart, MayStart, Phase
  <2>2. existing = Servers
    BY <1>3 DEF SrvStart, MayStart, HandshakeInv, ReleasedLate, AllUp, Booting, READY, WAIT,
                existing
  <2>3. srvPeer[s] \in Clients /\ srvPeer[s] # Nobody
    BY <1>3 DEF SrvStart, MayStart, HandshakeInv, PeerKnown
  <2>4. /\ cliSrv[srvPeer[s]] \in Servers
        /\ cliSrv[srvPeer[s]] = s \/ srvPc[cliSrv[srvPeer[s]]] = "exit"
    BY <2>3 DEF HandshakeInv, PeerAgreement, LeftThePort, CliType
  <2>5. \E c \in R!Clients : \/ cliSrv[c] = s
                             \/ cliSrv[c] # R!Nobody /\ srvPhases[cliSrv[c]] \in R!Left
    BY <2>3, <2>4, ExitLeft DEF R!Clients, R!Nobody
  <2>6. R!StartServer(s)
    BY <2>1, <2>2, <2>5, SrvStepMaps DEF R!StartServer, R!Servers
  <2> QED BY <2>6 DEF R!Next, R!Servers
<1>4. CASE SrvStop(s)
  <2>1. srvPhases[s] = "running" /\ Phase(srvPc'[s], srvConn'[s]) = "finished"
    BY <1>1, <1>4 DEF SrvStop, Final, CountInv, SrvReport, Over, STATE_BEGIN, Phase
  <2>2. R!FinishServer(s)
    BY <2>1, SrvStepMaps DEF R!FinishServer
  <2> QED BY <2>2 DEF R!Next, R!Servers
<1>5. CASE SrvFail(s)
  <2>1. srvPhases[s] = "idle" /\ Phase(srvPc'[s], srvConn'[s]) = "failed"
    BY <1>1, <1>5 DEF SrvFail, Over, ERROR, STATE_BEGIN, Phase
  <2>2. R!FailServer(s)
    BY <2>1, SrvStepMaps DEF R!FailServer
  <2> QED BY <2>2 DEF R!Next, R!Servers
<1> QED BY <1>2, <1>3, <1>4, <1>5 DEF ServerThread

\* The server thread whose READY starts a client thread: its partner, or one
\* that has to do with it because a thread has left its port.
LEMMA ReadyStartMaps ==
    ASSUME TypeOK, HandshakeInv, CountInv, PeerLearntLast, NEW c \in Clients, CliReady(c)
    PROVE  \E s \in Servers :
              /\ srvPhases[s] \in {"running", "finished"}
              /\ \/ s = cliSrv[c]
                 \/ srvPhases[cliSrv[c]] \in R!Left
                 \/ \E d \in Clients \ {c} : cliPhases[d] \in R!Left
<1> USE DEF HandshakeInv
<1>1. cliPc[c] = "wait" /\ readys[cliPort[c]] > 0 /\ cliPort[c] \in CliPorts
  BY DEF CliReady, PortInv, BoundInv, TypeOK, CliType
<1>2. PICK s \in Servers : /\ srvPeer[s] # Nobody /\ cliPort[srvPeer[s]] = cliPort[c]
                           /\ srvPc[s] \in Begun
  BY <1>1 DEF ReadyFromBegun
<1>3. srvPhases[s] \in {"running", "finished"}
  BY <1>2, BegunRuns
<1>4. CASE srvPeer[s] = c
  <2>1. cliSrv[c] = s \/ (cliSrv[c] \in Servers /\ srvPc[cliSrv[c]] = "exit")
    BY <1>2, <1>4 DEF PeerAgreement, LeftThePort, TypeOK, CliType
  <2> QED BY <1>3, <2>1, ExitLeft
<1>5. CASE srvPeer[s] # c
  <2>1. srvPeer[s] \in Clients \ {c} /\ DOMAIN cliPort = Clients
    BY <1>2, <1>5 DEF TypeOK, SrvType, CliType
  <2>2. cliPc[srvPeer[s]] = "exit"
    BY <1>1, <1>2, <2>1 DEF PortInv, HeldOnce
  <2> QED BY <1>3, <2>1, <2>2, ExitLeft
<1> QED BY <1>4, <1>5

LEMMA ClientThreadMaps ==
    ASSUME TypeOK, HandshakeInv, CountInv, PeerLearntLast,
           NEW c \in Clients, ClientThread(c) \/ CliFail(c) \/ CliGiveUp(c)
    PROVE  [R!Next]_(R!rvars)
<1> USE DEF TypeOK, CliType
<1>1. cliPhases[c] = Phase(cliPc[c], cliConn[c])
  BY DEF cliPhases, Phase
<1>2. cliSrv[c] # Nobody
  BY CliStepMaps DEF HandshakeInv, IndexInv
<1>3. CASE CliSetup(c) \/ CliInform(c) \/ (\E k \in Arrivals : CliKernel(c, k))
             \/ CliNextBatch(c)
  <2>1. Phase(cliPc'[c], cliConn'[c]) = Phase(cliPc[c], cliConn[c])
    BY <1>3 DEF CliSetup, CliInform, CliKernel, CliNextBatch, Phase
  <2>2. cliPhases' = cliPhases
    BY <1>1, <2>1, CliStepMaps DEF cliPhases
  <2> QED BY <2>2, CliStepMaps DEF R!rvars
<1>4. CASE CliReady(c)
  <2>1. cliPhases[c] = "idle" /\ Phase(cliPc'[c], cliConn'[c]) = "running"
    BY <1>1, <1>4 DEF CliReady, Phase
  <2>2. \E s \in R!Servers :
           /\ srvPhases[s] \in {"running", "finished"}
           /\ \/ s = cliSrv[c]
              \/ srvPhases[cliSrv[c]] \in R!Left
              \/ \E d \in R!Clients \ {c} : cliPhases[d] \in R!Left
    BY <1>4, ReadyStartMaps DEF R!Servers, R!Clients
  <2>3. R!StartClient(c)
    BY <1>2, <2>1, <2>2, CliStepMaps DEF R!StartClient, R!Nobody
  <2> QED BY <2>3 DEF R!Next, R!Clients
<1>5. CASE CliStop(c)
  <2>1. cliPhases[c] = "running" /\ Phase(cliPc'[c], cliConn'[c]) = "finished"
    BY <1>1, <1>5 DEF CliStop, Final, CountInv, CliReport, Over, STATE_BEGIN, Phase
  <2>2. R!FinishClient(c)
    BY <2>1, CliStepMaps DEF R!FinishClient
  <2> QED BY <2>2 DEF R!Next, R!Clients
<1>6. CASE CliFail(c) \/ CliGiveUp(c)
  <2>1. cliPhases[c] = "idle" /\ Phase(cliPc'[c], cliConn'[c]) = "failed"
    <3>1. /\ cliPc[c] \in {"setup", "inform", "wait"}
          /\ cliPc'[c] = "exit" /\ cliConn'[c] = ERROR
      BY <1>6 DEF CliFail, CliGiveUp
    <3> QED BY <1>1, <3>1 DEF Over, ERROR, STATE_BEGIN, Phase
  <2>2. R!FailClient(c)
    BY <1>2, <2>1, CliStepMaps DEF R!FailClient, R!Nobody
  <2> QED BY <2>2 DEF R!Next, R!Clients
<1> QED BY <1>3, <1>4, <1>5, <1>6 DEF ClientThread

LEMMA JoinMaps ==
    ASSUME TypeOK, CountInv, ClientJoin \/ ServerJoin
    PROVE  [R!Next]_(R!rvars)
<1>1. CASE ClientJoin
  <2>1. \A c \in Clients : cliPhases[c] = "finished"
    BY <1>1 DEF ClientJoin, CountInv, PastMonitor, cliPhases, Phase
  <2>2. endedWell' = endedWell \cup {"client"} /\ UNCHANGED <<existing, cliSrv, cliPhases, srvPhases>>
    BY <1>1 DEF ClientJoin, endedWell, existing, cliPhases, srvPhases, cliVars, srvVars
  <2>3. R!EndClient
    BY <2>1, <2>2 DEF R!EndClient, R!Clients
  <2> QED BY <2>3 DEF R!Next
<1>2. CASE ServerJoin
  <2>1. \A s \in Servers : srvPhases[s] = "finished"
    BY <1>2 DEF ServerJoin, CountInv, PastMonitor, srvPhases, Phase
  <2>2. endedWell' = endedWell \cup {"server"} /\ UNCHANGED <<existing, cliSrv, cliPhases, srvPhases>>
    BY <1>2 DEF ServerJoin, endedWell, existing, cliPhases, srvPhases, cliVars, srvVars
  <2>3. R!EndServer
    BY <2>1, <2>2 DEF R!EndServer, R!Servers
  <2> QED BY <2>3 DEF R!Next
<1> QED BY <1>1, <1>2

\* The release writes over codes only, so a failed thread stays failed.
LEMMA ReleaseMaps ==
    ASSUME TypeOK, IndexInv, CountInv, ServerRelease
    PROVE  UNCHANGED R!rvars
<1> USE DEF TypeOK, SrvType, MainType
<1>1. \A s \in Servers : Phase(srvPc'[s], srvConn'[s]) = Phase(srvPc[s], srvConn[s])
  <2> SUFFICES ASSUME NEW s \in Servers
               PROVE  Phase(srvPc'[s], srvConn'[s]) = Phase(srvPc[s], srvConn[s])
    OBVIOUS
  <2>1. srvPc' = srvPc /\ srvConn'[s] = IF s = srvThrid THEN READY ELSE srvConn[s]
    BY DEF ServerRelease
  <2>2. s = srvThrid => UnreleasedHasCode(s) /\ Unreleased(s)
    BY DEF CountInv, ServerRelease, Unreleased
  <2>3. s = srvThrid => srvConn[s] \in {WAIT, ERROR}
    BY <2>2 DEF UnreleasedHasCode
  <2> QED BY <2>1, <2>3 DEF Phase, Over, READY, WAIT, ERROR, STATE_BEGIN
<1>2. srvPhases' = srvPhases
  BY <1>1 DEF srvPhases
<1>3. existing' = existing /\ cliSrv' = cliSrv /\ cliPhases' = cliPhases
  BY DEF ServerRelease, existing, cliPhases, cliVars
<1>4. endedWell' = endedWell
  BY DEF ServerRelease, endedWell
<1> QED BY <1>2, <1>3, <1>4 DEF R!rvars

LEMMA StutterMaps ==
    ASSUME \/ ClientOpen \/ ClientTouch \/ ClientTimeout \/ ClientGather \/ ClientMonitor
           \/ ServerOpen \/ ServerMonitor \/ ClientOpenFails \/ ServerOpenFails
           \/ Losses \/ UNCHANGED vars
    PROVE  UNCHANGED R!rvars
<1>1. UNCHANGED <<cliVars, srvVars>>
  BY DEF ClientOpen, ClientTouch, ClientTimeout, ClientGather, ClientMonitor, ServerOpen,
         ServerMonitor, ClientOpenFails, ServerOpenFails, Losses, LoseTouch, LoseReply,
         LoseInform, LoseReady, vars
<1>2. (cliMain' = "done" <=> cliMain = "done") /\ (srvMain' = "done" <=> srvMain = "done")
  BY DEF ClientOpen, ClientTouch, ClientTimeout, ClientGather, ClientMonitor, ServerOpen,
         ServerMonitor, ClientOpenFails, ServerOpenFails, Losses, LoseTouch, LoseReply,
         LoseInform, LoseReady, vars, mainVars
<1> QED BY <1>1, <1>2
        DEF cliVars, srvVars, R!rvars, existing, cliPhases, srvPhases, endedWell

LEMMA StepMaps ==
    ASSUME TypeOK, HandshakeInv, CountInv, PeerLearntLast, [Next]_vars
    PROVE  [R!Next]_(R!rvars)
<1>1. CASE ServerListen
  <2>1. PICK s \in R!Servers : R!Appear(s)
    BY <1>1, ListenMaps DEF HandshakeInv
  <2> QED BY <2>1 DEF R!Next
<1>2. ASSUME NEW s \in Servers, ClientReply(s) PROVE [R!Next]_(R!rvars)
  <2>1. PICK c \in R!Clients : R!Pair(c, s)
    BY <1>2, ReplyMaps DEF HandshakeInv
  <2> QED BY <2>1 DEF R!Next, R!Servers
<1>3. ASSUME NEW s \in Servers, ServerThread(s) \/ SrvFail(s) PROVE [R!Next]_(R!rvars)
  BY <1>3, ServerThreadMaps
<1>4. ASSUME NEW c \in Clients, ClientThread(c) \/ CliFail(c) \/ CliGiveUp(c)
      PROVE  [R!Next]_(R!rvars)
  BY <1>4, ClientThreadMaps
<1>5. CASE ClientJoin \/ ServerJoin
  BY <1>5, JoinMaps
<1>6. CASE ServerRelease
  BY <1>6, ReleaseMaps DEF HandshakeInv
<1>7. CASE \/ ClientOpen \/ ClientTouch \/ ClientTimeout \/ ClientGather \/ ClientMonitor
           \/ ServerOpen \/ ServerMonitor \/ ClientOpenFails \/ ServerOpenFails
           \/ Losses \/ UNCHANGED vars
  BY <1>7, StutterMaps
<1> QED BY <1>1, <1>2, <1>3, <1>4, <1>5, <1>6, <1>7
        DEF Next, ClientMain, ServerMain, Failures

LEMMA InitMaps == Init => R!Init /\ PeerLearntLast
<1> SUFFICES ASSUME Init PROVE R!Init /\ PeerLearntLast
  OBVIOUS
<1>1. existing = {} /\ endedWell = {}
  BY DEF Init, existing, endedWell
<1>2. cliPhases = [c \in Clients |-> "idle"] /\ srvPhases = [s \in Servers |-> "idle"]
  BY DEF Init, cliPhases, srvPhases, Phase
<1> QED BY <1>1, <1>2
        DEF Init, PeerLearntLast, R!Init, R!Clients, R!Servers, R!Nobody

\* Every session, whatever is lost, repeated or fails, is a rendezvous.
THEOREM SessionImplementsRendezvous == Spec => ImplementsRendezvous
<1>1. TypeOK /\ HandshakeInv /\ CountInv /\ PeerLearntLast /\ [Next]_vars => PeerLearntLast'
  BY PeerLearntStep DEF HandshakeInv
<1>2. TypeOK /\ HandshakeInv /\ CountInv /\ PeerLearntLast /\ [Next]_vars
      => [R!Next]_(R!rvars)
  BY StepMaps
<1> QED BY <1>1, <1>2, InitMaps, ReportsReadable, PTL DEF Spec, ImplementsRendezvous, R!Spec
=============================================================================
