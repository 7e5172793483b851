---------------------------- MODULE MCUdpSession ----------------------------
(* Instances of UdpSession for TLC.                                        *)
EXTENDS UdpSessionRefinement

\* All of a kernel's packets arrive, or just one receive kernel's worth, or
\* none.
AllOrNone  == {0, SendPack}
SomeArrive == {RecvPack}
OneBatch   == {1}
MayIdle    == {0, 1}
Unlimited  == NoLimit
=============================================================================
