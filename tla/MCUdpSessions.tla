---------------------------- MODULE MCUdpSessions ----------------------------
(* Two flows to one destination, whose answers share a reply socket, and   *)
(* three session objects, so that a session can be replaced twice or once  *)
(* beside another flow.                                                    *)
EXTENDS UdpSessions

CONSTANTS c1, c2, d1, s1, s2, s3

MCClient == {c1, c2}
MCDst == {d1}
MCSid == {s1, s2, s3}
=============================================================================
