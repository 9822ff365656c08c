----------------------------- MODULE MCOutbound -----------------------------
(* The connections of the outbound proxy, those of the inbound proxy and,  *)
(* below their level of detail, the HTTP exchanges on one of them.  A      *)
(* behaviour runs one of the three (part).                                 *)
EXTENDS Outbound, Integers, TLC

CONSTANTS k1, k2, a, b, Requests, Responses, MaxRequests

VARIABLES part, count, cur, queue, ahead, toSend, sock, buf, phase, need, req, resp,
          up, dropped, misread,
          inDenied, at, target, judged, destConn, client, inNumOpen, stopping, panicked

inVars == <<inDenied, at, target, judged, destConn, client, inNumOpen, stopping, panicked>>
httpVars == <<count, cur, queue, ahead, toSend, sock, buf, phase, need, req, resp,
              up, dropped, misread>>

Http == INSTANCE HttpExchange
In == INSTANCE Inbound

ASSUME PeersAssumption == Http!PeersAreFramed

MCConn == {k1, k2}
MCHost == {a, b}
MCSymmetry == Permutations(MCConn) \cup Permutations(MCHost)

\* One chunk, then the end with a trailer.
Chunks == <<"1", "d", "n", "0", "t", "n">>
Rq(method, close, te, cl, expect, body) ==
    [method |-> method, close |-> close, te |-> te, cl |-> cl, expect |-> expect, body |-> body]
Rs(status, close, te, cl, upgrade, body, hangup) ==
    [status |-> status, close |-> close, te |-> te, cl |-> cl, upgrade |-> upgrade,
     body |-> body, hangup |-> hangup]

MCRequests ==
    {Rq("GET", FALSE, <<>>, -1, FALSE, <<>>),
     Rq("HEAD", FALSE, <<>>, 0, FALSE, <<>>),
     Rq("POST", FALSE, <<>>, 2, FALSE, <<"d", "d">>),
     Rq("POST", TRUE, << <<"chunked">> >>, -1, FALSE, Chunks),
     Rq("POST", FALSE, << <<"gzip", "chunked">> >>, 1, FALSE, Chunks),
     Rq("POST", FALSE, << <<"gzip">>, <<"deflate", "chunked">> >>, -1, FALSE, Chunks),
     Rq("POST", FALSE, << <<"gzip">>, <<"deflate", "chunked">> >>, 7, FALSE, Chunks),
     Rq("PUT", FALSE, <<>>, 1, TRUE, <<"d">>),
     Rq("CONNECT", FALSE, <<>>, -1, FALSE, <<>>)}

\* Every kind of framing, an interim response, an upgrade with data behind it,
\* a body cut short and one that is not chunked as announced.
MCResponses ==
    {Rs(200, FALSE, <<>>, 1, FALSE, <<"d">>, FALSE),
     Rs(200, FALSE, <<"chunked">>, -1, FALSE, Chunks, FALSE),
     Rs(200, FALSE, <<"gzip", "chunked">>, -1, FALSE, Chunks, FALSE),
     Rs(200, TRUE, <<>>, -1, FALSE, <<"d", "d">>, TRUE),
     Rs(200, FALSE, <<>>, -1, FALSE, <<"d">>, TRUE),
     Rs(304, FALSE, <<>>, 5, FALSE, <<>>, FALSE),
     Rs(100, FALSE, <<>>, -1, FALSE, <<"h">>, FALSE),
     Rs(101, FALSE, <<>>, -1, TRUE, <<"d", "d">>, FALSE),
     Rs(200, FALSE, <<>>, 2, FALSE, <<"d">>, TRUE),
     Rs(200, FALSE, <<"chunked">>, -1, FALSE, <<"d">>, FALSE)}

Quiet == denied = {} /\ mitmHosts = {} /\ \A c, d \in Conn : host[c] = host[d]
InQuiet == inDenied = {} /\ \A c, d \in Conn : target[c] = target[d]

MCInit ==
    /\ Init /\ Http!Init /\ In!Init
    /\ \/ part = "connections" /\ InQuiet
       \/ part = "inbound" /\ Quiet
       \/ part = "exchanges" /\ Quiet /\ InQuiet

MCNext ==
    \/ part = "connections" /\ Next /\ UNCHANGED <<part, httpVars, inVars>>
    \/ part = "inbound" /\ In!Next /\ UNCHANGED <<part, vars, httpVars>>
    \/ part = "exchanges" /\ Http!Next /\ UNCHANGED <<part, vars, inVars>>

MCSpec == MCInit /\ [][MCNext]_<<part, vars, httpVars, inVars>>

\* The connection loop reads every request from its first byte, unless it has
\* misread one (http.go, outbound.go).
InSync == Http!InSync

\* What proxyHTTPRequest does not relay of a response has one of three reasons.
LossIsExplained == Http!LossIsExplained

\* Only Expect: 100-continue, and the length of a misread request, make client
\* and proxy wait for each other (http.go).
MutualWaitOnlyByExpect == Http!MutualWaitOnlyByExpect

\* The inbound connection loop implements the outbound one without MITM
\* (inbound.go, outbound.go).
InboundIsOutbound == In!InboundIsOutbound
=============================================================================
