------------------------------ MODULE Outbound ------------------------------
(***************************************************************************)
(* The outbound TCP server (cmd/proxy/outbound.go, the outbound half of    *)
(* cmd/proxy/http.go and cmd/proxy/domain_policy.go).  Each accepted       *)
(* connection has a goroutine that loops over plaintext HTTP requests, or  *)
(* hands the connection over once: to the MITM proxy, with a passthrough   *)
(* as fallback, or to a passthrough directly.  Policy and runtime          *)
(* configuration change while connections are being served, and Shutdown   *)
(* waits for the counter of open connections.                              *)
(*                                                                         *)
(* A step runs from one blocking call to the next.  What the client sends, *)
(* what the upstream answers and which calls fail is left open.            *)
(***************************************************************************)
EXTENDS Naturals, FiniteSets

CONSTANTS
    Conn,       \* client connections
    Host        \* host names that clients ask for (Host header or SNI)

ASSUME ConnAssumption == IsFiniteSet(Conn)

VARIABLES
    denied,     \* hosts that the current domain policy denies
    mitmHosts,  \* hosts with MITM enabled in the current runtime configuration
    pc,         \* where each connection's goroutine is
    host,       \* the host of the request or ClientHello in hand
    verdict,    \* "none", "allowed" or "denied", for that request
    sni,        \* whether the ClientHello in hand names its host
    upstream,   \* the upstream socket: "none", "open" (idle, for the MITM proxy), "busy"
    stream,     \* the client's stream: "intact", "touched" by our TLS server, "closed"
    forwarded,  \* history: hosts of the requests that the MITM proxy sent upstream
    relayed,    \* history: the MITM proxy has relayed the connection to its end
    cutShort,   \* history: it ended with a request of the MITM proxy in flight
    NumOpen,    \* o.NumOpen
    shutdown    \* "no", "polling" (inside Shutdown) or "returned"

vars == <<denied, mitmHosts, pc, host, verdict, sni, upstream, stream, forwarded,
          relayed, cutShort, NumOpen, shutdown>>

\* Goroutine positions; "new" is a connection the listener has not accepted.
Waiting == {"new", "spawned"}
Counted == {"peek", "httpRequest", "httpDial", "httpExchange", "hello", "raw",
            "mitmCertificate", "mitmHandshake", "mitmDetect", "mitmHttp", "mitmDial",
            "mitmTunnel", "fallback", "passthrough", "tunnel"}

TypeOK ==
    /\ denied \subseteq Host
    /\ mitmHosts \subseteq Host
    /\ pc \in [Conn -> Waiting \cup Counted \cup {"done"}]
    /\ host \in [Conn -> Host]
    /\ verdict \in [Conn -> {"none", "allowed", "denied"}]
    /\ sni \in [Conn -> BOOLEAN]
    /\ upstream \in [Conn -> {"none", "open", "busy"}]
    /\ stream \in [Conn -> {"intact", "touched", "closed"}]
    /\ forwarded \in [Conn -> SUBSET Host]
    /\ relayed \in [Conn -> BOOLEAN]
    /\ cutShort \in [Conn -> BOOLEAN]
    /\ NumOpen \in 0 .. Cardinality(Conn)
    /\ shutdown \in {"no", "polling", "returned"}

Init ==
    /\ denied \in SUBSET Host
    /\ mitmHosts \in SUBSET Host
    /\ pc = [c \in Conn |-> "new"]
    /\ host \in [Conn -> Host]
    /\ verdict = [c \in Conn |-> "none"]
    /\ sni = [c \in Conn |-> FALSE]
    /\ upstream = [c \in Conn |-> "none"]
    /\ stream = [c \in Conn |-> "intact"]
    /\ forwarded = [c \in Conn |-> {}]
    /\ relayed = [c \in Conn |-> FALSE]
    /\ cutShort = [c \in Conn |-> FALSE]
    /\ NumOpen = 0
    /\ shutdown = "no"

-----------------------------------------------------------------------------
(***************************************************************************)
(* Building blocks                                                         *)
(***************************************************************************)

sharedVars == <<denied, mitmHosts, shutdown>>
requestVars == <<host, sni>>
historyVars == <<forwarded, relayed, cutShort>>

Goes(c, to) ==
    /\ pc' = [pc EXCEPT ![c] = to]
    /\ UNCHANGED NumOpen

\* Fault: an early return forgets the deferred decrement.
ReturnWithoutDecrement(c) ==
    /\ pc' = [pc EXCEPT ![c] = "done"]
    /\ stream' = [stream EXCEPT ![c] = "closed"]
    /\ UNCHANGED NumOpen

\* The goroutine returns: its deferred calls close the client's socket and
\* decrement the counter.
Return(c) ==
    /\ pc' = [pc EXCEPT ![c] = "done"]
    /\ stream' = [stream EXCEPT ![c] = "closed"]
    /\ NumOpen' = NumOpen - 1

OpenUpstream(c) == upstream' = [upstream EXCEPT ![c] = "open"]
CloseUpstream(c) == upstream' = [upstream EXCEPT ![c] = "none"]

\* enforceDomainPolicy, with the policy of this moment: allowed, the
\* connection goes on; denied, a 403 is written and the goroutine returns.
EnforceDomainPolicy(c, to) ==
    \/ /\ host[c] \notin denied
       /\ verdict' = [verdict EXCEPT ![c] = "allowed"]
       /\ Goes(c, to)
       /\ UNCHANGED stream
    \/ /\ host[c] \in denied
       /\ verdict' = [verdict EXCEPT ![c] = "denied"]
       /\ Return(c)

-----------------------------------------------------------------------------
(***************************************************************************)
(* The accept loop and the connection's loop                               *)
(***************************************************************************)

\* The listener is never closed, so connections are accepted during Shutdown.
Accept(c) ==
    /\ pc[c] = "new"
    /\ Goes(c, "spawned")
    /\ UNCHANGED <<verdict, upstream, stream, requestVars, historyVars, sharedVars>>

\* The counter is incremented by the new goroutine, not by the accept loop.
Count(c) ==
    /\ pc[c] = "spawned"
    /\ pc' = [pc EXCEPT ![c] = "peek"]
    /\ NumOpen' = NumOpen + 1
    /\ UNCHANGED <<verdict, upstream, stream, requestVars, historyVars, sharedVars>>

\* The first bytes arrive: an HTTP request or a ClientHello for h, or neither.
\* For a ClientHello without SNI, and for raw bytes, h is the destination.
Peek(c, h) ==
    /\ pc[c] = "peek"
    /\ \/ Goes(c, "httpRequest") /\ UNCHANGED sni
       \/ Goes(c, "hello") /\ sni' \in {[sni EXCEPT ![c] = named] : named \in BOOLEAN}
       \/ Goes(c, "raw") /\ UNCHANGED sni
    /\ host' = [host EXCEPT ![c] = h]
    /\ verdict' = [verdict EXCEPT ![c] = "none"]
    /\ UNCHANGED <<upstream, stream, historyVars, sharedVars>>

\* The client closed the connection, or the idle deadline passed.
PeekFailed(c) ==
    /\ pc[c] = "peek"
    /\ Return(c)
    /\ UNCHANGED <<verdict, upstream, requestVars, historyVars, sharedVars>>

-----------------------------------------------------------------------------
(***************************************************************************)
(* Plaintext HTTP                                                          *)
(***************************************************************************)

\* Fault: the request is sent on without asking the policy.
HttpUnjudged(c) ==
    /\ pc[c] = "httpRequest"
    /\ Goes(c, "httpDial")
    /\ UNCHANGED <<verdict, upstream, stream, requestVars, historyVars, sharedVars>>

\* ReadRequest, which may fail, then the policy.
HttpJudge(c) ==
    /\ pc[c] = "httpRequest"
    /\ \/ EnforceDomainPolicy(c, "httpDial")
       \/ Return(c) /\ UNCHANGED verdict
    /\ UNCHANGED <<upstream, requestVars, historyVars, sharedVars>>

\* Route and credentials (an error there ends the connection), then the dial;
\* if it fails the client is told so and the connection ends.
HttpDial(c) ==
    /\ pc[c] = "httpDial"
    /\ \/ OpenUpstream(c) /\ Goes(c, "httpExchange") /\ UNCHANGED stream
       \/ Return(c) /\ UNCHANGED upstream
    /\ UNCHANGED <<verdict, requestVars, historyVars, sharedVars>>

\* CONNECT, or an upgraded response: the connection becomes a tunnel.
HttpUpgrade(c) ==
    /\ pc[c] = "httpExchange"
    /\ Goes(c, "tunnel")
    /\ UNCHANGED <<verdict, upstream, stream, requestVars, historyVars, sharedVars>>

\* Fault: the upstream connection is kept when the client's is.
HttpKeepAliveLeaks(c) ==
    /\ pc[c] = "httpExchange"
    /\ Goes(c, "peek")
    /\ UNCHANGED <<verdict, upstream, stream, requestVars, historyVars, sharedVars>>

\* The response was relayed; the client's connection is kept, the upstream's not.
HttpKeepAlive(c) ==
    /\ pc[c] = "httpExchange"
    /\ CloseUpstream(c)
    /\ Goes(c, "peek")
    /\ UNCHANGED <<verdict, stream, requestVars, historyVars, sharedVars>>

\* An error on either side, or one of the messages says "close".
HttpEnd(c) ==
    /\ pc[c] = "httpExchange"
    /\ CloseUpstream(c)
    /\ Return(c)
    /\ UNCHANGED <<verdict, requestVars, historyVars, sharedVars>>

-----------------------------------------------------------------------------
(***************************************************************************)
(* TLS and everything else                                                 *)
(***************************************************************************)

\* shouldMITM reads the runtime configuration once; both branches enforce the
\* policy before anything is dialled.
HelloJudge(c) ==
    /\ pc[c] = "hello"
    /\ \/ host[c] \in mitmHosts /\ EnforceDomainPolicy(c, "mitmCertificate")
       \/ host[c] \notin mitmHosts /\ EnforceDomainPolicy(c, "passthrough")
    /\ UNCHANGED <<upstream, requestVars, historyVars, sharedVars>>

RawJudge(c) ==
    /\ pc[c] = "raw"
    /\ EnforceDomainPolicy(c, "passthrough")
    /\ UNCHANGED <<upstream, requestVars, historyVars, sharedVars>>

\* The certificate for the SNI is prepared before the handshake, which fails
\* when no leaf can be signed.
MitmCertificate(c) ==
    /\ pc[c] = "mitmCertificate"
    /\ \/ Goes(c, "mitmHandshake")
       \/ sni[c] /\ Goes(c, "fallback")
    /\ UNCHANGED <<verdict, upstream, stream, requestVars, historyVars, sharedVars>>

\* Without SNI there is no certificate to offer and the handshake fails; it
\* has written to the client by then, as it has when the client refuses.
MitmHandshake(c) ==
    /\ pc[c] = "mitmHandshake"
    /\ \/ sni[c] /\ Goes(c, "mitmDetect")
       \/ Goes(c, "fallback")
    /\ stream' = [stream EXCEPT ![c] = "touched"]
    /\ UNCHANGED <<verdict, upstream, requestVars, historyVars, sharedVars>>

\* From here on the deferred tlsConn.Close closes the client's socket when
\* mitmTLSProc returns, with an error or without.
MitmFails(c) ==
    /\ Goes(c, "fallback")
    /\ stream' = [stream EXCEPT ![c] = "closed"]

MitmDetect(c) ==
    /\ pc[c] = "mitmDetect"
    /\ \/ Goes(c, "mitmHttp") /\ UNCHANGED stream
       \/ Goes(c, "mitmDial") /\ UNCHANGED stream
       \/ MitmFails(c)
    /\ UNCHANGED <<verdict, upstream, requestVars, historyVars, sharedVars>>

BusyUpstream(c) == upstream' = [upstream EXCEPT ![c] = "busy"]

\* Fault: the Host header is not compared with the SNI.
MitmRequestAnyHost(c, h) ==
    /\ pc[c] = "mitmHttp"
    /\ BusyUpstream(c)
    /\ forwarded' = [forwarded EXCEPT ![c] = @ \cup {h}]
    /\ UNCHANGED <<pc, verdict, stream, relayed, cutShort, NumOpen, requestVars, sharedVars>>

\* mitmHandler.ServeHTTP for a request with Host h.  A host other than the
\* SNI is answered 421 and a credential error 502, both without a change of
\* state.  HTTP/2 requests run at once, each in a goroutine of the server.
MitmRequest(c, h) ==
    /\ pc[c] = "mitmHttp"
    /\ sni[c] => h = host[c]
    /\ BusyUpstream(c)
    /\ forwarded' = [forwarded EXCEPT ![c] = @ \cup {h}]
    /\ UNCHANGED <<pc, verdict, stream, relayed, cutShort, NumOpen, requestVars, sharedVars>>

\* The last request in flight has ended: the transport keeps the upstream
\* connection for the next one, or has dropped it.
MitmResponse(c) ==
    /\ pc[c] = "mitmHttp"
    /\ upstream[c] = "busy"
    /\ OpenUpstream(c) \/ CloseUpstream(c)
    /\ UNCHANGED <<pc, verdict, stream, NumOpen, requestVars, historyVars, sharedVars>>

\* The HTTP/1 or HTTP/2 server has served the connection to its end and
\* mitmTLSProc returns nil.  CloseIdleConnections closes idle connections only:
\* the server of HTTP/2 returns when the client is gone, and the requests that
\* are in flight then keep theirs.
MitmHttpEnd(c) ==
    /\ pc[c] = "mitmHttp"
    /\ upstream' = [upstream EXCEPT ![c] = IF @ = "busy" THEN "busy" ELSE "none"]
    /\ cutShort' = [cutShort EXCEPT ![c] = upstream[c] = "busy"]
    /\ relayed' = [relayed EXCEPT ![c] = TRUE]
    /\ Return(c)
    /\ UNCHANGED <<verdict, forwarded, requestVars, sharedVars>>

\* A request outlives its connection's goroutine: it ends, cancelled or answered,
\* and the transport closes the connection, at once or when it has been idle for
\* the time of http.DefaultTransport (90 s).  Nobody closes the idle ones again.
LateResponse(c) ==
    /\ pc[c] = "done"
    /\ \/ upstream[c] = "busy" /\ (OpenUpstream(c) \/ CloseUpstream(c))
       \/ upstream[c] = "open" /\ CloseUpstream(c)
    /\ UNCHANGED <<pc, verdict, stream, NumOpen, requestVars, historyVars, sharedVars>>

\* proxyMITMTLSConnection up to the upstream's TLS handshake; the raw socket
\* is closed when that fails.
MitmDial(c) ==
    /\ pc[c] = "mitmDial"
    /\ \/ OpenUpstream(c) /\ Goes(c, "mitmTunnel") /\ UNCHANGED stream
       \/ MitmFails(c) /\ UNCHANGED upstream
    /\ UNCHANGED <<verdict, requestVars, historyVars, sharedVars>>

\* proxyRawConnection reports its end as an error, errProxyConnectionDone or
\* a real one, and the caller takes every error for a failed MITM.
MitmTunnelEnd(c) ==
    /\ pc[c] = "mitmTunnel"
    /\ CloseUpstream(c)
    /\ relayed' \in {relayed, [relayed EXCEPT ![c] = TRUE]}
    /\ MitmFails(c)
    /\ UNCHANGED <<verdict, forwarded, cutShort, requestVars, sharedVars>>

\* proxyTLSPassthrough, as the fallback or directly.  The dial does not
\* depend on the client's socket, which may be closed already.
PassthroughDial(c) ==
    /\ pc[c] \in {"fallback", "passthrough"}
    /\ \/ OpenUpstream(c) /\ Goes(c, "tunnel") /\ UNCHANGED stream
       \/ Return(c) /\ UNCHANGED upstream
    /\ UNCHANGED <<verdict, requestVars, historyVars, sharedVars>>

\* Both directions of the tunnel have ended.
TunnelEnd(c) ==
    /\ pc[c] = "tunnel"
    /\ CloseUpstream(c)
    /\ Return(c)
    /\ UNCHANGED <<verdict, requestVars, historyVars, sharedVars>>

-----------------------------------------------------------------------------
(***************************************************************************)
(* Shutdown and the configuration                                          *)
(***************************************************************************)

connVars == <<pc, verdict, upstream, stream, NumOpen, requestVars, historyVars>>

Shutdown ==
    /\ shutdown = "no"
    /\ shutdown' = "polling"
    /\ UNCHANGED <<denied, mitmHosts, connVars>>

\* Fault: off by one in the polled condition.
ShutdownReturnsEarly ==
    /\ shutdown = "polling"
    /\ NumOpen <= 1
    /\ shutdown' = "returned"
    /\ UNCHANGED <<denied, mitmHosts, connVars>>

\* One poll of NumOpen finds it zero.
ShutdownReturns ==
    /\ shutdown = "polling"
    /\ NumOpen = 0
    /\ shutdown' = "returned"
    /\ UNCHANGED <<denied, mitmHosts, connVars>>

\* setPolicy and setConfig of the two managers.
Reconfigure(h) ==
    /\ \/ /\ denied' \in {denied \cup {h}, denied \ {h}}
          /\ UNCHANGED mitmHosts
       \/ /\ mitmHosts' \in {mitmHosts \cup {h}, mitmHosts \ {h}}
          /\ UNCHANGED denied
    /\ UNCHANGED <<shutdown, connVars>>

Goroutine(c) ==
    \/ Count(c)
    \/ \E h \in Host : Peek(c, h)
    \/ PeekFailed(c)
    \/ HttpJudge(c)
    \/ HttpDial(c)
    \/ HttpUpgrade(c)
    \/ HttpKeepAlive(c)
    \/ HttpEnd(c)
    \/ HelloJudge(c)
    \/ RawJudge(c)
    \/ MitmCertificate(c)
    \/ MitmHandshake(c)
    \/ MitmDetect(c)
    \/ \E h \in Host : MitmRequest(c, h)
    \/ MitmResponse(c)
    \/ MitmHttpEnd(c)
    \/ MitmDial(c)
    \/ MitmTunnelEnd(c)
    \/ PassthroughDial(c)
    \/ TunnelEnd(c)
    \/ LateResponse(c)

Next ==
    \/ \E c \in Conn : Accept(c) \/ Goroutine(c)
    \/ Shutdown
    \/ ShutdownReturns
    \/ \E h \in Host : Reconfigure(h)

Spec == Init /\ [][Next]_vars

-----------------------------------------------------------------------------
(***************************************************************************)
(* Properties                                                              *)
(***************************************************************************)

\* An upstream socket is open only for a request that the policy allowed when
\* it was judged, on every path: each request of a keep-alive connection, the
\* MITM proxy, its fallback and the passthrough (outbound.go:81, 93, 105).
OpenIsAllowed == \A c \in Conn : upstream[c] # "none" => verdict[c] = "allowed"

\* Inside an intercepted connection the policy is not asked again, so every
\* request that is forwarded must be for the host it was asked about.  Two
\* checks far apart make it so: no handshake without SNI (outbound.go:156-159)
\* and no Host header that differs from the SNI (outbound.go:254).
ForwardedWasJudged == \A c \in Conn : forwarded[c] \subseteq {host[c]}

\* No upstream socket is open between two requests of a connection or while a
\* fallback is about to dial again, and a connection that has ended leaves one
\* behind on one path only: the client of an intercepted connection went away
\* while a request of it was in flight (outbound.go:181, 191-200, 337-343).
NoUpstreamLeak ==
    \A c \in Conn :
        /\ pc[c] \in {"peek", "fallback"} => upstream[c] = "none"
        /\ pc[c] = "done" /\ ~cutShort[c] => upstream[c] = "none"

\* NumOpen is the number of goroutines between its two atomic updates,
\* whatever path they return by (outbound.go:53-54).
NumOpenIsExact == NumOpen = Cardinality({c \in Conn : pc[c] \in Counted})

\* When Shutdown returns, the only connections that are not finished are those
\* that were accepted too late to be counted (outbound.go:347).
DrainedWhenShutdownReturns ==
    [][shutdown' = "returned" /\ shutdown # "returned" =>
          \A c \in Conn : pc[c] \in Waiting \cup {"done"}]_vars

\* docs/mitm-credential-vault-design.md:59: the passthrough is the fallback
\* for the case that MITM handling fails.  A connection that the MITM proxy
\* has relayed to its end is not dialled a second time.
FallbackOnlyAfterFailure ==
    \A c \in Conn : pc[c] = "tunnel" => ~relayed[c]

\* The same line: the fallback goes back to transparent forwarding.  A tunnel
\* starts on a stream that the proxy has neither written to nor closed.
FallbackIsTransparent ==
    \A c \in Conn : pc[c] = "tunnel" => stream[c] = "intact"
=============================================================================
