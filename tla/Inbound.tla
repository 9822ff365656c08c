------------------------------ MODULE Inbound ------------------------------
(***************************************************************************)
(* The inbound TCP server (cmd/proxy/inbound.go and HttpProc2 of           *)
(* cmd/proxy/http.go): the connection loop of the outbound server written  *)
(* a second time, without MITM.  TLS is not told from other bytes before   *)
(* enforceRawDomainPolicy looks for a server name, the destination is kept *)
(* for the whole connection, and an error of Accept is not looked at.      *)
(* InboundIsOutbound shows that every behaviour is one of the outbound     *)
(* server's, so what is proved of Outbound holds here too.                 *)
(***************************************************************************)
EXTENDS Naturals

CONSTANTS Conn, Host        \* as in Outbound

VARIABLES
    inDenied,   \* hosts that the inbound rule of the policy denies now
    at,         \* where each connection's goroutine is
    target,     \* the host of the request in hand, or the destination
    judged,     \* what enforceDomainPolicy said of it
    destConn,   \* the connection to the application
    client,     \* the client's socket: "intact" or "closed"
    inNumOpen,  \* inProxyServer.NumOpen
    stopping,   \* Shutdown: "no", "polling" or "returned"
    panicked    \* the process has ended

inVars == <<inDenied, at, target, judged, destConn, client, inNumOpen, stopping, panicked>>

Init ==
    /\ inDenied \in SUBSET Host
    /\ at = [c \in Conn |-> "new"]
    /\ target \in [Conn -> Host]
    /\ judged = [c \in Conn |-> "none"]
    /\ destConn = [c \in Conn |-> "none"]
    /\ client = [c \in Conn |-> "intact"]
    /\ inNumOpen = 0 /\ stopping = "no" /\ panicked = FALSE

Goes(c, to) == at' = [at EXCEPT ![c] = to] /\ UNCHANGED <<inNumOpen, client>>

\* The goroutine returns: its deferred calls close the sockets and decrement.
Return(c) ==
    /\ at' = [at EXCEPT ![c] = "done"]
    /\ client' = [client EXCEPT ![c] = "closed"]
    /\ inNumOpen' = inNumOpen - 1

Accept(c) ==
    /\ at[c] = "new" /\ Goes(c, "spawned")
    /\ UNCHANGED <<inDenied, target, judged, destConn, stopping, panicked>>

\* The goroutine of a nil connection panics, and util.GO with it the process.
AcceptFails ==
    /\ panicked' = TRUE
    /\ UNCHANGED <<inDenied, at, target, judged, destConn, client, inNumOpen, stopping>>

Count(c) ==
    /\ at[c] = "spawned"
    /\ at' = [at EXCEPT ![c] = "peek"] /\ inNumOpen' = inNumOpen + 1
    /\ UNCHANGED <<inDenied, target, judged, destConn, client, stopping, panicked>>

\* The first bytes are a method of HTTP or not; or there are none in time.
Peek(c) ==
    /\ at[c] = "peek"
    /\ \/ /\ \E h \in Host : target' = [target EXCEPT ![c] = h]
          /\ judged' = [judged EXCEPT ![c] = "none"]
          /\ Goes(c, "httpRequest") \/ Goes(c, "raw")
       \/ Return(c) /\ UNCHANGED <<target, judged>>
    /\ UNCHANGED <<inDenied, destConn, stopping, panicked>>

Judge(c, to) ==
    IF target[c] \in inDenied
    THEN judged' = [judged EXCEPT ![c] = "denied"] /\ Return(c)
    ELSE judged' = [judged EXCEPT ![c] = "allowed"] /\ Goes(c, to)

\* ReadRequest, which may fail, then the policy.
HttpProc2(c) ==
    /\ at[c] = "httpRequest"
    /\ Judge(c, "httpDial") \/ (Return(c) /\ UNCHANGED judged)
    /\ UNCHANGED <<inDenied, target, destConn, stopping, panicked>>

\* Fault: bytes that are not HTTP are relayed without asking the policy.
RawUnjudged(c) ==
    /\ at[c] = "raw" /\ Goes(c, "passthrough")
    /\ UNCHANGED <<inDenied, target, judged, destConn, stopping, panicked>>

\* enforceRawDomainPolicy.
Raw(c) ==
    /\ at[c] = "raw" /\ Judge(c, "passthrough")
    /\ UNCHANGED <<inDenied, target, destConn, stopping, panicked>>

\* net.Dial in proxyHTTPRequest, or in proc.
Dial(c) ==
    /\ at[c] \in {"httpDial", "passthrough"}
    /\ \/ /\ destConn' = [destConn EXCEPT ![c] = "open"]
          /\ Goes(c, IF at[c] = "httpDial" THEN "httpExchange" ELSE "tunnel")
       \/ Return(c) /\ UNCHANGED destConn
    /\ UNCHANGED <<inDenied, target, judged, stopping, panicked>>

\* CONNECT, or an upgraded response.
Upgraded(c) ==
    /\ at[c] = "httpExchange" /\ Goes(c, "tunnel")
    /\ UNCHANGED <<inDenied, target, judged, destConn, stopping, panicked>>

\* proxyHTTPRequest returns nil and the loop goes on, or it returns an error;
\* a tunnel always ends with one.
Relayed(c) ==
    /\ destConn' = [destConn EXCEPT ![c] = "none"]
    /\ \/ at[c] = "httpExchange" /\ Goes(c, "peek")
       \/ at[c] \in {"httpExchange", "tunnel"} /\ Return(c)
    /\ UNCHANGED <<inDenied, target, judged, stopping, panicked>>

Shutdown ==
    /\ \/ stopping = "no" /\ stopping' = "polling"
       \/ stopping = "polling" /\ inNumOpen = 0 /\ stopping' = "returned"
    /\ UNCHANGED <<inDenied, at, target, judged, destConn, client, inNumOpen, panicked>>

\* The policy manager installs another document.
Reconfigure(h) ==
    /\ inDenied' \in {inDenied \cup {h}, inDenied \ {h}}
    /\ UNCHANGED <<at, target, judged, destConn, client, inNumOpen, stopping, panicked>>

Next ==
    /\ ~panicked
    /\ \/ \E c \in Conn : \/ Accept(c) \/ Count(c) \/ Peek(c) \/ HttpProc2(c) \/ Raw(c)
                          \/ Dial(c) \/ Upgraded(c) \/ Relayed(c)
       \/ AcceptFails \/ Shutdown
       \/ \E h \in Host : Reconfigure(h)

Spec == Init /\ [][Next]_inVars

-----------------------------------------------------------------------------
O == INSTANCE Outbound
        WITH denied <- inDenied, mitmHosts <- {}, pc <- at, host <- target,
             verdict <- judged, sni <- [c \in Conn |-> FALSE], upstream <- destConn,
             stream <- client, forwarded <- [c \in Conn |-> {}],
             relayed <- [c \in Conn |-> FALSE], cutShort <- [c \in Conn |-> FALSE],
             NumOpen <- inNumOpen, shutdown <- stopping

\* The second copy of the connection loop (inbound.go:52-121) does nothing that
\* the first does not: no upstream connection without the policy's consent for
\* the request in hand, none left open between requests, a counter that Shutdown
\* can rely on, also when a panic stops everything in the middle.
InboundIsOutbound == O!Spec
=============================================================================
