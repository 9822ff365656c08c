----------------------------- MODULE UdpSessions -----------------------------
(***************************************************************************)
(* The UDP proxy (cmd/proxy/udp.go).  One goroutine runs serve: it reads a *)
(* redirected datagram, finds or dials the session of its flow, and writes *)
(* the datagram to the session's upstream socket.  Every session has a     *)
(* goroutine of its own, proxyReplies, that copies answers back to the     *)
(* client and tears the session down when the upstream falls silent.  The  *)
(* mutex covers getOrCreateSession, getReplyConn, closeSession and         *)
(* Shutdown, so each of them is one step; the reads and writes between     *)
(* them are not covered and interleave freely.                             *)
(***************************************************************************)
EXTENDS FiniteSets

CONSTANTS
    Client,     \* client addresses
    Dst,        \* original destination addresses
    Sid,        \* *udpSession objects; each is allocated at most once
    NoSid,      \* the map holds no session
    NoKey       \* the session object is not allocated yet

ASSUME SidAssumption == NoSid \notin Sid

VARIABLES
    conn,       \* u.conn, the listening socket
    sessions,   \* u.sessions: key -> session object
    keyOf,      \* session.key, immutable once allocated
    upstream,   \* session.upstream
    replyConn,  \* u.replyConn: one transparent socket per original destination
    servePc,    \* where the serve goroutine is
    serveKey,   \* the flow of the datagram that serve holds
    serveSid,   \* the session that getOrCreateSession handed to serve
    replier     \* where each session's proxyReplies goroutine is

vars == <<conn, sessions, keyOf, upstream, replyConn,
          servePc, serveKey, serveSid, replier>>

\* A flow: the key string is "client|original destination".
Key == Client \X Dst
DstOf(k) == k[2]

ASSUME KeyAssumption == NoKey \notin Key

Socket == {"nil", "open", "closed"}
ServePc == {"off", "read", "lookup", "write", "close", "exited"}
ReplierPc == {"none", "read", "getReplyConn", "write", "close", "done"}

TypeOK ==
    /\ conn \in Socket
    /\ sessions \in [Key -> Sid \cup {NoSid}]
    /\ keyOf \in [Sid -> Key \cup {NoKey}]
    /\ upstream \in [Sid -> Socket]
    /\ replyConn \in [Dst -> Socket]
    /\ servePc \in ServePc
    /\ serveKey \in Key \cup {NoKey}
    /\ serveSid \in Sid \cup {NoSid}
    /\ replier \in [Sid -> ReplierPc]

\* NewUDPServer: empty maps, no socket.
Init ==
    /\ conn = "nil"
    /\ sessions = [k \in Key |-> NoSid]
    /\ keyOf = [s \in Sid |-> NoKey]
    /\ upstream = [s \in Sid |-> "nil"]
    /\ replyConn = [d \in Dst |-> "nil"]
    /\ servePc = "off"
    /\ serveKey = NoKey
    /\ serveSid = NoSid
    /\ replier = [s \in Sid |-> "none"]

-----------------------------------------------------------------------------
(***************************************************************************)
(* Startup and Shutdown.  A failing Startup leaves no state behind and is  *)
(* not an action.  Shutdown closes every socket that the maps hold, but    *)
(* leaves the entries in the maps.                                         *)
(***************************************************************************)

Startup ==
    /\ conn = "nil"
    /\ conn' = "open"
    /\ servePc' = "read"
    /\ UNCHANGED <<sessions, keyOf, upstream, replyConn, serveKey, serveSid, replier>>

Mapped == {sessions[k] : k \in Key}

\* Fault: Shutdown stops listening but forgets the upstream sockets.
ShutdownKeepsUpstreams ==
    /\ conn = "open"
    /\ conn' = "closed"
    /\ UNCHANGED <<sessions, keyOf, upstream, replyConn, servePc, serveKey, serveSid, replier>>

Shutdown ==
    /\ conn = "open"
    /\ conn' = "closed"
    /\ upstream' = [s \in Sid |-> IF s \in Mapped THEN "closed" ELSE upstream[s]]
    /\ replyConn' = [d \in Dst |->
                       IF replyConn[d] # "nil" THEN "closed" ELSE "nil"]
    /\ UNCHANGED <<sessions, keyOf, servePc, serveKey, serveSid, replier>>

\* Fault: the socket is closed, the entry stays.
CloseSessionCloseOnly(k) ==
    /\ upstream' = [s \in Sid |-> IF s = sessions[k] THEN "closed" ELSE upstream[s]]
    /\ UNCHANGED sessions

\* Fault: sessions are matched by destination instead of by the whole key.
CloseSessionByDst(k) ==
    LET hit == {l \in Key : DstOf(l) = DstOf(k)} IN
    /\ upstream' = [s \in Sid |-> IF \E l \in hit : s = sessions[l] THEN "closed"
                                                               ELSE upstream[s]]
    /\ sessions' = [l \in Key |-> IF l \in hit THEN NoSid ELSE sessions[l]]

\* closeSession(key): the session is looked up by key, whoever the caller is.
CloseSession(k) ==
    /\ upstream' = [s \in Sid |-> IF s = sessions[k] THEN "closed" ELSE upstream[s]]
    /\ sessions' = [sessions EXCEPT ![k] = NoSid]

-----------------------------------------------------------------------------
(***************************************************************************)
(* The serve goroutine.  A datagram whose original destination cannot be   *)
(* parsed is dropped without any change of state.                          *)
(***************************************************************************)

ServeRecv(k) ==
    /\ servePc = "read"
    /\ conn = "open"
    /\ servePc' = "lookup"
    /\ serveKey' = k
    /\ UNCHANGED <<conn, sessions, keyOf, upstream, replyConn, serveSid, replier>>

\* Any read error ends the loop; on a closed socket the read must fail.
ServeExit ==
    /\ servePc = "read"
    /\ servePc' = "exited"
    /\ UNCHANGED <<conn, sessions, keyOf, upstream, replyConn, serveKey, serveSid, replier>>

ServeFound ==
    /\ servePc = "lookup"
    /\ sessions[serveKey] # NoSid
    /\ serveSid' = sessions[serveKey]
    /\ servePc' = "write"
    /\ UNCHANGED <<conn, sessions, keyOf, upstream, replyConn, serveKey, replier>>

\* DialUDP succeeded: the new session enters the map and its goroutine starts.
ServeCreate(s) ==
    /\ servePc = "lookup"
    /\ sessions[serveKey] = NoSid
    /\ upstream[s] = "nil"
    /\ upstream' = [upstream EXCEPT ![s] = "open"]
    /\ keyOf' = [keyOf EXCEPT ![s] = serveKey]
    /\ sessions' = [sessions EXCEPT ![serveKey] = s]
    /\ replier' = [replier EXCEPT ![s] = "read"]
    /\ serveSid' = s
    /\ servePc' = "write"
    /\ UNCHANGED <<conn, replyConn, serveKey>>

ServeDialFailed ==
    /\ servePc = "lookup"
    /\ sessions[serveKey] = NoSid
    /\ servePc' = "read"
    /\ UNCHANGED <<conn, sessions, keyOf, upstream, replyConn, serveKey, serveSid, replier>>

\* The write is outside the mutex: the session may have been closed meanwhile.
ServeWrite ==
    /\ servePc = "write"
    /\ \/ upstream[serveSid] = "open" /\ servePc' = "read"
       \/ servePc' = "close"
    /\ UNCHANGED <<conn, sessions, keyOf, upstream, replyConn, serveKey, serveSid, replier>>

ServeClose ==
    /\ servePc = "close"
    /\ CloseSession(keyOf[serveSid])
    /\ servePc' = "read"
    /\ UNCHANGED <<conn, keyOf, replyConn, serveKey, serveSid, replier>>

-----------------------------------------------------------------------------
(***************************************************************************)
(* proxyReplies(session s).                                                *)
(***************************************************************************)

ReplierGoes(s, pc) == replier' = [replier EXCEPT ![s] = pc]

\* A datagram from the upstream peer.
ReplyArrives(s) ==
    /\ replier[s] = "read"
    /\ upstream[s] = "open"
    /\ ReplierGoes(s, "getReplyConn")
    /\ UNCHANGED <<conn, sessions, keyOf, upstream, replyConn, servePc, serveKey, serveSid>>

\* Fault: a read error is retried instead of ending the session.
ReplyReadRetried(s) ==
    /\ replier[s] = "read"
    /\ UNCHANGED vars

\* The idle deadline passed, the peer is unreachable, or the socket is closed.
ReplyReadFailed(s) ==
    /\ replier[s] = "read"
    /\ ReplierGoes(s, "close")
    /\ UNCHANGED <<conn, sessions, keyOf, upstream, replyConn, servePc, serveKey, serveSid>>

\* getReplyConn: cached for ever, a closed socket included; else bound afresh.
GetReplyConn(s) ==
    LET d == DstOf(keyOf[s]) IN
    /\ replier[s] = "getReplyConn"
    /\ \/ /\ replyConn[d] # "nil"
          /\ ReplierGoes(s, "write")
          /\ UNCHANGED replyConn
       \/ /\ replyConn[d] = "nil"
          /\ ReplierGoes(s, "write")
          /\ replyConn' = [replyConn EXCEPT ![d] = "open"]
       \/ /\ replyConn[d] = "nil"
          /\ ReplierGoes(s, "close")
          /\ UNCHANGED replyConn
    /\ UNCHANGED <<conn, sessions, keyOf, upstream, servePc, serveKey, serveSid>>

ReplyWrite(s) ==
    /\ replier[s] = "write"
    /\ \/ replyConn[DstOf(keyOf[s])] = "open" /\ ReplierGoes(s, "read")
       \/ ReplierGoes(s, "close")
    /\ UNCHANGED <<conn, sessions, keyOf, upstream, replyConn, servePc, serveKey, serveSid>>

ReplierClose(s) ==
    /\ replier[s] = "close"
    /\ CloseSession(keyOf[s])
    /\ ReplierGoes(s, "done")
    /\ UNCHANGED <<conn, keyOf, replyConn, servePc, serveKey, serveSid>>

-----------------------------------------------------------------------------
Serve ==
    \/ \E k \in Key : ServeRecv(k)
    \/ ServeExit
    \/ ServeFound
    \/ \E s \in Sid : ServeCreate(s)
    \/ ServeDialFailed
    \/ ServeWrite
    \/ ServeClose

ProxyReplies(s) ==
    \/ ReplyArrives(s)
    \/ ReplyReadFailed(s)
    \/ GetReplyConn(s)
    \/ ReplyWrite(s)
    \/ ReplierClose(s)

Next ==
    \/ Startup
    \/ Shutdown
    \/ Serve
    \/ \E s \in Sid : ProxyReplies(s)

Spec == Init /\ [][Next]_vars

\* The read deadline makes every step of a reply goroutine return, so each
\* of them keeps being scheduled.  Nothing is assumed about serve, whose
\* read has no deadline, nor about Startup and Shutdown.
Fairness == \A s \in Sid : WF_vars(ProxyReplies(s))

FairSpec == Spec /\ Fairness

-----------------------------------------------------------------------------
(***************************************************************************)
(* Properties                                                              *)
(***************************************************************************)

IsOpen(s) == upstream[s] = "open"

\* No socket leaks out of the map: an open upstream socket is always the one
\* that u.sessions holds for its flow, so closeSession can still find it and
\* no flow ever owns two sockets (getOrCreateSession against closeSession).
OpenIsMapped == \A s \in Sid : IsOpen(s) => sessions[keyOf[s]] = s

\* Every open upstream socket has a running proxyReplies goroutine.  If one
\* could return and leave its socket open, nobody would read the answers and
\* nobody would ever time the session out (udp.go:147-172, 211-221).
OpenHasReplier == \A s \in Sid : IsOpen(s) => replier[s] \notin {"none", "done"}

\* Until Shutdown, the map never hands serve a session that is already
\* closed: close and delete are one critical section (udp.go:211-221).
MappedIsOpen ==
    conn # "closed" =>
        \A k \in Key : sessions[k] # NoSid => IsOpen(sessions[k])

\* Sockets, map and goroutines account for each other at every interleaving
\* of serve, the reply goroutines and Shutdown: no socket is lost, unread or
\* handed out after it was closed.
SessionsAccounted == OpenIsMapped /\ OpenHasReplier /\ MappedIsOpen

\* Shutdown does not wait for serve, so the datagram in flight may still dial
\* a session after every socket has been closed; but never a second one.
OneStragglerAfterShutdown ==
    conn = "closed" => \A s, t \in Sid : IsOpen(s) /\ IsOpen(t) => s = t

\* closeSession works by key, so the goroutine of a dead session may close
\* the session that replaced it; it never closes a session of another flow.
\* An open socket is closed by Shutdown or by a failed actor of its own flow.
FlowIsolation ==
    [][\A s \in Sid : IsOpen(s) /\ upstream'[s] = "closed" =>
          \/ conn' # conn
          \/ servePc = "close" /\ keyOf[serveSid] = keyOf[s]
          \/ \E t \in Sid : /\ replier[t] = "close" /\ replier'[t] = "done"
                            /\ keyOf[t] = keyOf[s]]_vars

\* Idle sessions are reaped: once the upstream peers send nothing more, every
\* session is eventually closed and its goroutine returns, Shutdown or not
\* (the read deadline of udp.go:151, then closeSession).
Silent == <>[][~ \E s \in Sid : ReplyArrives(s)]_vars
SilentSessionsAreReaped ==
    Silent => \A s \in Sid : IsOpen(s) ~> (upstream[s] = "closed" /\ replier[s] = "done")
=============================================================================
