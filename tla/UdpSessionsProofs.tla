-------------------------- MODULE UdpSessionsProofs --------------------------
(***************************************************************************)
(* Proofs about the UDP proxy for any sets of clients, destinations and    *)
(* session objects.  The four safety invariants of UdpSessions are proved  *)
(* together, because each needs the others: a reply goroutine may end only *)
(* if its socket is closed, which needs the map to hold every open socket. *)
(***************************************************************************)
EXTENDS UdpSessions, TLAPS

-----------------------------------------------------------------------------
(***************************************************************************)
(* The inductive invariant                                                 *)
(***************************************************************************)

\* A mapped session is an allocated one, and is stored under its own key.
MapKeyed ==
    \A k \in Key : sessions[k] # NoSid =>
        /\ keyOf[sessions[k]] = k
        /\ upstream[sessions[k]] # "nil"

\* A session object gets its key, its socket and its goroutine together.
AllocatedTogether ==
    \A s \in Sid : /\ upstream[s] # "nil" <=> keyOf[s] \in Key
                   /\ upstream[s] # "nil" <=> replier[s] # "none"

\* What serve holds at each point of its loop.
ServeHolds ==
    /\ servePc = "lookup" => serveKey \in Key
    /\ servePc \in {"write", "close"} =>
           serveSid \in Sid /\ upstream[serveSid] # "nil"
    /\ conn = "nil" => servePc = "off"

\* After Shutdown, a datagram still to be looked up finds every socket closed.
StragglerOnlyFromLookup ==
    conn = "closed" /\ servePc = "lookup" => \A s \in Sid : ~IsOpen(s)

Inv ==
    /\ TypeOK
    /\ OpenIsMapped
    /\ OpenHasReplier
    /\ MappedIsOpen
    /\ OneStragglerAfterShutdown
    /\ MapKeyed
    /\ AllocatedTogether
    /\ ServeHolds
    /\ StragglerOnlyFromLookup

-----------------------------------------------------------------------------
(***************************************************************************)
(* Lemmas                                                                  *)
(***************************************************************************)

\* NewUDPServer establishes the invariant.
LEMMA InitInv == Init => Inv
BY SidAssumption, KeyAssumption
   DEF Init, Inv, TypeOK, Socket, ServePc, ReplierPc, OpenIsMapped, OpenHasReplier,
       MappedIsOpen, OneStragglerAfterShutdown, MapKeyed, AllocatedTogether,
       ServeHolds, StragglerOnlyFromLookup, IsOpen

\* closeSession(k) keeps the two maps consistent, whichever actor calls it,
\* and leaves open exactly the sockets that belong to other flows.
LEMMA CloseSessionKeeps ==
    ASSUME Inv, NEW k \in Key, CloseSession(k), UNCHANGED <<conn, keyOf>>
    PROVE  /\ upstream' \in [Sid -> Socket]
           /\ sessions' \in [Key -> Sid \cup {NoSid}]
           /\ \A s \in Sid : upstream'[s] = "nil" <=> upstream[s] = "nil"
           /\ \A s \in Sid : IsOpen(s)' => IsOpen(s) /\ keyOf[s] # k
           /\ OpenIsMapped'
           /\ MappedIsOpen'
           /\ MapKeyed'
<1> USE SidAssumption, KeyAssumption
<1>1. /\ upstream' \in [Sid -> Socket]
      /\ sessions' \in [Key -> Sid \cup {NoSid}]
  BY DEF Inv, TypeOK, Socket, CloseSession
<1>2. \A s \in Sid : upstream'[s] = "nil" <=> upstream[s] = "nil"
  BY DEF Inv, TypeOK, CloseSession, MapKeyed
<1>3. \A s \in Sid : IsOpen(s)' => IsOpen(s) /\ keyOf[s] # k
  BY DEF Inv, TypeOK, CloseSession, OpenIsMapped, IsOpen
<1>4. OpenIsMapped'
  BY <1>3 DEF Inv, TypeOK, CloseSession, OpenIsMapped, IsOpen, AllocatedTogether
<1>5. MappedIsOpen'
  BY DEF Inv, TypeOK, CloseSession, MappedIsOpen, IsOpen, MapKeyed
<1>6. MapKeyed'
  BY <1>2 DEF Inv, TypeOK, CloseSession, MapKeyed
<1> QED BY <1>1, <1>2, <1>3, <1>4, <1>5, <1>6

-----------------------------------------------------------------------------
(***************************************************************************)
(* Every step preserves the invariant                                      *)
(***************************************************************************)

LEMMA NextInv == Inv /\ [Next]_vars => Inv'
<1> SUFFICES ASSUME Inv, [Next]_vars PROVE Inv'
  OBVIOUS
<1> USE SidAssumption, KeyAssumption
<1> USE DEF Inv
<1>1. CASE Startup
  BY <1>1 DEF Startup, TypeOK, Socket, ServePc, OpenIsMapped, OpenHasReplier,
     MappedIsOpen, OneStragglerAfterShutdown, MapKeyed, AllocatedTogether,
     ServeHolds, StragglerOnlyFromLookup, IsOpen
<1>2. CASE Shutdown
  <2> USE <1>2 DEF Shutdown
  <2>1. TypeOK'
    BY DEF TypeOK, Socket
  <2>2. \A s \in Sid : ~IsOpen(s)'
    BY DEF TypeOK, IsOpen, OpenIsMapped, AllocatedTogether, Mapped
  <2>3. \A s \in Sid : upstream'[s] = "nil" <=> upstream[s] = "nil"
    BY DEF TypeOK, MapKeyed, Mapped
  <2>4. MapKeyed' /\ AllocatedTogether' /\ ServeHolds'
    BY <2>3 DEF TypeOK, MapKeyed, AllocatedTogether, ServeHolds
  <2> QED BY <2>1, <2>2, <2>4 DEF OpenIsMapped, OpenHasReplier, MappedIsOpen,
             OneStragglerAfterShutdown, StragglerOnlyFromLookup, IsOpen
<1>3. ASSUME NEW k \in Key, ServeRecv(k) PROVE Inv'
  BY <1>3 DEF ServeRecv, TypeOK, ServePc, OpenIsMapped, OpenHasReplier,
     MappedIsOpen, OneStragglerAfterShutdown, MapKeyed, AllocatedTogether,
     ServeHolds, StragglerOnlyFromLookup, IsOpen
<1>4. CASE ServeExit \/ ServeDialFailed
  BY <1>4 DEF ServeExit, ServeDialFailed, TypeOK, ServePc, OpenIsMapped, OpenHasReplier,
     MappedIsOpen, OneStragglerAfterShutdown, MapKeyed, AllocatedTogether,
     ServeHolds, StragglerOnlyFromLookup, IsOpen
<1>5. CASE ServeFound
  BY <1>5 DEF ServeFound, TypeOK, ServePc, OpenIsMapped, OpenHasReplier,
     MappedIsOpen, OneStragglerAfterShutdown, MapKeyed, AllocatedTogether,
     ServeHolds, StragglerOnlyFromLookup, IsOpen
<1>6. ASSUME NEW s \in Sid, ServeCreate(s) PROVE Inv'
  <2> USE <1>6 DEF ServeCreate
  <2>1. serveKey \in Key
    BY DEF ServeHolds
  <2>2. TypeOK'
    BY <2>1 DEF TypeOK, Socket, ServePc, ReplierPc
  <2>3. \A k \in Key : sessions[k] # s
    BY DEF MapKeyed
  <2>4. OpenIsMapped' /\ OpenHasReplier'
    BY <2>1, <2>3 DEF TypeOK, OpenIsMapped, OpenHasReplier, IsOpen, AllocatedTogether
  <2>5. MappedIsOpen' /\ MapKeyed'
    BY <2>1, <2>3 DEF TypeOK, MappedIsOpen, MapKeyed, IsOpen
  <2>6. OneStragglerAfterShutdown' /\ StragglerOnlyFromLookup'
    BY DEF TypeOK, OneStragglerAfterShutdown, StragglerOnlyFromLookup, IsOpen
  <2>7. AllocatedTogether' /\ ServeHolds'
    BY <2>1 DEF TypeOK, AllocatedTogether, ServeHolds
  <2> QED BY <2>2, <2>4, <2>5, <2>6, <2>7
<1>7. CASE ServeWrite
  BY <1>7 DEF ServeWrite, TypeOK, ServePc, OpenIsMapped, OpenHasReplier,
     MappedIsOpen, OneStragglerAfterShutdown, MapKeyed, AllocatedTogether,
     ServeHolds, StragglerOnlyFromLookup, IsOpen
<1>8. CASE ServeClose
  <2> USE <1>8 DEF ServeClose
  <2> DEFINE k == keyOf[serveSid]
  <2>1. k \in Key
    BY DEF ServeHolds, AllocatedTogether
  <2>2. /\ upstream' \in [Sid -> Socket]
        /\ sessions' \in [Key -> Sid \cup {NoSid}]
        /\ \A s \in Sid : upstream'[s] = "nil" <=> upstream[s] = "nil"
        /\ \A s \in Sid : IsOpen(s)' => IsOpen(s)
        /\ OpenIsMapped' /\ MappedIsOpen' /\ MapKeyed'
    BY <2>1, CloseSessionKeeps
  <2>3. TypeOK'
    BY <2>2 DEF TypeOK, ServePc
  <2>4. OpenHasReplier' /\ OneStragglerAfterShutdown' /\ StragglerOnlyFromLookup'
    BY <2>2 DEF OpenHasReplier, OneStragglerAfterShutdown, StragglerOnlyFromLookup
  <2>5. AllocatedTogether' /\ ServeHolds'
    BY <2>2 DEF AllocatedTogether, ServeHolds
  <2> QED BY <2>2, <2>3, <2>4, <2>5
<1>9. ASSUME NEW s \in Sid, ReplyArrives(s) \/ ReplyReadFailed(s) \/ ReplyWrite(s)
      PROVE Inv'
  BY <1>9 DEF ReplyArrives, ReplyReadFailed, ReplyWrite, ReplierGoes, TypeOK, ReplierPc,
     OpenIsMapped, OpenHasReplier, MappedIsOpen, OneStragglerAfterShutdown, MapKeyed,
     AllocatedTogether, ServeHolds, StragglerOnlyFromLookup, IsOpen
<1>10. ASSUME NEW s \in Sid, GetReplyConn(s) PROVE Inv'
  BY <1>10 DEF GetReplyConn, ReplierGoes, TypeOK, ReplierPc, Socket,
     OpenIsMapped, OpenHasReplier, MappedIsOpen, OneStragglerAfterShutdown, MapKeyed,
     AllocatedTogether, ServeHolds, StragglerOnlyFromLookup, IsOpen
<1>11. ASSUME NEW s \in Sid, ReplierClose(s) PROVE Inv'
  <2> USE <1>11 DEF ReplierClose
  <2>1. keyOf[s] \in Key
    BY DEF AllocatedTogether
  <2>2. /\ upstream' \in [Sid -> Socket]
        /\ sessions' \in [Key -> Sid \cup {NoSid}]
        /\ \A t \in Sid : upstream'[t] = "nil" <=> upstream[t] = "nil"
        /\ \A t \in Sid : IsOpen(t)' => IsOpen(t) /\ keyOf[t] # keyOf[s]
        /\ OpenIsMapped' /\ MappedIsOpen' /\ MapKeyed'
    BY <2>1, CloseSessionKeeps
  <2>3. TypeOK'
    BY <2>2 DEF TypeOK, ReplierPc, ReplierGoes
  <2>4. OpenHasReplier'
    \* The goroutine is done, and by <2>2 its own socket is not open any more.
    BY <2>2 DEF OpenHasReplier, ReplierGoes, TypeOK
  <2>5. OneStragglerAfterShutdown' /\ StragglerOnlyFromLookup'
    BY <2>2 DEF OneStragglerAfterShutdown, StragglerOnlyFromLookup
  <2>6. AllocatedTogether' /\ ServeHolds'
    BY <2>2 DEF AllocatedTogether, ServeHolds, ReplierGoes, TypeOK
  <2> QED BY <2>2, <2>3, <2>4, <2>5, <2>6
<1>12. CASE UNCHANGED vars
  BY <1>12 DEF vars, TypeOK, OpenIsMapped, OpenHasReplier, MappedIsOpen,
     OneStragglerAfterShutdown, MapKeyed, AllocatedTogether, ServeHolds,
     StragglerOnlyFromLookup, IsOpen
<1> QED BY <1>1, <1>2, <1>3, <1>4, <1>5, <1>6, <1>7, <1>8, <1>9, <1>10, <1>11, <1>12
        DEF Next, Serve, ProxyReplies

LEMMA SpecInv == Spec => []Inv
BY InitInv, NextInv, PTL DEF Spec

-----------------------------------------------------------------------------
(***************************************************************************)
(* Theorems                                                                *)
(***************************************************************************)

\* Type correctness of the UDP proxy's sockets, maps and goroutines.
THEOREM UdpTypeCorrect == Spec => []TypeOK
BY SpecInv, PTL DEF Inv

\* An upstream socket that is open is in u.sessions under its own key and has
\* a running proxyReplies goroutine; before Shutdown, getOrCreateSession never
\* returns a closed session.
THEOREM UdpSessionsAccounted == Spec => []SessionsAccounted
BY SpecInv, PTL DEF Inv, SessionsAccounted

\* After Shutdown at most one session, dialled for the datagram in flight, is open.
THEOREM UdpOneStraggler == Spec => []OneStragglerAfterShutdown
BY SpecInv, PTL DEF Inv

\* closeSession never closes a socket of a flow other than the failed one.
THEOREM UdpFlowIsolation == Spec => FlowIsolation
<1> DEFINE A == \A s \in Sid : IsOpen(s) /\ upstream'[s] = "closed" =>
                  \/ conn' # conn
                  \/ servePc = "close" /\ keyOf[serveSid] = keyOf[s]
                  \/ \E t \in Sid : /\ replier[t] = "close" /\ replier'[t] = "done"
                                    /\ keyOf[t] = keyOf[s]
<1>1. Inv /\ [Next]_vars => [A]_vars
  <2> SUFFICES ASSUME Inv, Next, NEW s \in Sid, IsOpen(s), upstream'[s] = "closed"
               PROVE  \/ conn' # conn
                      \/ servePc = "close" /\ keyOf[serveSid] = keyOf[s]
                      \/ \E t \in Sid : /\ replier[t] = "close" /\ replier'[t] = "done"
                                        /\ keyOf[t] = keyOf[s]
    OBVIOUS
  <2> USE SidAssumption, KeyAssumption DEF IsOpen
  <2>1. CASE Startup \/ Shutdown
    BY <2>1 DEF Startup, Shutdown
  <2>2. CASE Serve /\ ~ServeClose
    BY <2>2 DEF Serve, ServeRecv, ServeExit, ServeFound, ServeCreate,
       ServeDialFailed, ServeWrite, Inv, TypeOK
  <2>3. CASE ServeClose
    <3>1. keyOf[serveSid] \in Key
      BY <2>3 DEF ServeClose, Inv, ServeHolds, AllocatedTogether
    <3>2. s = sessions[keyOf[serveSid]]
      BY <2>3, <3>1 DEF ServeClose, CloseSession, Inv, TypeOK
    <3> QED BY <2>3, <3>1, <3>2 DEF ServeClose, Inv, MapKeyed
  <2>4. ASSUME NEW t \in Sid, ProxyReplies(t), ~ReplierClose(t) PROVE FALSE
    BY <2>4 DEF ProxyReplies, ReplyArrives, ReplyReadFailed, GetReplyConn, ReplyWrite
  <2>5. ASSUME NEW t \in Sid, ReplierClose(t)
        PROVE  /\ replier[t] = "close" /\ replier'[t] = "done"
               /\ keyOf[t] = keyOf[s]
    <3>1. keyOf[t] \in Key
      BY <2>5 DEF ReplierClose, Inv, AllocatedTogether
    <3>2. s = sessions[keyOf[t]]
      BY <2>5, <3>1 DEF ReplierClose, CloseSession, Inv, TypeOK
    <3>3. keyOf[t] = keyOf[s]
      BY <3>1, <3>2 DEF Inv, MapKeyed
    <3> QED BY <2>5, <3>3 DEF ReplierClose, ReplierGoes, Inv, TypeOK
  <2> QED BY <2>1, <2>2, <2>3, <2>4, <2>5 DEF Next
<1> QED BY <1>1, SpecInv, PTL DEF Spec, FlowIsolation
=============================================================================
