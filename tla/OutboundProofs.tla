--------------------------- MODULE OutboundProofs ---------------------------
(***************************************************************************)
(* Proofs about the outbound proxy, for any finite set of connections and  *)
(* any set of hosts: the policy is asked on every path before a dial, an   *)
(* intercepted connection only forwards requests for the host that was     *)
(* judged, an upstream socket is left behind on one path only, and the    *)
(* counter that Shutdown polls is exact.  The inbound proxy is shown to    *)
(* implement it.  Then the HTTP exchanges, for any requests and responses  *)
(* that keep to the framing of HTTP.                                       *)
(***************************************************************************)
EXTENDS MCOutbound, FiniteSetTheorems, SequenceTheorems, TLAPS

-----------------------------------------------------------------------------
(***************************************************************************)
(* The inductive invariant                                                 *)
(***************************************************************************)

Judged == {"httpDial", "httpExchange", "mitmCertificate", "mitmHandshake", "mitmDetect",
           "mitmHttp", "mitmDial", "mitmTunnel", "fallback", "passthrough", "tunnel"}
MayHoldUpstream == {"httpExchange", "mitmHttp", "mitmTunnel", "tunnel"}
Intercepted == {"mitmDetect", "mitmHttp", "mitmDial", "mitmTunnel"}

\* Past the policy, the verdict in hand is "allowed"; it is only reset by the
\* next Peek, when the connection is back in front of the policy.
JudgedIsAllowed == \A c \in Conn : pc[c] \in Judged => verdict[c] = "allowed"

\* The positions at which an upstream socket may be open; at the end, only
\* one of a judged connection that was cut short.
UpstreamIsHeld ==
    \A c \in Conn : upstream[c] # "none" =>
        \/ pc[c] \in MayHoldUpstream
        \/ pc[c] = "done" /\ cutShort[c] /\ verdict[c] = "allowed"

\* Past the handshake the ClientHello is known to have named its host.
InterceptedHasName == \A c \in Conn : pc[c] \in Intercepted => sni[c]

\* A connection that has forwarded a MITM request never goes back to Peek.
ForwardedStays ==
    \A c \in Conn : forwarded[c] # {} => pc[c] \in {"mitmHttp", "done"}

\* Everything about types except the counter, whose range follows from its
\* being exact.
ConnTypes ==
    /\ denied \subseteq Host
    /\ mitmHosts \subseteq Host
    /\ pc \in [Conn -> Waiting \cup Counted \cup {"done"}]
    /\ host \in [Conn -> Host]
    /\ verdict \in [Conn -> {"none", "allowed", "denied"}]
    /\ sni \in [Conn -> BOOLEAN]
    /\ upstream \in [Conn -> {"none", "open", "busy"}]
    /\ stream \in [Conn -> {"intact", "touched", "closed"}]
    /\ forwarded \in [Conn -> SUBSET Host]
    /\ relayed \in [Conn -> BOOLEAN]
    /\ cutShort \in [Conn -> BOOLEAN]
    /\ shutdown \in {"no", "polling", "returned"}

Inv ==
    /\ ConnTypes
    /\ JudgedIsAllowed
    /\ UpstreamIsHeld
    /\ InterceptedHasName
    /\ ForwardedStays
    /\ ForwardedWasJudged
    /\ NumOpenIsExact

-----------------------------------------------------------------------------
(***************************************************************************)
(* The counter                                                             *)
(***************************************************************************)

CountedConns == {c \in Conn : pc[c] \in Counted}

\* What a step does to the counter: nothing, and then it moves no goroutine
\* into or out of the counted part; or it counts one in, or one out.
CounterStep ==
    \/ CountedConns' = CountedConns /\ NumOpen' = NumOpen
    \/ \E c \in Conn : /\ c \notin CountedConns
                       /\ CountedConns' = CountedConns \cup {c}
                       /\ NumOpen' = NumOpen + 1
    \/ \E c \in Conn : /\ c \in CountedConns
                       /\ CountedConns' = CountedConns \ {c}
                       /\ NumOpen' = NumOpen - 1

LEMMA CountedFinite == IsFiniteSet(CountedConns)
BY ConnAssumption, FS_Subset DEF CountedConns

LEMMA GoesCounts ==
    ASSUME ConnTypes, NEW c \in Conn, NEW to, Goes(c, to), pc[c] \in Counted <=> to \in Counted
    PROVE  CounterStep
BY DEF ConnTypes, Goes, CounterStep, CountedConns

LEMMA ReturnCounts ==
    ASSUME ConnTypes, NEW c \in Conn, Return(c), pc[c] \in Counted
    PROVE  CounterStep
<1>1. CountedConns' = CountedConns \ {c}
  BY DEF ConnTypes, Return, CountedConns, Counted
<1> QED BY <1>1 DEF CounterStep, Return, CountedConns

\* A step that counts as CounterStep says keeps the counter exact.
LEMMA CounterExact ==
    ASSUME NumOpenIsExact, CounterStep
    PROVE  NumOpenIsExact'
<1> USE CountedFinite
<1>0. NumOpenIsExact <=> NumOpen = Cardinality(CountedConns)
  BY DEF NumOpenIsExact, CountedConns
<1>1. NumOpenIsExact' <=> NumOpen' = Cardinality(CountedConns')
  BY DEF NumOpenIsExact, CountedConns
<1>2. Cardinality(CountedConns) \in Nat
  BY FS_CardinalityType
<1>3. CASE CountedConns' = CountedConns /\ NumOpen' = NumOpen
  BY <1>0, <1>1, <1>3
<1>4. ASSUME NEW c \in Conn, c \notin CountedConns,
             CountedConns' = CountedConns \cup {c}, NumOpen' = NumOpen + 1
      PROVE  NumOpenIsExact'
  BY <1>0, <1>1, <1>4, FS_AddElement
<1>5. ASSUME NEW c \in Conn, c \in CountedConns,
             CountedConns' = CountedConns \ {c}, NumOpen' = NumOpen - 1
      PROVE  NumOpenIsExact'
  BY <1>0, <1>1, <1>2, <1>5, FS_RemoveElement
<1> QED BY <1>3, <1>4, <1>5 DEF CounterStep

\* Every step counts as CounterStep says, whatever path the goroutine returns by.
LEMMA NextCounts ==
    ASSUME ConnTypes, Next
    PROVE  CounterStep
<1>1. ASSUME NEW c \in Conn, Accept(c) \/ Goroutine(c) PROVE CounterStep
  <2>1. CASE Count(c)
    <3>1. c \notin CountedConns
      BY <2>1 DEF Count, CountedConns, Counted
    <3>2. CountedConns' = CountedConns \cup {c}
      BY <2>1 DEF Count, CountedConns, Counted, ConnTypes
    <3> QED BY <2>1, <3>1, <3>2 DEF Count, CounterStep
  <2>2. CASE Accept(c)
    BY <2>2, GoesCounts DEF Accept, Counted
  <2>3. CASE \E h \in Host : Peek(c, h)
    BY <2>3, GoesCounts DEF Peek, Counted
  <2>4. CASE PeekFailed(c)
    BY <2>4, ReturnCounts DEF PeekFailed, Counted
  <2>5. CASE HttpJudge(c)
    BY <2>5, GoesCounts, ReturnCounts DEF HttpJudge, EnforceDomainPolicy, Counted
  <2>6. CASE HttpDial(c)
    BY <2>6, GoesCounts, ReturnCounts DEF HttpDial, Counted
  <2>7. CASE HttpUpgrade(c) \/ HttpKeepAlive(c)
    BY <2>7, GoesCounts DEF HttpUpgrade, HttpKeepAlive, Counted
  <2>8. CASE HttpEnd(c)
    BY <2>8, ReturnCounts DEF HttpEnd, Counted
  <2>9. CASE HelloJudge(c) \/ RawJudge(c)
    BY <2>9, GoesCounts, ReturnCounts DEF HelloJudge, RawJudge, EnforceDomainPolicy, Counted
  <2>10. CASE MitmCertificate(c) \/ MitmHandshake(c)
    BY <2>10, GoesCounts DEF MitmCertificate, MitmHandshake, Counted
  <2>11. CASE MitmDetect(c)
    BY <2>11, GoesCounts DEF MitmDetect, MitmFails, Counted
  <2>12. CASE (\E h \in Host : MitmRequest(c, h)) \/ MitmResponse(c) \/ LateResponse(c)
    BY <2>12 DEF MitmRequest, MitmResponse, LateResponse, CounterStep, CountedConns
  <2>13. CASE MitmHttpEnd(c)
    BY <2>13, ReturnCounts DEF MitmHttpEnd, Counted
  <2>14. CASE MitmDial(c)
    BY <2>14, GoesCounts DEF MitmDial, MitmFails, Counted
  <2>15. CASE MitmTunnelEnd(c)
    BY <2>15, GoesCounts DEF MitmTunnelEnd, MitmFails, Counted
  <2>16. CASE PassthroughDial(c)
    BY <2>16, GoesCounts, ReturnCounts DEF PassthroughDial, Counted
  <2>17. CASE TunnelEnd(c)
    BY <2>17, ReturnCounts DEF TunnelEnd, Counted
  <2> QED BY <1>1, <2>1, <2>2, <2>3, <2>4, <2>5, <2>6, <2>7, <2>8, <2>9, <2>10, <2>11,
             <2>12, <2>13, <2>14, <2>15, <2>16, <2>17 DEF Goroutine
<1>2. ASSUME Shutdown \/ ShutdownReturns \/ \E h \in Host : Reconfigure(h)
      PROVE  CounterStep
  BY <1>2 DEF Shutdown, ShutdownReturns, Reconfigure, connVars, CounterStep, CountedConns
<1> QED BY <1>1, <1>2 DEF Next

-----------------------------------------------------------------------------
(***************************************************************************)
(* The connections                                                         *)
(***************************************************************************)

\* No connection is accepted and nothing is judged yet.
LEMMA InitInv == Init => Inv
<1> SUFFICES ASSUME Init PROVE Inv
  OBVIOUS
<1>1. ConnTypes
  BY DEF Init, ConnTypes, Waiting
<1>2. JudgedIsAllowed /\ UpstreamIsHeld /\ InterceptedHasName
  BY DEF Init, JudgedIsAllowed, UpstreamIsHeld, InterceptedHasName, Judged, Intercepted
<1>3. ForwardedStays /\ ForwardedWasJudged
  BY DEF Init, ForwardedStays, ForwardedWasJudged
<1>4. NumOpenIsExact
  <2>1. {c \in Conn : pc[c] \in Counted} = {}
    BY DEF Init, Counted
  <2> QED BY <2>1, FS_EmptySet DEF Init, NumOpenIsExact
<1> QED BY <1>1, <1>2, <1>3, <1>4 DEF Inv

\* What holds of a connection between two of its steps.
ConnInv(c) ==
    /\ pc[c] \in Judged => verdict[c] = "allowed"
    /\ upstream[c] # "none" =>
          \/ pc[c] \in MayHoldUpstream
          \/ pc[c] = "done" /\ cutShort[c] /\ verdict[c] = "allowed"
    /\ pc[c] \in Intercepted => sni[c]
    /\ forwarded[c] # {} => pc[c] \in {"mitmHttp", "done"}
    /\ forwarded[c] \subseteq {host[c]}

\* A step of connection c leaves the other connections alone.
OthersUnchanged(c) ==
    \A d \in Conn \ {c} :
        /\ pc'[d] = pc[d] /\ verdict'[d] = verdict[d] /\ upstream'[d] = upstream[d]
        /\ sni'[d] = sni[d] /\ forwarded'[d] = forwarded[d] /\ host'[d] = host[d]
        /\ cutShort'[d] = cutShort[d]

LEMMA StepOfOne ==
    ASSUME NEW c \in Conn, \A d \in Conn : ConnInv(d), OthersUnchanged(c), ConnInv(c)'
    PROVE  \A d \in Conn : ConnInv(d)'
BY DEF OthersUnchanged, ConnInv

\* Every step of a connection keeps the types, its own invariant, and its
\* hands off the other connections.
LEMMA ConnStep ==
    ASSUME ConnTypes, NEW c \in Conn, ConnInv(c), Accept(c) \/ Goroutine(c)
    PROVE  ConnTypes' /\ ConnInv(c)' /\ OthersUnchanged(c)
<1> USE DEF ConnTypes, ConnInv, OthersUnchanged, Waiting, Counted, Judged, MayHoldUpstream,
            Intercepted, sharedVars, requestVars, historyVars
<1>1. CASE Accept(c)
  BY <1>1 DEF Accept, Goes
<1>2. CASE Count(c)
  BY <1>2 DEF Count
<1>3. CASE \E h \in Host : Peek(c, h)
  BY <1>3 DEF Peek, Goes
<1>4. CASE PeekFailed(c)
  BY <1>4 DEF PeekFailed, Return
<1>5. CASE HttpJudge(c)
  BY <1>5 DEF HttpJudge, EnforceDomainPolicy, Goes, Return
<1>6. CASE HttpDial(c)
  BY <1>6 DEF HttpDial, OpenUpstream, Goes, Return
<1>7. CASE HttpUpgrade(c)
  BY <1>7 DEF HttpUpgrade, Goes
<1>8. CASE HttpKeepAlive(c)
  BY <1>8 DEF HttpKeepAlive, CloseUpstream, Goes
<1>9. CASE HttpEnd(c)
  BY <1>9 DEF HttpEnd, CloseUpstream, Return
<1>10. CASE HelloJudge(c)
  BY <1>10 DEF HelloJudge, EnforceDomainPolicy, Goes, Return
<1>11. CASE RawJudge(c)
  BY <1>11 DEF RawJudge, EnforceDomainPolicy, Goes, Return
<1>12. CASE MitmCertificate(c)
  BY <1>12 DEF MitmCertificate, Goes
<1>13. CASE MitmHandshake(c)
  BY <1>13 DEF MitmHandshake, Goes
<1>14. CASE MitmDetect(c)
  BY <1>14 DEF MitmDetect, MitmFails, Goes
<1>15. CASE \E h \in Host : MitmRequest(c, h)
  BY <1>15 DEF MitmRequest, BusyUpstream
<1>16. CASE MitmHttpEnd(c)
  BY <1>16 DEF MitmHttpEnd, Return
<1>17. CASE MitmDial(c)
  BY <1>17 DEF MitmDial, MitmFails, OpenUpstream, Goes
<1>18. CASE MitmTunnelEnd(c)
  BY <1>18 DEF MitmTunnelEnd, MitmFails, CloseUpstream, Goes
<1>19. CASE PassthroughDial(c)
  BY <1>19 DEF PassthroughDial, OpenUpstream, Goes, Return
<1>20. CASE TunnelEnd(c)
  BY <1>20 DEF TunnelEnd, CloseUpstream, Return
<1>21. CASE MitmResponse(c)
  BY <1>21 DEF MitmResponse, OpenUpstream, CloseUpstream
<1>22. CASE LateResponse(c)
  BY <1>22 DEF LateResponse, OpenUpstream, CloseUpstream
<1> HIDE DEF ConnTypes, ConnInv, OthersUnchanged
<1> QED BY <1>1, <1>2, <1>3, <1>4, <1>5, <1>6, <1>7, <1>8, <1>9, <1>10, <1>11,
          <1>12, <1>13, <1>14, <1>15, <1>16, <1>17, <1>18, <1>19, <1>20, <1>21, <1>22 DEF Goroutine

\* The invariant's parts about connections, taken connection by connection.
LEMMA InvByConn ==
    Inv <=> ConnTypes /\ NumOpenIsExact /\ \A c \in Conn : ConnInv(c)
BY DEF Inv, ConnInv, JudgedIsAllowed, UpstreamIsHeld, InterceptedHasName, ForwardedStays,
       ForwardedWasJudged

LEMMA NextInv == Inv /\ [Next]_vars => Inv'
<1> SUFFICES ASSUME Inv, [Next]_vars PROVE Inv'
  OBVIOUS
<1>0. ConnTypes /\ NumOpenIsExact /\ \A c \in Conn : ConnInv(c)
  BY InvByConn
<1>1. ASSUME NEW c \in Conn, Accept(c) \/ Goroutine(c)
      PROVE  ConnTypes' /\ \A d \in Conn : ConnInv(d)'
  BY <1>0, <1>1, ConnStep, StepOfOne
<1>2. ASSUME Shutdown \/ ShutdownReturns \/ (\E h \in Host : Reconfigure(h)) \/ UNCHANGED vars
      PROVE  ConnTypes' /\ \A d \in Conn : ConnInv(d)'
  BY <1>0, <1>2 DEF Shutdown, ShutdownReturns, Reconfigure, connVars, requestVars, historyVars,
     vars, ConnTypes, ConnInv
<1>3. NumOpenIsExact'
  <2>1. CASE Next
    BY <1>0, <2>1, NextCounts, CounterExact
  <2>2. CASE UNCHANGED vars
    BY <1>0, <2>2 DEF vars, NumOpenIsExact
  <2> QED BY <2>1, <2>2
<1>4. ConnTypes' /\ \A d \in Conn : ConnInv(d)'
  BY <1>1, <1>2 DEF Next
<1> QED BY <1>3, <1>4 DEF Inv, ConnInv, JudgedIsAllowed, UpstreamIsHeld, InterceptedHasName,
           ForwardedStays, ForwardedWasJudged

LEMMA SpecInv == Spec => []Inv
BY InitInv, NextInv, PTL DEF Spec

-----------------------------------------------------------------------------
(***************************************************************************)
(* Theorems                                                                *)
(***************************************************************************)

\* Type correctness of the outbound proxy; in particular NumOpen is never
\* negative and never more than the number of connections.
THEOREM OutboundTypeCorrect == Spec => []TypeOK
<1>1. Inv => TypeOK
  <2> SUFFICES ASSUME Inv PROVE TypeOK
    OBVIOUS
  <2>1. /\ Cardinality(CountedConns) \in Nat /\ Cardinality(Conn) \in Nat
        /\ Cardinality(CountedConns) <= Cardinality(Conn)
    BY ConnAssumption, CountedFinite, FS_Subset, FS_CardinalityType DEF CountedConns
  <2>2. NumOpen \in 0 .. Cardinality(Conn)
    BY <2>1 DEF Inv, NumOpenIsExact, CountedConns
  <2> QED BY <2>2 DEF Inv, ConnTypes, TypeOK
<1> QED BY <1>1, SpecInv, PTL

\* An upstream socket is open only for a request that the policy allowed when
\* it was judged, whatever path the connection takes and however the policy
\* changes (enforceDomainPolicy before every dial).
THEOREM OutboundOpenIsAllowed == Spec => []OpenIsAllowed
<1>1. Inv => OpenIsAllowed
  BY DEF Inv, OpenIsAllowed, UpstreamIsHeld, JudgedIsAllowed, MayHoldUpstream, Judged
<1> QED BY <1>1, SpecInv, PTL

\* A MITM request is forwarded only for the host that the policy was asked
\* about (outbound.go:156-159 and 254 together).
THEOREM OutboundForwardedWasJudged == Spec => []ForwardedWasJudged
<1>1. Inv => ForwardedWasJudged
  BY DEF Inv
<1> QED BY <1>1, SpecInv, PTL

\* Whatever path a connection takes, it leaves an upstream socket behind only
\* when an intercepted one ends with a request in flight.
THEOREM OutboundNoUpstreamLeak == Spec => []NoUpstreamLeak
<1>1. Inv => NoUpstreamLeak
  BY DEF Inv, NoUpstreamLeak, UpstreamIsHeld, MayHoldUpstream
<1> QED BY <1>1, SpecInv, PTL

\* NumOpen counts exactly the goroutines between its two updates.
THEOREM OutboundNumOpenIsExact == Spec => []NumOpenIsExact
<1>1. Inv => NumOpenIsExact
  BY DEF Inv
<1> QED BY <1>1, SpecInv, PTL

\* When Shutdown's poll finds zero, every counted connection has finished, so
\* Shutdown returns with none of them in progress.
THEOREM OutboundDrained == Spec => DrainedWhenShutdownReturns
<1>1. Inv /\ [Next]_vars =>
        [shutdown' = "returned" /\ shutdown # "returned" =>
            \A c \in Conn : pc[c] \in Waiting \cup {"done"}]_vars
  <2> SUFFICES ASSUME Inv, Next, shutdown' = "returned", shutdown # "returned",
                      NEW c \in Conn
               PROVE  pc[c] \in Waiting \cup {"done"}
    OBVIOUS
  <2>1. NumOpen = 0
    <3>1. ASSUME NEW d \in Conn, Accept(d) \/ Goroutine(d) PROVE UNCHANGED shutdown
      BY <3>1 DEF Accept, Goroutine, Count, Peek, PeekFailed, HttpJudge, HttpDial,
         HttpUpgrade, HttpKeepAlive, HttpEnd, HelloJudge, RawJudge, MitmCertificate,
         MitmHandshake, MitmDetect, MitmRequest, MitmResponse, MitmHttpEnd, MitmDial,
         MitmTunnelEnd, PassthroughDial, TunnelEnd, LateResponse, sharedVars
    <3>2. ShutdownReturns
      BY <3>1 DEF Next, Shutdown, Reconfigure
    <3> QED BY <3>2 DEF ShutdownReturns
  <2>2. CountedConns = {}
    BY <2>1, CountedFinite, FS_EmptySet DEF Inv, NumOpenIsExact, CountedConns
  <2> QED BY <2>2 DEF CountedConns, Inv, ConnTypes
<1> QED BY <1>1, SpecInv, PTL DEF Spec, DrainedWhenShutdownReturns

-----------------------------------------------------------------------------
(***************************************************************************)
(* The inbound connection loop implements the outbound one, for any        *)
(* connections and hosts.  No invariant is needed: each step of the one is *)
(* a step of the other from the same position.                             *)
(***************************************************************************)

\* Judge is enforceDomainPolicy as the outbound server calls it.
LEMMA JudgeIsEnforced ==
    ASSUME NEW c \in Conn, NEW to, In!Judge(c, to)
    PROVE  In!O!EnforceDomainPolicy(c, to)
BY DEF In!Judge, In!Goes, In!Return, In!O!EnforceDomainPolicy, In!O!Goes, In!O!Return

\* A step of an inbound connection's goroutine is one of an outbound one's.
LEMMA InboundConnStep ==
    ASSUME NEW c \in Conn,
           \/ In!Accept(c) \/ In!Count(c) \/ In!Peek(c) \/ In!HttpProc2(c) \/ In!Raw(c)
           \/ In!Dial(c) \/ In!Upgraded(c) \/ In!Relayed(c)
    PROVE  In!O!Next
<1> USE DEF In!O!requestVars, In!O!historyVars, In!O!sharedVars
<1>1. CASE In!Accept(c)
  <2>1. In!O!Accept(c)
    BY <1>1 DEF In!Accept, In!Goes, In!O!Accept, In!O!Goes
  <2> QED BY <2>1 DEF In!O!Next
<1>2. CASE In!Count(c)
  <2>1. In!O!Count(c)
    BY <1>2 DEF In!Count, In!O!Count
  <2> QED BY <2>1 DEF In!O!Next, In!O!Goroutine
<1>3. CASE In!Peek(c)
  <2>1. CASE In!Return(c) /\ UNCHANGED <<target, judged>>
    <3>1. In!O!PeekFailed(c)
      BY <1>3, <2>1 DEF In!Peek, In!Return, In!O!PeekFailed, In!O!Return
    <3> QED BY <3>1 DEF In!O!Next, In!O!Goroutine
  <2>2. ASSUME NEW h \in Host, target' = [target EXCEPT ![c] = h],
               judged' = [judged EXCEPT ![c] = "none"],
               In!Goes(c, "httpRequest") \/ In!Goes(c, "raw")
        PROVE  In!O!Next
    <3>1. In!O!Peek(c, h)
      BY <1>3, <2>2 DEF In!Peek, In!Goes, In!O!Peek, In!O!Goes
    <3> QED BY <3>1 DEF In!O!Next, In!O!Goroutine
  <2> QED BY <1>3, <2>1, <2>2 DEF In!Peek
<1>4. CASE In!HttpProc2(c)
  <2>1. In!O!HttpJudge(c)
    <3>1. CASE In!Judge(c, "httpDial")
      BY <1>4, <3>1, JudgeIsEnforced DEF In!HttpProc2, In!O!HttpJudge
    <3>2. CASE In!Return(c) /\ UNCHANGED judged
      BY <1>4, <3>2 DEF In!HttpProc2, In!Return, In!O!HttpJudge, In!O!Return
    <3> QED BY <1>4, <3>1, <3>2 DEF In!HttpProc2
  <2> QED BY <2>1 DEF In!O!Next, In!O!Goroutine
<1>5. CASE In!Raw(c)
  <2>1. In!O!RawJudge(c)
    BY <1>5, JudgeIsEnforced DEF In!Raw, In!O!RawJudge
  <2> QED BY <2>1 DEF In!O!Next, In!O!Goroutine
<1>6. CASE In!Dial(c)
  <2>1. In!O!HttpDial(c) \/ In!O!PassthroughDial(c)
    BY <1>6 DEF In!Dial, In!Goes, In!Return, In!O!HttpDial, In!O!PassthroughDial, In!O!OpenUpstream,
                In!O!Goes, In!O!Return
  <2> QED BY <2>1 DEF In!O!Next, In!O!Goroutine
<1>7. CASE In!Upgraded(c)
  <2>1. In!O!HttpUpgrade(c)
    BY <1>7 DEF In!Upgraded, In!Goes, In!O!HttpUpgrade, In!O!Goes
  <2> QED BY <2>1 DEF In!O!Next, In!O!Goroutine
<1>8. CASE In!Relayed(c)
  <2>1. In!O!HttpKeepAlive(c) \/ In!O!HttpEnd(c) \/ In!O!TunnelEnd(c)
    BY <1>8 DEF In!Relayed, In!Goes, In!Return, In!O!HttpKeepAlive, In!O!HttpEnd, In!O!TunnelEnd,
                In!O!CloseUpstream, In!O!Goes, In!O!Return
  <2> QED BY <2>1 DEF In!O!Next, In!O!Goroutine
<1> QED BY <1>1, <1>2, <1>3, <1>4, <1>5, <1>6, <1>7, <1>8

\* Every step of the inbound server is one of the outbound server, or none.
LEMMA InboundStep == [In!Next]_(In!inVars) => [In!O!Next]_(In!O!vars)
<1> SUFFICES ASSUME [In!Next]_(In!inVars) PROVE [In!O!Next]_(In!O!vars)
  OBVIOUS
<1> USE DEF In!O!requestVars, In!O!historyVars, In!O!connVars
<1>1. CASE In!AcceptFails
  BY <1>1 DEF In!AcceptFails, In!O!vars
<1>2. CASE In!Shutdown
  <2>1. In!O!Shutdown \/ In!O!ShutdownReturns
    BY <1>2 DEF In!Shutdown, In!O!Shutdown, In!O!ShutdownReturns
  <2> QED BY <2>1 DEF In!O!Next
<1>3. ASSUME NEW h \in Host, In!Reconfigure(h) PROVE In!O!Next
  <2>1. In!O!Reconfigure(h)
    BY <1>3 DEF In!Reconfigure, In!O!Reconfigure
  <2> QED BY <2>1 DEF In!O!Next
<1>4. CASE UNCHANGED In!inVars
  BY <1>4 DEF In!inVars, In!O!vars
<1> QED BY <1>1, <1>2, <1>3, <1>4, InboundConnStep DEF In!Next

\* The inbound server (inbound.go:52-121) implements the outbound one without
\* MITM: what OutboundProofs shows of every behaviour of Outbound holds of it.
THEOREM InboundRefinesOutbound == In!Spec => InboundIsOutbound
<1>1. In!Init => In!O!Init
  BY DEF In!Init, In!O!Init
<1>2. [In!Next]_(In!inVars) => [In!O!Next]_(In!O!vars)
  BY InboundStep
<1> QED BY <1>1, <1>2, PTL DEF In!Spec, In!O!Spec, InboundIsOutbound, In!InboundIsOutbound
-----------------------------------------------------------------------------
(***************************************************************************)
(* The HTTP exchanges.  Reads says how far the body copy of http.go has    *)
(* come in a message, Holds that the client's stream consists of whole     *)
(* requests from a given point on.                                         *)
(***************************************************************************)

(***************************************************************************)
(* The body copy                                                           *)
(***************************************************************************)

\* The copy of a body begins with nothing taken.
LEMMA ReadsFirst ==
    ASSUME NEW body, NEW c \in Nat,
           NEW from \in {<<"size", 0>>, <<"eof", 0>>, <<"done", 0>>, Http!Fixed(c)}
    PROVE  Http!Reads(from, body, 0, from)
<1>1. CASE from = <<"size", 0>>
  <2>1. 0 \in 0..0 /\ 0 = 3 * 0 /\ Http!Chunks(body, 0)
    BY DEF Http!Chunks
  <2> QED BY <1>1, <2>1 DEF Http!Reads
<1>2. CASE from = <<"eof", 0>>
  BY <1>2 DEF Http!Reads
<1>3. CASE from = <<"done", 0>>
  BY <1>3 DEF Http!Reads
<1>4. CASE from = Http!Fixed(c)
  <2>1. CASE c = 0
    BY <1>4, <2>1 DEF Http!Reads, Http!Fixed
  <2>2. CASE c > 0
    <3>1. from = <<"data", c>> /\ from[1] = "data" /\ from[2] - 0 = c /\ 0 <= from[2]
      BY <1>4, <2>2 DEF Http!Fixed
    <3>2. from = Http!Fixed(from[2] - 0)
      BY <1>4, <3>1
    <3> QED BY <3>1, <3>2 DEF Http!Reads
  <2> QED BY <2>1, <2>2
<1> QED BY <1>1, <1>2, <1>3, <1>4

\* One unit more in a chunked body (proxyChunkedBody).
LEMMA ReadsChunked ==
    ASSUME NEW body \in Seq(Http!Unit), NEW i \in Nat, i < Len(body), NEW n,
           Http!Reads(<<"size", 0>>, body, i, n), n[1] # "done"
    PROVE  LET m == Http!Take(n, body[i + 1])
           IN  m[1] = "error" \/ Http!Reads(<<"size", 0>>, body, i + 1, m)
<1> DEFINE m == Http!Take(n, body[i + 1])
<1> SUFFICES m[1] = "error" \/ Http!Reads(<<"size", 0>>, body, i + 1, m)
  OBVIOUS
<1>1. ASSUME NEW k \in 0..i, n = <<"size", 0>>, i = 3 * k, Http!Chunks(body, k)
      PROVE  m[1] = "error" \/ Http!Reads(<<"size", 0>>, body, i + 1, m)
  <2>1. CASE body[i + 1] = "1"
    <3>1. m = <<"chunk", 0>> /\ k \in 0..(i + 1) /\ i + 1 = 3 * k + 1
      BY <1>1, <2>1 DEF Http!Take
    <3>2. Http!Chunks(body, k + 1)
      <4> SUFFICES ASSUME NEW j \in 0..k PROVE body[3 * j + 1] = "1"
        BY DEF Http!Chunks
      <4> QED BY <1>1, <2>1 DEF Http!Chunks
    <3> QED BY <3>1, <3>2 DEF Http!Reads
  <2>2. CASE body[i + 1] = "0"
    <3>1. m = <<"trailer", 0>> /\ k \in 0..(i + 1) /\ 3 * k + 1 <= i + 1 /\ body[3 * k + 1] = "0"
      BY <1>1, <2>2 DEF Http!Take
    <3>2. \A j \in (3 * k + 2)..(i + 1) : body[j] # "n"
      BY <1>1
    <3> QED BY <1>1, <3>1, <3>2 DEF Http!Reads
  <2>3. CASE body[i + 1] \notin {"0", "1"}
    BY <1>1, <2>3 DEF Http!Take
  <2> QED BY <2>1, <2>2, <2>3
<1>2. ASSUME NEW k \in 0..i, n = <<"chunk", 0>>, i = 3 * k + 1, Http!Chunks(body, k + 1)
      PROVE  Http!Reads(<<"size", 0>>, body, i + 1, m)
  <2>1. m = <<"crlf", 0>> /\ k \in 0..(i + 1) /\ i + 1 = 3 * k + 2
    BY <1>2 DEF Http!Take
  <2> QED BY <1>2, <2>1 DEF Http!Reads
<1>3. ASSUME NEW k \in 0..i, n = <<"crlf", 0>>, i = 3 * k + 2, Http!Chunks(body, k + 1)
      PROVE  Http!Reads(<<"size", 0>>, body, i + 1, m)
  <2>1. PICK l \in 0..(i + 1) : l = k + 1
    BY <1>3
  <2>2. m = <<"size", 0>> /\ i + 1 = 3 * l /\ Http!Chunks(body, l)
    BY <1>3, <2>1 DEF Http!Take
  <2> QED BY <2>2 DEF Http!Reads
<1>4. ASSUME NEW k \in 0..i, n = <<"trailer", 0>>, 3 * k + 1 <= i, Http!Chunks(body, k),
             body[3 * k + 1] = "0", \A j \in (3 * k + 2)..i : body[j] # "n"
      PROVE  Http!Reads(<<"size", 0>>, body, i + 1, m)
  <2>1. CASE body[i + 1] = "n"
    <3>1. m = <<"done", 0>>
      BY <1>4, <2>1 DEF Http!Take
    <3>2. k \in 0..(i + 1) /\ 3 * k + 1 < i + 1 /\ (i + 1) - 1 = i
      BY <1>4
    <3>3. Http!EndsAt(body, i + 1)
      BY <1>4, <2>1, <3>2 DEF Http!EndsAt
    <3> QED BY <3>1, <3>3 DEF Http!Reads
  <2>2. CASE body[i + 1] # "n"
    <3>1. m = <<"trailer", 0>> /\ k \in 0..(i + 1) /\ 3 * k + 1 <= i + 1
      BY <1>4, <2>2 DEF Http!Take
    <3>2. \A j \in (3 * k + 2)..(i + 1) : body[j] # "n"
      BY <1>4, <2>2
    <3> QED BY <1>4, <3>1, <3>2 DEF Http!Reads
  <2> QED BY <2>1, <2>2
<1> HIDE DEF m
<1> QED BY <1>1, <1>2, <1>3, <1>4 DEF Http!Reads

\* A chunked body has one end.  Short of it, every unit is a good one.
LEMMA ReadsToTheEnd ==
    ASSUME NEW body \in Seq(Http!Unit), NEW e \in Nat, Http!EndsAt(body, e),
           NEW i \in Nat, NEW n, Http!Reads(<<"size", 0>>, body, i, n)
    PROVE  /\ n[1] = "done" => i = e
           /\ n[1] # "done" => i < e /\ Http!Take(n, body[i + 1])[1] # "error"
<1>1. PICK z \in 0..e : /\ Http!Chunks(body, z) /\ 3 * z + 1 < e
                        /\ body[3 * z + 1] = "0" /\ body[e] = "n"
                        /\ \A j \in (3 * z + 2)..(e - 1) : body[j] # "n"
  BY DEF Http!EndsAt
<1>2. ASSUME NEW k \in Nat, Http!Chunks(body, k) PROVE k <= z
  <2>1. SUFFICES ASSUME z < k PROVE FALSE
    OBVIOUS
  <2>2. z \in 0..(k - 1)
    BY <2>1
  <2> QED BY <1>1, <1>2, <2>2 DEF Http!Chunks
<1>3. ASSUME NEW k \in Nat, Http!Chunks(body, k), body[3 * k + 1] = "0" PROVE k = z
  <2>1. k <= z
    BY <1>2, <1>3
  <2>2. SUFFICES ASSUME k < z PROVE FALSE
    BY <2>1
  <2>3. k \in 0..(z - 1)
    BY <2>2
  <2> QED BY <1>1, <1>3, <2>3 DEF Http!Chunks
<1>4. ASSUME NEW k \in 0..i, n = <<"size", 0>>, i = 3 * k, Http!Chunks(body, k)
      PROVE  n[1] # "done" /\ i < e /\ Http!Take(n, body[i + 1])[1] # "error"
  <2>1. k <= z
    BY <1>2, <1>4
  <2>2. CASE k = z
    BY <1>1, <1>4, <2>2 DEF Http!Take
  <2>3. CASE k < z
    <3>1. k \in 0..(z - 1)
      BY <2>3
    <3>2. body[i + 1] = "1"
      BY <1>1, <1>4, <3>1 DEF Http!Chunks
    <3> QED BY <1>1, <1>4, <2>3, <3>2 DEF Http!Take
  <2> QED BY <2>1, <2>2, <2>3
<1>5. ASSUME NEW k \in 0..i, n = <<"chunk", 0>>, i = 3 * k + 1, Http!Chunks(body, k + 1)
      PROVE  n[1] # "done" /\ i < e /\ Http!Take(n, body[i + 1])[1] # "error"
  <2>1. k + 1 <= z
    BY <1>2, <1>5
  <2> QED BY <1>1, <1>5, <2>1 DEF Http!Take
<1>6. ASSUME NEW k \in 0..i, n = <<"crlf", 0>>, i = 3 * k + 2, Http!Chunks(body, k + 1)
      PROVE  n[1] # "done" /\ i < e /\ Http!Take(n, body[i + 1])[1] # "error"
  <2>1. k + 1 <= z
    BY <1>2, <1>6
  <2> QED BY <1>1, <1>6, <2>1 DEF Http!Take
<1>7. ASSUME NEW k \in 0..i, n = <<"trailer", 0>>, 3 * k + 1 <= i, Http!Chunks(body, k),
             body[3 * k + 1] = "0", \A j \in (3 * k + 2)..i : body[j] # "n"
      PROVE  n[1] # "done" /\ i < e /\ Http!Take(n, body[i + 1])[1] # "error"
  <2>1. k = z
    BY <1>3, <1>7
  <2>2. i < e
    BY <1>1, <1>7, <2>1
  <2> QED BY <1>7, <2>2 DEF Http!Take
<1>8. ASSUME n = <<"done", 0>>, Http!EndsAt(body, i)
      PROVE  i = e
  <2>1. PICK k \in 0..i : /\ Http!Chunks(body, k) /\ 3 * k + 1 < i
                          /\ body[3 * k + 1] = "0" /\ body[i] = "n"
                          /\ \A j \in (3 * k + 2)..(i - 1) : body[j] # "n"
    BY <1>8 DEF Http!EndsAt
  <2>2. k = z
    BY <1>3, <2>1
  <2>3. ~(i < e) /\ ~(e < i)
    BY <1>1, <2>1, <2>2
  <2> QED BY <2>3
<1> QED BY <1>4, <1>5, <1>6, <1>7, <1>8 DEF Http!Reads

\* One unit more in any body.
LEMMA ReadsNext ==
    ASSUME NEW body \in Seq(Http!Unit), NEW i \in Nat, i < Len(body), NEW n, NEW c \in Nat,
           NEW from \in {<<"size", 0>>, <<"eof", 0>>, <<"done", 0>>, Http!Fixed(c)},
           Http!Reads(from, body, i, n), n[1] # "done"
    PROVE  LET m == Http!Take(n, body[i + 1])
           IN  m[1] = "error" \/ Http!Reads(from, body, i + 1, m)
<1>1. CASE from = <<"size", 0>>
  BY <1>1, ReadsChunked
<1>2. CASE from = <<"eof", 0>>
  BY <1>2 DEF Http!Reads, Http!Take
<1>3. CASE from = <<"done", 0>>
  BY <1>3 DEF Http!Reads
<1>4. CASE from = Http!Fixed(c) /\ c > 0
  <2>1. from = <<"data", c>>
    BY <1>4 DEF Http!Fixed
  <2>2. i < c /\ n = <<"data", c - i>>
    BY <2>1 DEF Http!Reads, Http!Fixed
  <2>3. Http!Take(n, body[i + 1]) = Http!Fixed(c - (i + 1))
    BY <2>2 DEF Http!Take, Http!Fixed
  <2> QED BY <2>1, <2>2, <2>3 DEF Http!Reads
<1>5. CASE from = Http!Fixed(c) /\ c = 0
  BY <1>3, <1>5 DEF Http!Fixed
<1> QED BY <1>1, <1>2, <1>3, <1>4, <1>5

(***************************************************************************)
(* The client's stream                                                     *)
(***************************************************************************)

\* A request that was begun has a body.
LEMMA BodyOf ==
    /\ \A r \in Http!Request : r.body \in Seq(Http!Unit) /\ Len(r.body) \in Nat
    /\ \A q \in Seq(Http!Request) : \A i \in 1..Len(q) : q[i] \in Http!Request
<1>1. ASSUME NEW r \in Http!Request PROVE r.body \in Seq(Http!Unit)
  BY DEF Http!Request
<1>2. \A body \in Seq(Http!Unit) : Len(body) \in Nat
  OBVIOUS
<1>3. \A q \in Seq(Http!Request) : \A i \in 1..Len(q) : q[i] \in Http!Request
  OBVIOUS
<1> QED BY <1>1, <1>2, <1>3

\* What stands in a stream stays there when units are added at its end.
LEMMA MessageStays ==
    ASSUME NEW s \in Seq(Http!Unit), NEW t \in Seq(Http!Unit), NEW p \in Nat,
           NEW body \in Seq(Http!Unit), Http!Message(s, p, body)
    PROVE  Http!Message(s \o t, p, body)
<1> DEFINE v == s \o t
<1>1. /\ v \in Seq(Http!Unit) /\ Len(v) = Len(s) + Len(t)
      /\ \A i \in 1..Len(s) : v[i] = s[i]
  OBVIOUS
<1> HIDE DEF v
<1>2. /\ p + 1 + Len(body) <= Len(s) /\ s[p + 1] = "h"
      /\ \A j \in 1..Len(body) : s[p + 1 + j] = body[j]
  BY DEF Http!Message
<1>3. p + 1 + Len(body) <= Len(v) /\ v[p + 1] = "h"
  BY <1>1, <1>2
<1>4. \A j \in 1..Len(body) : v[p + 1 + j] = body[j]
  <2> SUFFICES ASSUME NEW j \in 1..Len(body) PROVE v[p + 1 + j] = body[j]
    OBVIOUS
  <2>1. p + 1 + j \in 1..Len(s)
    BY <1>2
  <2> QED BY <1>1, <1>2, <2>1
<1> QED BY <1>3, <1>4 DEF Http!Message, v

\* The request that was added.
LEMMA MessageAdded ==
    ASSUME NEW s \in Seq(Http!Unit), NEW body \in Seq(Http!Unit)
    PROVE  LET t == s \o (<<"h">> \o body)
           IN  t \in Seq(Http!Unit) /\ Len(t) = Len(s) + 1 + Len(body) /\ Http!Message(t, Len(s), body)
<1> DEFINE u == <<"h">> \o body
           t == s \o u
<1>1. /\ u \in Seq(Http!Unit) /\ Len(u) = 1 + Len(body) /\ u[1] = "h"
      /\ \A j \in 1..Len(body) : u[1 + j] = body[j]
  BY DEF Http!Unit
<1> HIDE DEF u
<1>2. /\ t \in Seq(Http!Unit) /\ Len(t) = Len(s) + Len(u)
      /\ \A i \in 1..(Len(s) + Len(u)) : t[i] = IF i <= Len(s) THEN s[i] ELSE u[i - Len(s)]
  <2>1. u \in Seq(Http!Unit)
    BY <1>1
  <2> QED BY <2>1, ConcatProperties, ZenonT(30)
<1> HIDE DEF t
<1>3. t[Len(s) + 1] = "h"
  <2>1. /\ Len(s) + 1 \in 1..(Len(s) + Len(u)) /\ ~(Len(s) + 1 <= Len(s))
        /\ Len(s) + 1 - Len(s) = 1
    BY <1>1
  <2> QED BY <1>1, <1>2, <2>1
<1>4. \A j \in 1..Len(body) : t[Len(s) + 1 + j] = body[j]
  <2> SUFFICES ASSUME NEW j \in 1..Len(body) PROVE t[Len(s) + 1 + j] = body[j]
    OBVIOUS
  <2>1. /\ Len(s) + 1 + j \in 1..(Len(s) + Len(u)) /\ ~(Len(s) + 1 + j <= Len(s))
        /\ Len(s) + 1 + j - Len(s) = 1 + j
    BY <1>1
  <2> QED BY <1>1, <1>2, <2>1
<1> QED BY <1>1, <1>2, <1>3, <1>4 DEF Http!Message, t, u

\* A unit is taken at the front.
LEMMA MessageTail ==
    ASSUME NEW s \in Seq(Http!Unit), NEW p \in Nat, p > 0,
           NEW body \in Seq(Http!Unit), Http!Message(s, p, body)
    PROVE  Http!Message(Tail(s), p - 1, body)
<1> DEFINE t == Tail(s)
<1>1. /\ p + 1 + Len(body) <= Len(s) /\ s[p + 1] = "h"
      /\ \A j \in 1..Len(body) : s[p + 1 + j] = body[j]
  BY DEF Http!Message
<1>2. /\ t \in Seq(Http!Unit) /\ Len(t) = Len(s) - 1
      /\ \A i \in 1..(Len(s) - 1) : t[i] = s[i + 1]
  BY <1>1
<1> HIDE DEF t
<1>3. t[(p - 1) + 1] = "h" /\ (p - 1) + 1 + Len(body) <= Len(t)
  BY <1>1, <1>2
<1>4. \A j \in 1..Len(body) : t[(p - 1) + 1 + j] = body[j]
  <2> SUFFICES ASSUME NEW j \in 1..Len(body) PROVE t[(p - 1) + 1 + j] = body[j]
    OBVIOUS
  <2>1. p + j \in 1..(Len(s) - 1) /\ (p - 1) + 1 + j = p + j /\ (p + j) + 1 = p + 1 + j
    BY <1>1
  <2> QED BY <1>1, <1>2, <2>1
<1> QED BY <1>3, <1>4 DEF Http!Message, t

\* Without a request in the queue, the stream ends at off.
LEMMA HoldsNothing ==
    ASSUME NEW off \in Nat, NEW s \in Seq(Http!Unit)
    PROVE  Http!Holds(off, <<>>, s) <=> off = Len(s)
<1>1. ASSUME Http!Holds(off, <<>>, s) PROVE off = Len(s)
  BY <1>1 DEF Http!Holds, Http!Cut
<1>2. ASSUME off = Len(s) PROVE Http!Holds(off, <<>>, s)
  <2> DEFINE pos == [i \in 0..0 |-> off]
  <2>1. pos \in [0..Len(<<>>) -> off..Len(s)] /\ Http!Cut(off, <<>>, s, pos)
    BY <1>2 DEF Http!Cut
  <2> QED BY <2>1 DEF Http!Holds
<1> QED BY <1>1, <1>2

\* The client begins one more request.
LEMMA HoldsAppend ==
    ASSUME NEW off \in Nat, NEW q \in Seq(Http!Request), NEW s \in Seq(Http!Unit),
           NEW r \in Http!Request, Http!Holds(off, q, s)
    PROVE  Http!Holds(off, Append(q, r), s \o (<<"h">> \o r.body))
<1> DEFINE u == <<"h">> \o r.body
           t == s \o u
           qq == Append(q, r)
<1>1. PICK pos \in [0..Len(q) -> off..Len(s)] : Http!Cut(off, q, s, pos)
  BY DEF Http!Holds
<1> DEFINE pp == [i \in 0..Len(qq) |-> IF i = Len(qq) THEN Len(t) ELSE pos[i]]
<1>2. u \in Seq(Http!Unit) /\ r.body \in Seq(Http!Unit) /\ Len(r.body) \in Nat
  BY DEF Http!Request, Http!Unit
<1>3. /\ Len(qq) = Len(q) + 1 /\ Len(q) \in Nat
      /\ \A i \in 1..Len(q) : qq[i] = q[i]
      /\ qq[Len(qq)] = r
  OBVIOUS
<1>4. /\ Len(t) = Len(s) + 1 + Len(r.body) /\ Len(s) \in Nat /\ Http!Message(t, Len(s), r.body)
  <2>1. Len(s) \in Nat
    OBVIOUS
  <2> QED BY <1>2, <2>1, MessageAdded, ZenonT(30)
<1>5. \A p \in Nat, m \in Seq(Http!Unit) : Http!Message(s, p, m) => Http!Message(t, p, m)
  BY <1>2, MessageStays
<1> HIDE DEF t, qq, u
<1>6. \A i \in 0..Len(q) : i \in 0..Len(qq) /\ i # Len(qq) /\ pp[i] = pos[i] /\ pos[i] \in off..Len(s)
  BY <1>1, <1>3
<1>7. pp[Len(qq)] = Len(t) /\ pos[Len(q)] = Len(s) /\ pos[0] = off
  BY <1>1, <1>3 DEF Http!Cut
<1>8. \A i \in 0..Len(qq) : i = Len(qq) \/ i \in 0..Len(q)
  BY <1>3
<1>9. pp \in [0..Len(qq) -> off..Len(t)]
  <2>1. Len(s) <= Len(t) /\ Len(t) \in Nat /\ off <= Len(s)
    <3>1. 0 \in 0..Len(q)
      BY <1>3
    <3>2. pos[0] \in off..Len(s)
      BY <1>6, <3>1
    <3>3. \A x, y \in Nat : y <= y + 1 + x /\ y + 1 + x \in Nat
      OBVIOUS
    <3>4. Len(s) <= Len(t) /\ Len(t) \in Nat
      BY <1>2, <1>4, <3>3, Zenon
    <3>5. \A x \in off..Len(s) : off <= Len(s)
      BY <1>4
    <3> QED BY <3>2, <3>4, <3>5, Zenon
  <2>2. \A i \in 0..Len(qq) : pp[i] \in off..Len(t)
    <3> SUFFICES ASSUME NEW i \in 0..Len(qq) PROVE pp[i] \in off..Len(t)
      OBVIOUS
    <3>1. CASE i = Len(qq)
      BY <1>4, <1>7, <2>1, <3>1
    <3>2. CASE i \in 0..Len(q)
      BY <1>4, <1>6, <2>1, <3>2
    <3> QED BY <1>8, <3>1, <3>2
  <2> QED BY <2>2
<1> HIDE DEF pp
<1>10. pp[0] = off
  BY <1>3, <1>6, <1>7
<1>11. \A i \in 0..Len(qq), j \in 0..Len(qq) : i <= j => pp[i] <= pp[j]
  <2> SUFFICES ASSUME NEW i \in 0..Len(qq), NEW j \in 0..Len(qq), i <= j
               PROVE  pp[i] <= pp[j]
    OBVIOUS
  <2>1. CASE j = Len(qq)
    BY <1>7, <1>9, <2>1
  <2>2. CASE j # Len(qq)
    <3>1. i \in 0..Len(q) /\ j \in 0..Len(q)
      BY <1>3, <2>2
    <3>2. pos[i] <= pos[j]
      BY <1>1, <3>1 DEF Http!Cut
    <3> QED BY <1>6, <3>1, <3>2
  <2> QED BY <2>1, <2>2
<1>12. ASSUME NEW i \in 1..Len(qq)
       PROVE  pp[i] = pp[i - 1] + 1 + Len(qq[i].body) /\ Http!Message(t, pp[i - 1], qq[i].body)
  <2>1. CASE i = Len(qq)
    <3>1. i - 1 = Len(q) /\ Len(q) \in 0..Len(q)
      BY <1>3, <2>1
    <3>2. pp[i - 1] = Len(s) /\ qq[i] = r /\ pp[i] = Len(t)
      BY <1>3, <1>6, <1>7, <2>1, <3>1
    <3> QED BY <1>4, <3>2
  <2>2. CASE i # Len(qq)
    <3>1. i \in 1..Len(q) /\ i - 1 \in 0..Len(q) /\ i \in 0..Len(q)
      BY <1>3, <2>2
    <3>2. /\ qq[i] = q[i] /\ pp[i] = pos[i] /\ pp[i - 1] = pos[i - 1]
      BY <1>3, <1>6, <3>1
    <3>4. q[i].body \in Seq(Http!Unit)
      BY <3>1, BodyOf
    <3>5. pos[i - 1] \in Nat
      BY <1>4, <1>6, <3>1
    <3>3. pos[i] = pos[i - 1] + 1 + Len(q[i].body) /\ Http!Message(s, pos[i - 1], q[i].body)
      BY <1>1, <3>1 DEF Http!Cut
    <3> QED BY <1>5, <3>2, <3>3, <3>4, <3>5
  <2> QED BY <2>1, <2>2
<1>13. Http!Cut(off, qq, t, pp)
  BY <1>7, <1>10, <1>11, <1>12 DEF Http!Cut
<1>14. Http!Holds(off, qq, t)
  BY <1>9, <1>13 DEF Http!Holds
<1> QED BY <1>14 DEF t, qq, u

\* The proxy takes a unit that stands before the queued requests.
LEMMA HoldsTail ==
    ASSUME NEW off \in Nat, off > 0, NEW q \in Seq(Http!Request), NEW s \in Seq(Http!Unit),
           Http!Holds(off, q, s)
    PROVE  s # <<>> /\ Http!Holds(off - 1, q, Tail(s))
<1>1. PICK pos \in [0..Len(q) -> off..Len(s)] : Http!Cut(off, q, s, pos)
  BY DEF Http!Holds
<1> DEFINE t == Tail(s)
           pp == [i \in 0..Len(q) |-> pos[i] - 1]
<1>2. off <= Len(s) /\ Len(s) \in Nat /\ Len(q) \in Nat /\ s # <<>>
  BY <1>1
<1>3. Len(t) = Len(s) - 1
  BY <1>2
<1>4. \A p \in Nat, m \in Seq(Http!Unit) :
        p > 0 /\ Http!Message(s, p, m) => Http!Message(t, p - 1, m)
  BY MessageTail
<1> HIDE DEF t
<1>5. \A i \in 0..Len(q) : pos[i] \in off..Len(s) /\ pp[i] = pos[i] - 1
  BY <1>1
<1>6. pp \in [0..Len(q) -> (off - 1)..Len(t)]
  <2>1. \A i \in 0..Len(q) : pos[i] - 1 \in (off - 1)..Len(t)
    BY <1>2, <1>3, <1>5
  <2> QED BY <2>1
<1> HIDE DEF pp
<1>7. pp[0] = off - 1 /\ pp[Len(q)] = Len(t)
  <2>1. 0 \in 0..Len(q) /\ Len(q) \in 0..Len(q) /\ pos[0] = off /\ pos[Len(q)] = Len(s)
    BY <1>1, <1>2 DEF Http!Cut
  <2> QED BY <1>3, <1>5, <2>1
<1>8. \A i \in 0..Len(q), j \in 0..Len(q) : i <= j => pp[i] <= pp[j]
  BY <1>1, <1>2, <1>5 DEF Http!Cut
<1>9. ASSUME NEW i \in 1..Len(q)
      PROVE  pp[i] = pp[i - 1] + 1 + Len(q[i].body) /\ Http!Message(t, pp[i - 1], q[i].body)
  <2>1. i - 1 \in 0..Len(q) /\ i \in 0..Len(q)
    BY <1>2
  <2>2. /\ pos[i] \in Nat /\ pos[i - 1] \in Nat /\ pos[i - 1] > 0
        /\ pp[i] = pos[i] - 1 /\ pp[i - 1] = pos[i - 1] - 1
    BY <1>2, <1>5, <2>1
  <2>3. Len(q[i].body) \in Nat /\ q[i].body \in Seq(Http!Unit)
    BY BodyOf
  <2>4. pos[i] = pos[i - 1] + 1 + Len(q[i].body) /\ Http!Message(s, pos[i - 1], q[i].body)
    BY <1>1 DEF Http!Cut
  <2>5. Http!Message(t, pp[i - 1], q[i].body)
    BY <1>4, <2>2, <2>3, <2>4
  <2>6. \A x, y, k \in Nat : x = y + 1 + k => x - 1 = (y - 1) + 1 + k
    OBVIOUS
  <2>7. pos[i] - 1 = (pos[i - 1] - 1) + 1 + Len(q[i].body)
    BY <2>2, <2>3, <2>4, <2>6, Zenon
  <2> QED BY <2>2, <2>5, <2>7, Zenon
<1>10. Http!Cut(off - 1, q, t, pp)
  BY <1>7, <1>8, <1>9 DEF Http!Cut
<1>11. Http!Holds(off - 1, q, t)
  BY <1>6, <1>10 DEF Http!Holds
<1> QED BY <1>2, <1>11 DEF t

\* The proxy takes the header of the first queued request: the body is next.
LEMMA HoldsHead ==
    ASSUME NEW q \in Seq(Http!Request), NEW s \in Seq(Http!Unit), s # <<>>,
           Http!Holds(0, q, s)
    PROVE  /\ q # <<>> /\ s[1] = "h"
           /\ Http!Rest(Head(q).body, 0, Tail(s))
           /\ Http!Holds(Len(Head(q).body), Tail(q), Tail(s))
<1>1. PICK pos \in [0..Len(q) -> 0..Len(s)] : Http!Cut(0, q, s, pos)
  BY DEF Http!Holds
<1>2. q # <<>> /\ Len(q) \in Nat /\ Len(q) > 0
  BY <1>1 DEF Http!Cut
<1> DEFINE t == Tail(s)
           qq == Tail(q)
           off == Len(q[1].body)
           pp == [i \in 0..Len(qq) |-> pos[i + 1] - 1]
<1>3. /\ t \in Seq(Http!Unit) /\ Len(t) = Len(s) - 1 /\ Len(s) \in Nat
      /\ \A i \in 1..(Len(s) - 1) : t[i] = s[i + 1]
  OBVIOUS
<1>4. /\ qq \in Seq(Http!Request) /\ Len(qq) = Len(q) - 1
      /\ \A i \in 1..(Len(q) - 1) : qq[i] = q[i + 1]
      /\ Head(q) = q[1] /\ q[1] \in Http!Request
  BY <1>2
<1>5. off \in Nat /\ q[1].body \in Seq(Http!Unit)
  BY <1>4 DEF Http!Request
<1>6. \A p \in Nat, m \in Seq(Http!Unit) :
        p > 0 /\ Http!Message(s, p, m) => Http!Message(t, p - 1, m)
  BY MessageTail
<1> HIDE DEF t, qq, off
<1>7. pos[0] = 0 /\ pos[Len(q)] = Len(s) /\ pos[1] = 1 + off /\ Http!Message(s, 0, q[1].body)
  <2>1. 1 \in 1..Len(q) /\ 1 - 1 = 0
    BY <1>2
  <2>2. pos[1] = pos[1 - 1] + 1 + Len(q[1].body) /\ Http!Message(s, pos[1 - 1], q[1].body) /\ pos[0] = 0
    BY <1>1, <2>1 DEF Http!Cut
  <2> QED BY <1>1, <1>5, <2>1, <2>2 DEF Http!Cut, off
<1>8. s[1] = "h" /\ 1 + off <= Len(s) /\ \A j \in 1..off : s[j + 1] = q[1].body[j]
  BY <1>5, <1>7 DEF Http!Message, off
<1>9. Http!Rest(q[1].body, 0, t)
  <2>1. off <= Len(t) /\ off - 0 = off
    BY <1>3, <1>5, <1>8
  <2>2. \A j \in 1..off : t[j] = q[1].body[0 + j]
    BY <1>3, <1>5, <1>8, <2>1
  <2> QED BY <2>1, <2>2 DEF Http!Rest, off
<1>10. \A i \in 0..Len(qq) : /\ pp[i] = pos[i + 1] - 1 /\ pos[i + 1] \in (1 + off)..Len(s)
                             /\ i + 1 \in 0..Len(q)
  <2> SUFFICES ASSUME NEW i \in 0..Len(qq)
               PROVE  /\ pp[i] = pos[i + 1] - 1 /\ pos[i + 1] \in (1 + off)..Len(s)
                      /\ i + 1 \in 0..Len(q)
    OBVIOUS
  <2>1. i + 1 \in 0..Len(q) /\ 1 \in 0..Len(q) /\ 1 <= i + 1
    BY <1>2, <1>4
  <2>2. pos[1] <= pos[i + 1] /\ pos[i + 1] \in 0..Len(s)
    BY <1>1, <2>1 DEF Http!Cut
  <2> QED BY <1>3, <1>5, <1>7, <2>1, <2>2
<1>11. pp \in [0..Len(qq) -> off..Len(t)]
  <2>1. \A i \in 0..Len(qq) : pos[i + 1] - 1 \in off..Len(t)
    BY <1>3, <1>5, <1>10
  <2> QED BY <2>1
<1> HIDE DEF pp
<1>12. pp[0] = off /\ pp[Len(qq)] = Len(t)
  <2>1. /\ 0 \in 0..Len(qq) /\ 0 + 1 = 1 /\ Len(qq) \in 0..Len(qq)
        /\ Len(qq) + 1 = Len(q)
    BY <1>2, <1>4
  <2>2. pp[0] = pos[1] - 1 /\ pp[Len(qq)] = pos[Len(q)] - 1
    BY <1>10, <2>1
  <2> QED BY <1>3, <1>5, <1>7, <2>2
<1>13. \A i \in 0..Len(qq), j \in 0..Len(qq) : i <= j => pp[i] <= pp[j]
  <2> SUFFICES ASSUME NEW i \in 0..Len(qq), NEW j \in 0..Len(qq), i <= j
               PROVE  pp[i] <= pp[j]
    OBVIOUS
  <2>1. i + 1 \in 0..Len(q) /\ j + 1 \in 0..Len(q) /\ i + 1 <= j + 1
    BY <1>10
  <2>2. pos[i + 1] <= pos[j + 1]
    BY <1>1, <2>1 DEF Http!Cut
  <2> QED BY <1>3, <1>5, <1>10, <2>2
<1>14. ASSUME NEW i \in 1..Len(qq)
       PROVE  pp[i] = pp[i - 1] + 1 + Len(qq[i].body) /\ Http!Message(t, pp[i - 1], qq[i].body)
  <2>1. /\ i + 1 \in 1..Len(q) /\ (i + 1) - 1 = i /\ (i - 1) + 1 = i
        /\ i - 1 \in 0..Len(qq) /\ i \in 0..Len(qq) /\ qq[i] = q[i + 1]
        /\ q[i + 1] \in Http!Request
    BY <1>2, <1>4
  <2>2. pos[i + 1] = pos[i] + 1 + Len(q[i + 1].body) /\ Http!Message(s, pos[i], q[i + 1].body)
    BY <1>1, <2>1 DEF Http!Cut
  <2>3. /\ pp[i] = pos[i + 1] - 1 /\ pp[i - 1] = pos[i] - 1
        /\ pos[i] \in Nat /\ pos[i] > 0 /\ pos[i + 1] \in Nat
    <3>1. pp[i] = pos[i + 1] - 1 /\ pos[i + 1] \in (1 + off)..Len(s)
      BY <1>10, <2>1
    <3>2. pp[i - 1] = pos[(i - 1) + 1] - 1 /\ pos[(i - 1) + 1] \in (1 + off)..Len(s)
      BY <1>10, <2>1
    <3>3. \A x \in (1 + off)..Len(s) : x \in Nat /\ x > 0
      BY <1>3, <1>5
    <3> QED BY <2>1, <3>1, <3>2, <3>3
  <2>4. Len(q[i + 1].body) \in Nat /\ q[i + 1].body \in Seq(Http!Unit)
    BY <2>1, BodyOf
  <2>5. Http!Message(t, pp[i - 1], qq[i].body)
    BY <1>6, <2>1, <2>2, <2>3, <2>4
  <2>6. \A x, y, k \in Nat : x = y + 1 + k => x - 1 = (y - 1) + 1 + k
    OBVIOUS
  <2>7. pos[i + 1] - 1 = (pos[i] - 1) + 1 + Len(q[i + 1].body)
    BY <2>2, <2>3, <2>4, <2>6
  <2>8. pp[i] = pp[i - 1] + 1 + Len(q[i + 1].body)
    BY ONLY <2>3, <2>7, Zenon
  <2>9. Len(q[i + 1].body) = Len(qq[i].body)
    BY ONLY <2>1, Zenon
  <2>10. pp[i] = pp[i - 1] + 1 + Len(qq[i].body)
    BY ONLY <2>8, <2>9, Zenon
  <2> QED BY ONLY <2>5, <2>10, Zenon
<1>15. Http!Cut(off, qq, t, pp)
  BY <1>12, <1>13, <1>14 DEF Http!Cut
<1>16. Http!Holds(off, qq, t)
  BY <1>11, <1>15 DEF Http!Holds
<1> QED BY <1>2, <1>4, <1>8, <1>9, <1>16 DEF t, qq, off

\* An empty stream holds no request.
LEMMA HoldsEmpty ==
    ASSUME NEW q \in Seq(Http!Request), Http!Holds(0, q, <<>>)
    PROVE  q = <<>>
<1>1. PICK pos \in [0..Len(q) -> 0..Len(<<>>)] : Http!Cut(0, q, <<>>, pos)
  BY DEF Http!Holds
<1>2. SUFFICES ASSUME q # <<>> PROVE FALSE
  OBVIOUS
<1>3. Len(q) \in Nat /\ 1 \in 1..Len(q) /\ 1 \in 0..Len(q) /\ 1 - 1 = 0
  BY <1>2
<1>4. pos[1] = pos[1 - 1] + 1 + Len(q[1].body) /\ pos[0] = 0
  BY <1>1, <1>3 DEF Http!Cut
<1>5. Len(q[1].body) \in Nat
  BY <1>3, BodyOf
<1>6. pos[1] = 0
  BY <1>1, <1>3
<1> QED BY <1>3, <1>4, <1>5, <1>6

\* What is left of a body, when units arrive and when one is taken.
LEMMA RestStays ==
    ASSUME NEW body \in Seq(Http!Unit), NEW i \in 0..Len(body), NEW s \in Seq(Http!Unit),
           NEW t \in Seq(Http!Unit), Http!Rest(body, i, s)
    PROVE  Http!Rest(body, i, s \o t)
<1> DEFINE v == s \o t
<1>1. /\ v \in Seq(Http!Unit) /\ Len(v) = Len(s) + Len(t)
      /\ \A j \in 1..Len(s) : v[j] = s[j]
  OBVIOUS
<1> HIDE DEF v
<1>2. Len(body) - i <= Len(s) /\ \A j \in 1..(Len(body) - i) : s[j] = body[i + j]
  BY DEF Http!Rest
<1>3. Len(body) - i <= Len(v) /\ \A j \in 1..(Len(body) - i) : v[j] = body[i + j]
  BY <1>1, <1>2
<1> QED BY <1>3 DEF Http!Rest, v

\* The next unit of the stream is the next unit of the body.
LEMMA RestTail ==
    ASSUME NEW body \in Seq(Http!Unit), NEW i \in 0..(Len(body) - 1), NEW s \in Seq(Http!Unit),
           Http!Rest(body, i, s)
    PROVE  s # <<>> /\ s[1] = body[i + 1] /\ Http!Rest(body, i + 1, Tail(s))
<1> DEFINE t == Tail(s)
<1>1. Len(body) - i <= Len(s) /\ \A j \in 1..(Len(body) - i) : s[j] = body[i + j]
  BY DEF Http!Rest
<1>2. s # <<>> /\ 1 \in 1..(Len(body) - i)
  BY <1>1
<1>3. /\ t \in Seq(Http!Unit) /\ Len(t) = Len(s) - 1
      /\ \A j \in 1..(Len(s) - 1) : t[j] = s[j + 1]
  BY <1>2
<1> HIDE DEF t
<1>4. Len(body) - (i + 1) <= Len(t)
  BY <1>1, <1>3
<1>5. \A j \in 1..(Len(body) - (i + 1)) : t[j] = body[(i + 1) + j]
  <2> SUFFICES ASSUME NEW j \in 1..(Len(body) - (i + 1)) PROVE t[j] = body[(i + 1) + j]
    OBVIOUS
  <2>1. j \in 1..(Len(s) - 1) /\ j + 1 \in 1..(Len(body) - i) /\ i + (j + 1) = (i + 1) + j
    BY <1>1
  <2> QED BY <1>1, <1>3, <2>1
<1> QED BY <1>1, <1>2, <1>4, <1>5 DEF Http!Rest, t

\* The three places of a unit: it moves on without a change of the stream.
LEMMA ConcatMove ==
    ASSUME NEW a0 \in Seq(Http!Unit), NEW b0 \in Seq(Http!Unit), NEW c0 \in Seq(Http!Unit),
           c0 # <<>>
    PROVE  a0 \o Append(b0, Head(c0)) \o Tail(c0) = a0 \o b0 \o c0
<1>1. Append(b0, Head(c0)) \in Seq(Http!Unit) /\ Tail(c0) \in Seq(Http!Unit)
  OBVIOUS
<1>2. Append(b0, Head(c0)) \o Tail(c0) = b0 \o c0
  OBVIOUS
<1>3. a0 \o Append(b0, Head(c0)) \o Tail(c0) = a0 \o (Append(b0, Head(c0)) \o Tail(c0))
  <2> DEFINE x == Append(b0, Head(c0))
             y == Tail(c0)
  <2>1. x \in Seq(Http!Unit) /\ y \in Seq(Http!Unit)
    BY <1>1
  <2> HIDE DEF x, y
  <2>2. a0 \o x \o y = a0 \o (x \o y)
    <3> DEFINE S == Http!Unit
    <3>1. a0 \in Seq(S) /\ x \in Seq(S) /\ y \in Seq(S)
      BY <2>1
    <3> HIDE DEF S
    <3> QED BY <3>1, ConcatAssociative
  <2> QED BY <2>2 DEF x, y
<1>4. a0 \o b0 \o c0 = a0 \o (b0 \o c0)
  BY ConcatAssociative
<1> QED BY <1>2, <1>3, <1>4

\* A fill of the reader.
LEMMA ConcatFill ==
    ASSUME NEW s \in Seq(Http!Unit), NEW k \in 1..Len(s)
    PROVE  SubSeq(s, 1, k) \o SubSeq(s, k + 1, Len(s)) = <<>> \o s
<1>1. SubSeq(s, 1, k) \o SubSeq(s, k + 1, Len(s)) = s
  OBVIOUS
<1>2. <<>> \o s = s
  OBVIOUS
<1> QED BY <1>1, <1>2

\* The first unit of the reader is the first of the stream.
LEMMA ConcatTake ==
    ASSUME NEW a0 \in Seq(Http!Unit), NEW b0 \in Seq(Http!Unit), NEW c0 \in Seq(Http!Unit),
           a0 # <<>>
    PROVE  /\ a0 \o b0 \o c0 # <<>>
           /\ (a0 \o b0 \o c0)[1] = Head(a0)
           /\ Tail(a0) \o b0 \o c0 = Tail(a0 \o b0 \o c0)
<1>1. ASSUME NEW x \in Seq(Http!Unit), NEW y \in Seq(Http!Unit), x # <<>>
      PROVE  /\ x \o y \in Seq(Http!Unit) /\ x \o y # <<>> /\ (x \o y)[1] = Head(x)
             /\ Tail(x) \o y = Tail(x \o y) /\ Head(x) = x[1]
  BY <1>1
<1>2. /\ a0 \o b0 \in Seq(Http!Unit) /\ a0 \o b0 # <<>> /\ (a0 \o b0)[1] = Head(a0)
      /\ Tail(a0) \o b0 = Tail(a0 \o b0)
  BY <1>1
<1> DEFINE d0 == a0 \o b0
<1>3. /\ d0 \o c0 # <<>> /\ (d0 \o c0)[1] = Head(d0) /\ Tail(d0) \o c0 = Tail(d0 \o c0)
      /\ Head(d0) = d0[1]
  <2> HIDE DEF d0
  <2> QED BY <1>1, <1>2 DEF d0
<1> QED BY <1>2, <1>3

(***************************************************************************)
(* The framing decisions                                                   *)
(***************************************************************************)

\* What peers are assumed to send.
LEMMA RequestTypes ==
    ASSUME NEW r \in Requests
    PROVE  r \in Http!Request /\ r.body \in Seq(Http!Unit) /\ Len(r.body) \in Nat
<1>1. r \in Http!Request
  BY PeersAssumption DEF Http!PeersAreFramed
<1> QED BY <1>1, BodyOf

\* requestBody finds the framing of a request that keeps to the grammar and is
\* not misread.
LEMMA RequestKinds ==
    ASSUME NEW r \in Requests, ~Http!Misread(r)
    PROVE  /\ r \in Http!Request /\ r.body \in Seq(Http!Unit) /\ Len(r.body) \in Nat
           /\ \/ /\ Http!requestBody(r) = <<"size", 0>>
                 /\ Http!EndsAt(r.body, Len(r.body)) /\ Len(r.body) > 0
              \/ Http!requestBody(r) = <<"done", 0>> /\ Len(r.body) = 0
              \/ /\ Len(r.body) > 0 /\ Http!requestBody(r) = <<"data", Len(r.body)>>
                 /\ Http!requestBody(r) = Http!Fixed(Len(r.body))
<1>1. r \in Http!Request /\ Http!RequestFramed(r)
  BY PeersAssumption DEF Http!PeersAreFramed
<1>2. r.cl \in Int
  BY <1>1 DEF Http!Request
<1>3. r.body \in Seq(Http!Unit) /\ Len(r.body) \in Nat
  BY RequestTypes
<1>4. CASE r.te # <<>>
  <2>1. Http!EndsAt(r.body, Len(r.body))
    BY <1>1, <1>4 DEF Http!RequestFramed
  <2>2. Http!requestIsChunked(r)
    BY <1>4 DEF Http!Misread
  <2>3. Len(r.body) > 0
    <3>1. PICK k \in 0..Len(r.body) : 3 * k + 1 < Len(r.body)
      BY <2>1 DEF Http!EndsAt
    <3> QED BY <1>3, <3>1
  <2> QED BY <1>1, <1>3, <2>1, <2>2, <2>3 DEF Http!requestBody
<1>5. CASE r.te = <<>>
  <2>1. ~Http!requestIsChunked(r)
    BY <1>5 DEF Http!requestIsChunked, Http!ToSet
  <2>2. Len(r.body) = IF r.cl > 0 THEN r.cl ELSE 0
    BY <1>1, <1>5 DEF Http!RequestFramed
  <2> QED BY <1>1, <1>2, <1>3, <2>1, <2>2 DEF Http!requestBody, Http!Fixed
<1> QED BY <1>4, <1>5

\* One unit more of a request's body: the copy meets no error, and it ends with
\* the body, neither before nor behind it.
LEMMA RequestStep ==
    ASSUME NEW r \in Requests, ~Http!Misread(r), NEW i \in 0..(Len(r.body) - 1), NEW n,
           Http!Reads(Http!requestBody(r), r.body, i, n), n[1] # "done"
    PROVE  LET m == Http!Take(n, r.body[i + 1])
           IN  /\ m[1] # "error"
               /\ Http!Reads(Http!requestBody(r), r.body, i + 1, m)
               /\ m[1] = "done" <=> i + 1 = Len(r.body)
<1> DEFINE b0 == r.body
           from == Http!requestBody(r)
           m == Http!Take(n, b0[i + 1])
<1>1. b0 \in Seq(Http!Unit) /\ Len(b0) \in Nat /\ i \in Nat /\ i < Len(b0) /\ i + 1 \in Nat
  BY RequestTypes
<1>2. CASE from = <<"size", 0>> /\ Http!EndsAt(b0, Len(b0))
  <2>1. Http!Reads(<<"size", 0>>, b0, i, n)
    BY <1>2
  <2> HIDE DEF b0
  <2>2. m[1] # "error"
    BY <1>1, <1>2, <2>1, ReadsToTheEnd
  <2>3. Http!Reads(<<"size", 0>>, b0, i + 1, m)
    BY <1>1, <2>1, <2>2, ReadsChunked
  <2> HIDE DEF m
  <2>4. /\ m[1] = "done" => i + 1 = Len(b0)
        /\ m[1] # "done" => i + 1 < Len(b0)
    BY <1>1, <1>2, <2>3, ReadsToTheEnd
  <2> QED BY <1>1, <1>2, <2>2, <2>3, <2>4 DEF b0, m
<1>3. CASE from = <<"done", 0>> /\ Len(b0) = 0
  BY <1>1, <1>3
<1>4. CASE from = <<"data", Len(b0)>>
  <2>1. n = Http!Fixed(Len(b0) - i)
    BY <1>4 DEF Http!Reads
  <2> DEFINE k == Len(b0)
  <2>2. k \in Nat /\ i \in Nat /\ i < k /\ n = Http!Fixed(k - i)
    BY <1>1, <2>1
  <2> HIDE DEF k, b0
  <2>3. n = <<"data", k - i>>
    BY <2>2 DEF Http!Fixed
  <2>4. m = Http!Fixed(k - (i + 1)) /\ m[1] # "error" /\ (m[1] = "done" <=> i + 1 = k)
    <3>1. n[1] = "data" /\ n[2] = k - i
      BY <2>3
    <3>2. m = IF n[2] > 1 THEN <<"data", n[2] - 1>> ELSE <<"done", 0>>
      BY <3>1 DEF Http!Take
    <3>3. CASE i + 1 = k
      BY <2>2, <3>1, <3>2, <3>3 DEF Http!Fixed
    <3>4. CASE i + 1 < k
      <4>1. m = <<"data", k - (i + 1)>> /\ k - (i + 1) # 0
        BY <2>2, <3>1, <3>2, <3>4
      <4> QED BY <2>2, <3>4, <4>1 DEF Http!Fixed
    <3> QED BY <2>2, <3>3, <3>4
  <2>5. Http!Reads(from, b0, i + 1, m)
    BY <1>4, <2>2, <2>4 DEF Http!Reads, k
  <2> QED BY <2>4, <2>5 DEF k, b0
<1> QED BY <1>2, <1>3, <1>4, RequestKinds

\* The copy of a response begins in one of four ways (proxyHTTPBody).
LEMMA ResponseKinds ==
    ASSUME NEW r, NEW s \in Responses
    PROVE  /\ s.body \in Seq(Http!Unit) /\ Http!Sent(r, s) \in Seq(Http!Unit)
           /\ \E c \in Nat : Http!responseBody(r, s) \in
                  {<<"size", 0>>, <<"eof", 0>>, <<"done", 0>>, Http!Fixed(c)}
<1>1. s \in Http!Response
  BY PeersAssumption DEF Http!PeersAreFramed
<1>2. s.body \in Seq(Http!Unit) /\ s.cl \in Int
  BY <1>1 DEF Http!Response
<1>3. Http!Sent(r, s) \in Seq(Http!Unit)
  BY <1>2 DEF Http!Sent
<1>4. CASE s.cl >= 0
  BY <1>2, <1>3, <1>4 DEF Http!responseBody
<1>5. CASE ~(s.cl >= 0)
  <2>1. 0 \in Nat
    OBVIOUS
  <2> QED BY <1>2, <1>3, <1>5, <2>1 DEF Http!responseBody
<1> QED BY <1>4, <1>5

\* A copy that is done before the end of what was sent has one of the reasons
\* of LossIsExplained.
LEMMA ResponseLoss ==
    ASSUME NEW r, NEW s \in Responses, NEW i \in 0..Len(Http!Sent(r, s)), NEW n,
           i < Len(Http!Sent(r, s)), n[1] = "done",
           Http!Reads(Http!responseBody(r, s), Http!Sent(r, s), i, n)
    PROVE  \/ s.status \in 100..199
           \/ s.cl < 0 /\ ~s.close /\ ~Http!responseChunked(s)
<1>1. s \in Http!Response /\ Http!ResponseFramed(s)
  BY PeersAssumption DEF Http!PeersAreFramed
<1>2. s.body \in Seq(Http!Unit) /\ s.cl \in Int /\ Len(s.body) \in Nat
  BY <1>1 DEF Http!Response
<1>3. Http!Sent(r, s) = s.body /\ r.method # "HEAD"
  BY <1>2 DEF Http!Sent
<1>4. SUFFICES ASSUME s.status \notin 100..199
               PROVE  s.cl < 0 /\ ~s.close /\ ~Http!responseChunked(s)
  OBVIOUS
<1>5. /\ s.status \in {204, 304} => s.body = <<>>
      /\ s.te = <<"chunked">> => \A e \in 0..(Len(s.body) - 1) : ~Http!EndsAt(s.body, e)
      /\ s.cl >= 0 => (s.te = <<>> /\ Len(s.body) <= s.cl) \/ s.status = 304
  BY <1>1, <1>4 DEF Http!ResponseFramed
<1>6. s.status \notin {204, 304}
  BY <1>2, <1>3, <1>5
<1>7. ~Http!responseHasNoBody(r, s)
  BY <1>3, <1>4, <1>6 DEF Http!responseHasNoBody
<1>8. ~Http!responseChunked(s)
  <2>1. SUFFICES ASSUME Http!responseChunked(s) PROVE FALSE
    OBVIOUS
  <2>2. Http!responseBody(r, s) = <<"size", 0>> /\ s.te = <<"chunked">>
    BY <1>7, <2>1 DEF Http!responseBody, Http!responseChunked
  <2>3. Http!EndsAt(s.body, i)
    BY <1>3, <2>2 DEF Http!Reads
  <2> QED BY <1>2, <1>3, <1>5, <2>2, <2>3
<1>9. s.cl < 0
  <2>1. SUFFICES ASSUME s.cl >= 0 PROVE FALSE
    BY <1>2
  <2>2. Http!responseBody(r, s) = Http!Fixed(s.cl) /\ Len(s.body) <= s.cl /\ i < s.cl /\ s.cl > 0
    BY <1>2, <1>3, <1>5, <1>6, <1>7, <1>8, <2>1 DEF Http!responseBody
  <2>3. Http!responseBody(r, s) = <<"data", s.cl>>
    BY <2>2 DEF Http!Fixed
  <2>4. n = Http!Fixed(s.cl - i)
    BY <2>3 DEF Http!Reads
  <2> QED BY <1>2, <2>2, <2>4 DEF Http!Fixed
<1>10. ~s.close
  <2>1. SUFFICES ASSUME s.close PROVE FALSE
    OBVIOUS
  <2>2. Http!responseBody(r, s) = <<"eof", 0>>
    BY <1>2, <1>7, <1>8, <1>9, <2>1 DEF Http!responseBody
  <2>3. n = <<"eof", 0>>
    BY <2>2 DEF Http!Reads
  <2> QED BY <2>3
<1> QED BY <1>8, <1>9, <1>10

(***************************************************************************)
(* The steps of an exchange                                                *)
(***************************************************************************)

\* What the type invariant gives to every step.
LEMMA StreamType ==
    ASSUME Http!ExTypeOK
    PROVE  /\ Http!Stream \in Seq(Http!Unit) /\ queue \in Seq(Http!Request)
           /\ buf \o sock \in Seq(Http!Unit)
<1>1. Requests \subseteq Http!Request
  BY PeersAssumption DEF Http!PeersAreFramed
<1>2. queue \in Seq(Http!Request)
  <2> DEFINE R == Http!Request
  <2>1. queue \in Seq(Requests) /\ Requests \subseteq R
    BY <1>1 DEF Http!ExTypeOK
  <2> HIDE DEF R
  <2>2. \A i \in 1..Len(queue) : queue[i] \in R
    BY <2>1
  <2>3. queue \in Seq(R)
    BY <2>1, <2>2
  <2> QED BY <2>3 DEF R
<1>3. buf \o sock \in Seq(Http!Unit)
  BY DEF Http!ExTypeOK
<1> QED BY <1>2, <1>3 DEF Http!Stream, Http!ExTypeOK

\* Before the first request.
LEMMA ExchangeInit == Http!Init => Http!ExchangeInv
<1> SUFFICES ASSUME Http!Init PROVE Http!ExchangeInv
  OBVIOUS
<1> USE DEF Http!Init
<1>1. Http!ExTypeOK
  BY DEF Http!ExTypeOK
<1>2. Http!Stream = <<>>
  BY DEF Http!Stream
<1>3. Http!Holds(0, <<>>, <<>>)
  <2>1. <<>> \in Seq(Http!Unit) /\ 0 \in Nat /\ 0 = Len(<<>>)
    OBVIOUS
  <2> QED BY <2>1, HoldsNothing, Zenon
<1>4. Http!Aligned
  BY <1>2, <1>3 DEF Http!Aligned
<1>5. Http!InTurn /\ Http!Relayed /\ Http!LossIsExplained
  BY DEF Http!InTurn, Http!Relayed, Http!LossIsExplained
<1> QED BY <1>1, <1>4, <1>5 DEF Http!ExchangeInv

\* The client begins a request.
LEMMA BeginInv ==
    ASSUME Http!ExchangeInv, NEW r \in Requests, Http!Begin(r)
    PROVE  Http!ExchangeInv'
<1> DEFINE u == <<"h">> \o r.body
<1>1. r \in Http!Request /\ r.body \in Seq(Http!Unit)
  BY RequestTypes
<1>2. u \in Seq(Http!Unit)
  BY <1>1 DEF Http!Unit
<1>3. /\ toSend = <<>> /\ toSend' = u /\ queue' = Append(queue, r)
      /\ UNCHANGED <<sock, buf, phase, need, req, resp, up, dropped, misread>>
  BY DEF Http!Begin
<1>4. Http!ExTypeOK /\ Http!Aligned /\ Http!InTurn /\ Http!Relayed /\ Http!LossIsExplained
  BY DEF Http!ExchangeInv
<1>5. Http!Stream \in Seq(Http!Unit) /\ queue \in Seq(Http!Request) /\ buf \o sock \in Seq(Http!Unit)
  BY <1>4, StreamType
<1>6. Http!Stream = buf \o sock /\ Http!Stream' = Http!Stream \o u
  <2> DEFINE v == buf \o sock
  <2>1. v \in Seq(Http!Unit) /\ Http!Stream = v \o toSend
    BY <1>5 DEF Http!Stream
  <2>2. Http!Stream' = v \o u
    BY <1>3 DEF Http!Stream
  <2> HIDE DEF v
  <2>3. v \o <<>> = v
    BY <2>1
  <2> QED BY <1>3, <2>1, <2>2, <2>3 DEF v
<1> HIDE DEF u
<1>7. Http!ExTypeOK'
  BY <1>2, <1>3, <1>4 DEF Http!ExTypeOK
<1>8. \A off \in Nat : Http!Holds(off, queue, Http!Stream) => Http!Holds(off, queue', Http!Stream')
  <2> SUFFICES ASSUME NEW off \in Nat, Http!Holds(off, queue, Http!Stream)
               PROVE  Http!Holds(off, queue', Http!Stream')
    OBVIOUS
  <2>1. Http!Holds(off, Append(queue, r), Http!Stream \o (<<"h">> \o r.body))
    BY <1>1, <1>5, HoldsAppend
  <2> QED BY <1>3, <1>6, <2>1 DEF u
<1>9. Http!Aligned'
  <2>1. SUFFICES ASSUME ~dropped, ~misread
                 PROVE  /\ phase \in {"peek", "wait", "relay"} => Http!Holds(0, queue', Http!Stream')
                        /\ phase = "body" =>
                             \E i \in 0..(Len(req.body) - 1) :
                                /\ Http!Reads(Http!requestBody(req), req.body, i, need)
                                /\ need[1] # "done"
                                /\ Http!Rest(req.body, i, Http!Stream')
                                /\ Http!Holds(Len(req.body) - i, queue', Http!Stream')
    BY <1>3, <1>4 DEF Http!Aligned, Http!Misread, Http!requestIsChunked
  <2>2. CASE phase \in {"peek", "wait", "relay"}
    BY <1>4, <1>8, <2>1, <2>2 DEF Http!Aligned
  <2>3. CASE phase = "body"
    <3>1. PICK i \in 0..(Len(req.body) - 1) :
             /\ Http!Reads(Http!requestBody(req), req.body, i, need) /\ need[1] # "done"
             /\ Http!Rest(req.body, i, Http!Stream)
             /\ Http!Holds(Len(req.body) - i, queue, Http!Stream)
      BY <1>4, <2>1, <2>3 DEF Http!Aligned
    <3>2. req.body \in Seq(Http!Unit) /\ Len(req.body) \in Nat
      BY <1>4, <2>3, RequestTypes DEF Http!ExTypeOK
    <3>3. i \in 0..Len(req.body) /\ Len(req.body) - i \in Nat
      BY <3>2
    <3>4. Http!Rest(req.body, i, Http!Stream')
      BY <1>2, <1>5, <1>6, <3>1, <3>2, <3>3, RestStays
    <3> QED BY <1>8, <2>3, <3>1, <3>3, <3>4
  <2> QED BY <2>2, <2>3
<1>10. Http!InTurn'
  <2>1. SUFFICES ASSUME ~ahead', ~misread
                 PROVE  ~dropped /\ Len(queue') <= 1 /\ phase = "peek"
    BY <1>3 DEF Http!InTurn
  <2>2. ~ahead /\ Http!Idle
    BY <2>1 DEF Http!Begin
  <2>3. ~dropped /\ phase = "peek" /\ sock = <<>> /\ buf = <<>>
    BY <1>4, <2>1, <2>2 DEF Http!InTurn, Http!Idle
  <2>4. Http!Stream = <<>>
    BY <1>6, <2>3
  <2>5. queue = <<>>
    BY <1>4, <1>5, <2>1, <2>3, <2>4, HoldsEmpty DEF Http!Aligned
  <2> QED BY <1>3, <2>3, <2>5
<1>11. Http!Relayed' /\ Http!LossIsExplained'
  BY <1>3, <1>4 DEF Http!Relayed, Http!LossIsExplained
<1> QED BY <1>7, <1>9, <1>10, <1>11 DEF Http!ExchangeInv

\* A step that moves units on their way leaves the stream as it is.
LEMMA MoveInv ==
    ASSUME Http!ExchangeInv, Http!ExTypeOK', Http!Stream' = Http!Stream,
           UNCHANGED <<queue, ahead, phase, need, req, resp, up, dropped, misread>>
    PROVE  Http!ExchangeInv'
BY DEF Http!ExchangeInv, Http!Aligned, Http!Misread, Http!requestIsChunked, Http!InTurn, Http!Relayed, Http!LossIsExplained

\* A unit reaches the proxy's socket.
LEMMA ClientSendsInv == Http!ExchangeInv /\ Http!ClientSends => Http!ExchangeInv'
<1> SUFFICES ASSUME Http!ExchangeInv, Http!ClientSends PROVE Http!ExchangeInv'
  OBVIOUS
<1>1. /\ toSend # <<>> /\ sock' = Append(sock, Head(toSend)) /\ toSend' = Tail(toSend)
      /\ UNCHANGED <<queue, ahead, buf, phase, need, req, resp, up, dropped, misread>>
  BY DEF Http!ClientSends
<1>2. Http!ExTypeOK
  BY DEF Http!ExchangeInv
<1>3. toSend \in Seq(Http!Unit) /\ sock \in Seq(Http!Unit) /\ buf \in Seq(Http!Unit)
  BY <1>2 DEF Http!ExTypeOK
<1>4. toSend' \in Seq(Http!Unit) /\ sock' \in Seq(Http!Unit)
  BY <1>1, <1>3
<1>5. Http!ExTypeOK'
  BY <1>1, <1>2, <1>4 DEF Http!ExTypeOK
<1>6. Http!Stream' = Http!Stream
  BY <1>1, <1>3, ConcatMove DEF Http!Stream
<1> QED BY <1>1, <1>5, <1>6, MoveInv

\* The reader fills from the socket.
LEMMA FillInv ==
    ASSUME Http!ExchangeInv, NEW k \in 1..Len(sock), Http!Fill(k)
    PROVE  Http!ExchangeInv'
<1>1. /\ buf = <<>> /\ buf' = SubSeq(sock, 1, k) /\ sock' = SubSeq(sock, k + 1, Len(sock))
      /\ UNCHANGED <<queue, ahead, toSend, phase, need, req, resp, up, dropped, misread>>
  BY DEF Http!Fill
<1>2. Http!ExTypeOK
  BY DEF Http!ExchangeInv
<1>3. sock \in Seq(Http!Unit)
  BY <1>2 DEF Http!ExTypeOK
<1>4. buf' \in Seq(Http!Unit) /\ sock' \in Seq(Http!Unit)
  BY <1>1, <1>3
<1>5. Http!ExTypeOK'
  BY <1>1, <1>2, <1>4 DEF Http!ExTypeOK
<1>6. buf' \o sock' = buf \o sock
  BY <1>1, <1>3, ConcatFill
<1>7. Http!Stream' = Http!Stream
  BY <1>1, <1>6 DEF Http!Stream
<1> QED BY <1>1, <1>5, <1>7, MoveInv

\* A step that takes the reader's first unit takes the stream's.
LEMMA TakeStream ==
    ASSUME Http!ExTypeOK, buf # <<>>, buf' = Tail(buf), UNCHANGED <<sock, toSend>>
    PROVE  /\ Http!Stream # <<>> /\ Http!Stream[1] = Head(buf)
           /\ Http!Stream' = Tail(Http!Stream) /\ buf' \in Seq(Http!Unit)
<1>1. buf \in Seq(Http!Unit) /\ sock \in Seq(Http!Unit) /\ toSend \in Seq(Http!Unit)
  BY DEF Http!ExTypeOK
<1>2. buf' \in Seq(Http!Unit)
  BY <1>1
<1>3. /\ buf \o sock \o toSend # <<>>
      /\ (buf \o sock \o toSend)[1] = Head(buf)
      /\ Tail(buf) \o sock \o toSend = Tail(buf \o sock \o toSend)
  BY <1>1, ConcatTake, Zenon
<1>4. Http!Stream' = Tail(buf) \o sock \o toSend
  BY DEF Http!Stream
<1> QED BY <1>2, <1>3, <1>4, Zenon DEF Http!Stream

\* The header of the next request is read from its first byte.
LEMMA ReadRequestInv == Http!ExchangeInv /\ Http!ReadRequest => Http!ExchangeInv'
<1> SUFFICES ASSUME Http!ExchangeInv, Http!ReadRequest PROVE Http!ExchangeInv'
  OBVIOUS
<1>1. Http!ExTypeOK /\ Http!Aligned /\ Http!InTurn
  BY DEF Http!ExchangeInv
<1>2. /\ phase = "peek" /\ buf # <<>> /\ ~dropped /\ ~misread /\ misread' = Http!Misread(req')
      /\ buf' = Tail(buf) /\ req' = Head(queue) /\ queue' = Tail(queue)
      /\ need' = Http!requestBody(req') /\ up' = <<>>
      /\ phase' = IF req'.method = "CONNECT" THEN "tunnel"
                  ELSE IF need'[1] = "done" THEN "wait" ELSE "body"
      /\ UNCHANGED <<ahead, toSend, sock, dropped>>
  BY DEF Http!ReadRequest
<1>3. /\ Http!Stream # <<>> /\ Http!Stream' = Tail(Http!Stream) /\ buf' \in Seq(Http!Unit)
      /\ Http!Stream \in Seq(Http!Unit) /\ queue \in Seq(Http!Request)
  BY <1>1, <1>2, StreamType, TakeStream
<1>4. /\ queue # <<>> /\ Http!Rest(req'.body, 0, Http!Stream')
      /\ Http!Holds(Len(req'.body), queue', Http!Stream')
  <2>1. Http!Holds(0, queue, Http!Stream)
    BY <1>1, <1>2 DEF Http!Aligned
  <2> QED BY <1>2, <1>3, <2>1, HoldsHead
<1>5. req' \in Requests /\ queue' \in Seq(Requests)
  BY <1>1, <1>2, <1>4 DEF Http!ExTypeOK
<1>6. phase' \in {"tunnel", "wait", "body"} /\ "peek" # phase'
  BY <1>2
<1>7. Http!ExTypeOK'
  BY <1>1, <1>2, <1>3, <1>5, <1>6 DEF Http!ExTypeOK
<1>8. /\ req'.body \in Seq(Http!Unit) /\ Len(req'.body) \in Nat
      /\ \/ misread'
         \/ need' = <<"size", 0>> /\ Len(req'.body) > 0
         \/ need' = <<"done", 0>> /\ Len(req'.body) = 0
         \/ Len(req'.body) > 0 /\ need' = <<"data", Len(req'.body)>> /\ need' = Http!Fixed(Len(req'.body))
  <2>1. req'.body \in Seq(Http!Unit) /\ Len(req'.body) \in Nat
    BY <1>5, RequestTypes
  <2>2. CASE misread'
    BY <2>1, <2>2
  <2>3. CASE ~misread'
    <3>1. ~Http!Misread(req')
      BY <1>2, <2>3
    <3> QED BY <1>2, <1>5, <2>1, <3>1, RequestKinds
  <2> QED BY <2>2, <2>3
<1>9. Http!Aligned'
  <2>0. SUFFICES ASSUME ~misread', ~Http!Misread(req') PROVE Http!Aligned'
    BY <1>2 DEF Http!Aligned
  <2> USE <2>0
  <2>1. CASE phase' = "tunnel"
    BY <2>1 DEF Http!Aligned
  <2>2. CASE phase' = "wait"
    <3>1. Len(req'.body) = 0
      BY <1>2, <1>8, <2>2
    <3> QED BY <1>4, <2>2, <3>1 DEF Http!Aligned
  <2>3. CASE phase' = "body"
    <3>1. need'[1] # "done" /\ Len(req'.body) > 0
      BY <1>2, <1>8, <2>3
    <3>2. 0 \in 0..(Len(req'.body) - 1) /\ Len(req'.body) - 0 = Len(req'.body)
      BY <1>8, <3>1
    <3>3. Http!Reads(need', req'.body, 0, need')
      BY <1>8, ReadsFirst
    <3>4. ~Http!Misread(req)'
      BY <2>0 DEF Http!Misread, Http!requestIsChunked
    <3> QED BY <1>2, <1>4, <2>3, <3>1, <3>2, <3>3, <3>4 DEF Http!Aligned
  <2> QED BY <1>6, <2>1, <2>2, <2>3
<1>10. Http!InTurn'
  <2>1. ~ahead => queue' = <<>> /\ Len(queue') <= 1
    BY <1>1, <1>2, <1>3, <1>4 DEF Http!InTurn
  <2> QED BY <1>2, <2>1 DEF Http!InTurn
<1>11. Http!Relayed' /\ Http!LossIsExplained'
  BY <1>6 DEF Http!Relayed, Http!LossIsExplained
<1> QED BY <1>7, <1>9, <1>10, <1>11 DEF Http!ExchangeInv

\* The dial fails and the connection is closed, or there is no request to read.
LEMMA DialFailsInv == Http!ExchangeInv /\ (Http!DialFails \/ Http!NotHttp) => Http!ExchangeInv'
BY DEF Http!DialFails, Http!NotHttp, Http!ExchangeInv, Http!ExTypeOK, Http!Aligned, Http!InTurn,
       Http!Relayed, Http!LossIsExplained

\* One unit of a request's body.
LEMMA CopyRequestBodyInv == Http!ExchangeInv /\ Http!CopyRequestBody => Http!ExchangeInv'
<1> SUFFICES ASSUME Http!ExchangeInv, Http!CopyRequestBody PROVE Http!ExchangeInv'
  OBVIOUS
<1>1. Http!ExTypeOK /\ Http!Aligned /\ Http!InTurn
  BY DEF Http!ExchangeInv
<1>2. /\ phase = "body" /\ buf # <<>>
      /\ buf' = Tail(buf) /\ need' = Http!Take(need, Head(buf))
      /\ phase' = CASE need'[1] = "done" -> "wait" [] need'[1] = "error" -> "closed" [] OTHER -> "body"
      /\ UNCHANGED <<queue, ahead, toSend, sock, req, resp, up, dropped, misread>>
  BY DEF Http!CopyRequestBody
<1>3. /\ Http!Stream # <<>> /\ Http!Stream[1] = Head(buf) /\ Http!Stream' = Tail(Http!Stream)
      /\ buf' \in Seq(Http!Unit)
      /\ Http!Stream \in Seq(Http!Unit) /\ queue \in Seq(Http!Request)
  BY <1>1, <1>2, StreamType, TakeStream
<1>4. phase' \in {"wait", "closed", "body"}
  BY <1>2
<1>5. Http!ExTypeOK'
  BY <1>1, <1>2, <1>3, <1>4 DEF Http!ExTypeOK
<1>6. Http!Aligned'
  <2>1. SUFFICES ASSUME ~dropped, ~misread PROVE Http!Aligned'
    BY <1>2 DEF Http!Aligned
  <2>11. ~Http!Misread(req) /\ ~Http!Misread(req)'
    BY <1>1, <1>2, <2>1 DEF Http!Aligned, Http!Misread, Http!requestIsChunked
  <2>2. PICK i \in 0..(Len(req.body) - 1) :
           /\ Http!Reads(Http!requestBody(req), req.body, i, need) /\ need[1] # "done"
           /\ Http!Rest(req.body, i, Http!Stream)
           /\ Http!Holds(Len(req.body) - i, queue, Http!Stream)
    BY <1>1, <1>2, <2>1 DEF Http!Aligned
  <2>3. req \in Requests /\ req.body \in Seq(Http!Unit) /\ Len(req.body) \in Nat
    BY <1>1, <1>2, RequestTypes DEF Http!ExTypeOK
  <2>4. Http!Stream[1] = req.body[i + 1] /\ Http!Rest(req.body, i + 1, Http!Stream')
    BY <1>3, <2>2, <2>3, RestTail
  <2>5. need' = Http!Take(need, req.body[i + 1])
    BY <1>2, <1>3, <2>4
  <2>6. /\ need'[1] # "error" /\ Http!Reads(Http!requestBody(req), req.body, i + 1, need')
        /\ need'[1] = "done" <=> i + 1 = Len(req.body)
    BY <2>2, <2>3, <2>5, <2>11, RequestStep
  <2>7. Http!Holds(Len(req.body) - (i + 1), queue, Http!Stream')
    <3> DEFINE off == Len(req.body) - i
    <3>1. off \in Nat /\ off > 0 /\ Len(req.body) - (i + 1) = off - 1
      BY <2>3
    <3> HIDE DEF off
    <3>2. Http!Holds(off, queue, Http!Stream)
      BY <2>2 DEF off
    <3> QED BY <1>3, <3>1, <3>2, HoldsTail
  <2>8. CASE need'[1] = "done"
    <3>1. phase' = "wait" /\ Len(req.body) - (i + 1) = 0
      BY <1>2, <2>3, <2>6, <2>8
    <3> QED BY <1>2, <2>7, <3>1 DEF Http!Aligned
  <2>9. CASE need'[1] # "done"
    <3>1. phase' = "body"
      BY <1>2, <2>6, <2>9
    <3>2. i + 1 \in 0..(Len(req.body) - 1)
      BY <2>3, <2>6, <2>9
    <3> QED BY <1>2, <2>4, <2>6, <2>7, <2>9, <2>11, <3>1, <3>2 DEF Http!Aligned
  <2> QED BY <2>8, <2>9
<1>7. Http!InTurn'
  BY <1>1, <1>2, <1>4 DEF Http!InTurn
<1>8. Http!Relayed' /\ Http!LossIsExplained'
  BY <1>4 DEF Http!Relayed, Http!LossIsExplained
<1> QED BY <1>5, <1>6, <1>7, <1>8 DEF Http!ExchangeInv

\* The response's header.
LEMMA ReadResponseInv ==
    ASSUME Http!ExchangeInv, NEW s \in Responses, NEW k \in 0..Len(s.body), Http!ReadResponse(s, k)
    PROVE  Http!ExchangeInv'
<1>1. Http!ExTypeOK /\ Http!Aligned /\ Http!InTurn
  BY DEF Http!ExchangeInv
<1>2. /\ phase = "wait" /\ resp' = s
      /\ UNCHANGED <<queue, ahead, toSend, sock, buf, req, dropped, misread>>
  BY DEF Http!ReadResponse
<1>3. s.body \in Seq(Http!Unit) /\ Http!Sent(req, s) \in Seq(Http!Unit)
  BY ResponseKinds
<1>4. CASE s.status = 101 /\ s.upgrade
  <2>1. phase' = "tunnel" /\ up' = SubSeq(s.body, k + 1, Len(s.body))
    BY <1>4 DEF Http!ReadResponse
  <2>2. up' \in Seq(Http!Unit)
    BY <1>3, <2>1
  <2> QED BY <1>1, <1>2, <2>1, <2>2
         DEF Http!ExchangeInv, Http!ExTypeOK, Http!Aligned, Http!InTurn, Http!Relayed,
             Http!LossIsExplained
<1>5. CASE ~(s.status = 101 /\ s.upgrade)
  <2>1. phase' = "relay" /\ need' = Http!responseBody(req, s) /\ up' = Http!Sent(req, s)
    BY <1>5 DEF Http!ReadResponse
  <2>2. Http!ExTypeOK'
    BY <1>1, <1>2, <1>3, <2>1 DEF Http!ExTypeOK
  <2>3. Http!Stream' = Http!Stream
    BY <1>2 DEF Http!Stream
  <2>4. Http!Aligned' /\ Http!InTurn'
    BY <1>1, <1>2, <2>1, <2>3 DEF Http!Aligned, Http!InTurn
  <2>5. Http!Relayed'
    <3> DEFINE b0 == Http!Sent(req, s)
    <3>1. b0 \in Seq(Http!Unit)
      BY <1>3
    <3>2. Http!Reads(need', b0, 0, need')
      BY <2>1, ResponseKinds, ReadsFirst
    <3> HIDE DEF b0
    <3>3. 0 \in 0..Len(b0) /\ Len(b0) = Len(b0) - 0 /\ Http!Rest(b0, 0, b0)
      BY <3>1 DEF Http!Rest
    <3>4. Http!Sent(req', resp') = b0 /\ Http!responseBody(req', resp') = need' /\ up' = b0
      BY <1>2, <2>1 DEF b0
    <3> QED BY <3>2, <3>3, <3>4 DEF Http!Relayed
  <2>6. Http!LossIsExplained'
    BY <2>1 DEF Http!LossIsExplained
  <2> QED BY <2>2, <2>4, <2>5, <2>6 DEF Http!ExchangeInv
<1> QED BY <1>4, <1>5

\* One unit of the response, or the end of the stream.
LEMMA RelayBodyInv == Http!ExchangeInv /\ Http!RelayBody => Http!ExchangeInv'
<1> SUFFICES ASSUME Http!ExchangeInv, Http!RelayBody PROVE Http!ExchangeInv'
  OBVIOUS
<1>1. Http!ExTypeOK /\ Http!Aligned /\ Http!InTurn /\ Http!Relayed
  BY DEF Http!ExchangeInv
<1>2. /\ phase = "relay" /\ need[1] # "done" /\ phase' \in {"relay", "closed"}
      /\ UNCHANGED <<queue, ahead, toSend, sock, buf, req, resp, dropped, misread>>
  BY DEF Http!RelayBody
<1>3. up \in Seq(Http!Unit)
  BY <1>1 DEF Http!ExTypeOK
<1>4. up' \in Seq(Http!Unit)
  BY <1>3 DEF Http!RelayBody
<1>5. Http!ExTypeOK'
  BY <1>1, <1>2, <1>4 DEF Http!ExTypeOK
<1>6. Http!Stream' = Http!Stream
  BY <1>2 DEF Http!Stream
<1>7. Http!Aligned' /\ Http!InTurn'
  BY <1>1, <1>2, <1>6 DEF Http!Aligned, Http!InTurn
<1>8. Http!LossIsExplained'
  BY <1>2 DEF Http!LossIsExplained
<1>9. Http!Relayed'
  <2>1. CASE up = <<>>
    BY <2>1 DEF Http!Relayed, Http!RelayBody
  <2>2. CASE up # <<>>
    <3> DEFINE b0 == Http!Sent(req, resp)
               from == Http!responseBody(req, resp)
    <3>1. /\ need' = Http!Take(need, Head(up)) /\ up' = Tail(up)
          /\ phase' = IF need'[1] = "error" THEN "closed" ELSE "relay"
      BY <2>2 DEF Http!RelayBody
    <3>2. PICK i \in 0..Len(b0) : /\ Len(up) = Len(b0) - i /\ Http!Rest(b0, i, up)
                                  /\ Http!Reads(from, b0, i, need)
      BY <1>1, <1>2, <2>2 DEF Http!Relayed
    <3>3. b0 \in Seq(Http!Unit) /\ \E c \in Nat : from \in
                  {<<"size", 0>>, <<"eof", 0>>, <<"done", 0>>, Http!Fixed(c)}
      BY <1>1, <1>2, ResponseKinds DEF Http!ExTypeOK
    <3> HIDE DEF b0, from
    <3>4. i \in 0..(Len(b0) - 1) /\ i \in Nat /\ i < Len(b0) /\ i + 1 \in 0..Len(b0)
      BY <1>3, <2>2, <3>2, <3>3
    <3>5. up[1] = b0[i + 1] /\ Http!Rest(b0, i + 1, up') /\ Head(up) = up[1]
      BY <1>3, <2>2, <3>1, <3>2, <3>3, <3>4, RestTail
    <3>6. need'[1] = "error" \/ Http!Reads(from, b0, i + 1, need')
      BY <1>2, <3>1, <3>2, <3>3, <3>4, <3>5, ReadsNext
    <3>7. Len(up') = Len(b0) - (i + 1)
      BY <1>3, <2>2, <3>1, <3>2, <3>3
    <3>8. Http!Sent(req', resp') = b0 /\ Http!responseBody(req', resp') = from
      BY <1>2 DEF b0, from
    <3> QED BY <3>1, <3>4, <3>5, <3>6, <3>7, <3>8 DEF Http!Relayed
  <2> QED BY <2>1, <2>2
<1> QED BY <1>5, <1>7, <1>8, <1>9 DEF Http!ExchangeInv

\* The loop goes round with a new reader: the old one is empty unless the
\* client pipelines.
LEMMA EndExchangeInv == Http!ExchangeInv /\ Http!EndExchange => Http!ExchangeInv'
<1> SUFFICES ASSUME Http!ExchangeInv, Http!EndExchange PROVE Http!ExchangeInv'
  OBVIOUS
<1>1. Http!ExTypeOK /\ Http!Aligned /\ Http!InTurn /\ Http!Relayed
  BY DEF Http!ExchangeInv
<1>2. /\ phase = "relay" /\ need[1] = "done" /\ phase' \in {"peek", "done"}
      /\ UNCHANGED <<queue, ahead, toSend, sock, req, resp, up, misread>>
  BY DEF Http!EndExchange
<1>3. \/ phase' = "done" /\ UNCHANGED <<buf, dropped>>
      \/ phase' = "peek" /\ buf' = <<>> /\ dropped' = (dropped \/ buf # <<>>)
  BY DEF Http!EndExchange
<1>4. buf \in Seq(Http!Unit) /\ buf' \in Seq(Http!Unit)
  <2>1. buf' = buf \/ buf' = <<>>
    BY <1>3, Zenon
  <2>2. buf \in Seq(Http!Unit) /\ <<>> \in Seq(Http!Unit)
    BY <1>1 DEF Http!ExTypeOK
  <2> QED BY <2>1, <2>2, Zenon
<1>5. Http!ExTypeOK'
  BY <1>1, <1>2, <1>4 DEF Http!ExTypeOK
<1>6. ~dropped' => ~dropped /\ (phase' = "peek" => buf = <<>> /\ buf' = <<>>)
  BY <1>3
<1>7. Http!Aligned'
  <2>1. ~dropped' /\ phase' = "peek" => Http!Stream' = Http!Stream /\ ~dropped
    BY <1>2, <1>6 DEF Http!Stream
  <2> QED BY <1>1, <1>2, <2>1 DEF Http!Aligned
<1>8. Http!InTurn'
  <2>1. SUFFICES ASSUME ~ahead, ~misread PROVE ~dropped' /\ Len(queue) <= 1
    BY <1>2 DEF Http!InTurn
  <2>2. ~dropped /\ queue = <<>> /\ Len(queue) <= 1
    BY <1>1, <1>2, <2>1 DEF Http!InTurn
  <2>3. Http!Holds(0, <<>>, Http!Stream)
    BY <1>1, <1>2, <2>1, <2>2 DEF Http!Aligned
  <2>4. Http!Stream \in Seq(Http!Unit)
    BY <1>1, StreamType
  <2>5. Len(Http!Stream) = 0
    <3>1. 0 \in Nat
      OBVIOUS
    <3>2. 0 = Len(Http!Stream)
      BY <2>3, <2>4, <3>1, HoldsNothing, Zenon
    <3> QED BY <3>2
  <2>6. buf = <<>>
    <3>1. buf # <<>> => Http!Stream # <<>>
      <4>1. sock \in Seq(Http!Unit) /\ toSend \in Seq(Http!Unit)
        BY <1>1 DEF Http!ExTypeOK
      <4> QED BY <1>4, <4>1, ConcatTake, Zenon DEF Http!Stream
    <3>2. \A v \in Seq(Http!Unit) : Len(v) = 0 => v = <<>>
      OBVIOUS
    <3> QED BY <2>4, <2>5, <3>1, <3>2, Zenon
  <2>7. CASE phase' = "done" /\ UNCHANGED <<buf, dropped>>
    <3>1. dropped' = dropped
      BY <2>7
    <3> QED BY <2>2, <3>1, Zenon
  <2>8. CASE phase' = "peek" /\ buf' = <<>> /\ dropped' = (dropped \/ buf # <<>>)
    BY <2>2, <2>6, <2>8, Zenon
  <2> QED BY <1>3, <2>7, <2>8
<1>9. Http!Relayed'
  BY <1>2 DEF Http!Relayed
<1>10. Http!LossIsExplained'
  <2>1. SUFFICES ASSUME up # <<>>
                 PROVE  \/ resp.status \in 100..199
                        \/ resp.cl < 0 /\ ~resp.close /\ ~Http!responseChunked(resp)
    BY <1>2 DEF Http!LossIsExplained, Http!responseChunked
  <2> DEFINE b0 == Http!Sent(req, resp)
  <2>2. PICK i \in 0..Len(b0) : /\ Len(up) = Len(b0) - i /\ Http!Rest(b0, i, up)
                                /\ Http!Reads(Http!responseBody(req, resp), b0, i, need)
    BY <1>1, <1>2, <2>1 DEF Http!Relayed
  <2>3. resp \in Responses /\ up \in Seq(Http!Unit)
    BY <1>1, <1>2 DEF Http!ExTypeOK
  <2>4. b0 \in Seq(Http!Unit)
    BY <2>3, ResponseKinds
  <2>5. i < Len(b0)
    <3> HIDE DEF b0
    <3> QED BY <2>1, <2>2, <2>3, <2>4
  <2> QED BY <1>2, <2>2, <2>3, <2>5, ResponseLoss
<1> QED BY <1>5, <1>7, <1>8, <1>9, <1>10 DEF Http!ExchangeInv

\* Every step of the client, the proxy and the server.
LEMMA ExchangeStep == Http!ExchangeInv /\ [Http!Next]_(Http!vars) => Http!ExchangeInv'
<1> SUFFICES ASSUME Http!ExchangeInv, [Http!Next]_(Http!vars) PROVE Http!ExchangeInv'
  OBVIOUS
<1>1. CASE Http!Next
  BY <1>1, BeginInv, ClientSendsInv, FillInv, ReadRequestInv, DialFailsInv, CopyRequestBodyInv,
     ReadResponseInv, RelayBodyInv, EndExchangeInv DEF Http!Next
<1>2. CASE UNCHANGED Http!vars
  BY <1>2 DEF Http!vars, Http!ExchangeInv, Http!ExTypeOK, Http!Aligned, Http!Misread,
              Http!requestIsChunked, Http!InTurn, Http!Relayed,
              Http!LossIsExplained, Http!Stream
<1> QED BY <1>1, <1>2

\* A client that does not pipeline is read from a message boundary, whatever
\* well-framed requests it sends, however bufio fills and however the server
\* answers, as long as none of them is misread (http.go:157-206, 335-347).
THEOREM ExchangesInSync == Http!Spec => []InSync
<1>1. Http!ExchangeInv => InSync
  <2> SUFFICES ASSUME Http!ExchangeInv, phase = "peek", ~ahead, ~misread
               PROVE  ~dropped /\ (Http!Stream # <<>> => Head(Http!Stream) = "h")
    BY DEF InSync, Http!InSync, Http!Stream
  <2>1. ~dropped /\ Http!Holds(0, queue, Http!Stream)
    BY DEF Http!ExchangeInv, Http!InTurn, Http!Aligned
  <2>2. Http!Stream \in Seq(Http!Unit) /\ queue \in Seq(Http!Request)
    BY StreamType DEF Http!ExchangeInv
  <2>3. Http!Stream # <<>> => Http!Stream[1] = "h" /\ Head(Http!Stream) = Http!Stream[1]
    BY <2>1, <2>2, HoldsHead
  <2> QED BY <2>1, <2>3
<1> QED BY <1>1, ExchangeInit, ExchangeStep, PTL DEF Http!Spec

\* A response that is not relayed in full is an interim one, or one whose end
\* neither its header nor Connection: close tells (proxyHTTPBody).
THEOREM ExchangesLoseOnly == Http!Spec => []LossIsExplained
<1>1. Http!ExchangeInv => LossIsExplained
  BY DEF Http!ExchangeInv, LossIsExplained
<1> QED BY <1>1, ExchangeInit, ExchangeStep, PTL DEF Http!Spec

\* While the proxy reads a body the client has something to send, pipelining or
\* not: they wait for each other only when the client waits for 100 (Continue),
\* or when a length was believed of a misread request.
THEOREM ExchangesWaitOnlyByExpect == Http!Spec => []MutualWaitOnlyByExpect
<1>1. Http!ExchangeInv => MutualWaitOnlyByExpect
  <2> SUFFICES ASSUME Http!ExchangeInv, phase = "body", buf = <<>>, sock = <<>>, ~dropped,
                      Http!ClientWaits, ~misread
               PROVE  cur.expect
    BY DEF MutualWaitOnlyByExpect, Http!MutualWaitOnlyByExpect
  <2>1. toSend # <<>>
    <3>1. SUFFICES ASSUME toSend = <<>> PROVE FALSE
      OBVIOUS
    <3>2. Http!Stream = <<>>
      BY <3>1 DEF Http!Stream
    <3>3. PICK i \in 0..(Len(req.body) - 1) : Http!Rest(req.body, i, Http!Stream)
      BY DEF Http!ExchangeInv, Http!Aligned
    <3>4. req.body \in Seq(Http!Unit)
      BY RequestTypes DEF Http!ExchangeInv, Http!ExTypeOK
    <3>5. <<>> \in Seq(Http!Unit)
      OBVIOUS
    <3> QED BY <3>2, <3>3, <3>4, <3>5, RestTail
  <2> QED BY <2>1 DEF Http!ClientWaits
<1> QED BY <1>1, ExchangeInit, ExchangeStep, PTL DEF Http!Spec
=============================================================================
