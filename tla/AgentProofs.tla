---------------------------- MODULE AgentProofs ----------------------------
(***************************************************************************)
(* Proofs about the parts of the agent that MCAgent puts side by side: the *)
(* tunnel, the life of the process, the connection pool, the replacement   *)
(* of the executable, service routing and the weighted choice.             *)
(*                                                                         *)
(* Tunnel implements Pipe, for any number of bytes and any socket buffer.  *)
(* TunnelInv is inductive; a step of the tunnel maps to the step of Pipe   *)
(* with the same name, or to a stutter.  The two steps of Pipe with a      *)
(* guard of their own, Deliver and End, get it from TunnelInv.             *)
(***************************************************************************)
EXTENDS MCAgent, LeastElement, FiniteSetTheorems, SequenceTheorems, TLAPS

\* The tunnel starts with nothing sent and nothing held.
LEMMA TunnelInitInv == Init => TunnelInv
BY DEF Init, TunnelInv, TypeOK, Conserved, Dirs, Ends

\* What the two ends do to their sockets keeps every byte accounted for.
LEMMA EndsStepInv ==
    ASSUME TunnelInv, NEW d \in Dirs, Send(d) \/ Close(d) \/ Deliver(d) \/ End(d)
    PROVE  TunnelInv'
<1> USE DEF TunnelInv, TypeOK, Conserved
<1>1. CASE Send(d)
  BY <1>1 DEF Send
<1>2. CASE Close(d)
  BY <1>2 DEF Close
<1>3. CASE Deliver(d)
  BY <1>3 DEF Deliver
<1>4. CASE End(d)
  BY <1>4 DEF End
<1> QED BY <1>1, <1>2, <1>3, <1>4

\* A step of a copying goroutine keeps every byte accounted for.
LEMMA CopyStepInv ==
    ASSUME TunnelInv, NEW d \in Dirs,
           CopyRead(d) \/ CopyWrite(d) \/ CopyEOF(d) \/ CopyFails(d) \/ CopyShut(d)
    PROVE  TunnelInv'
<1> USE DEF TunnelInv, TypeOK, Conserved, ends
<1>1. CASE CopyRead(d)
  <2>1. TypeOK'
    BY <1>1 DEF CopyRead
  <2>2. ASSUME NEW x \in Dirs PROVE Conserved(x)'
    BY <1>1 DEF CopyRead
  <2> QED BY <1>1, <2>1, <2>2 DEF CopyRead
<1>2. CASE CopyWrite(d)
  <2>1. TypeOK'
    BY <1>2 DEF CopyWrite
  <2>2. ASSUME NEW x \in Dirs PROVE Conserved(x)'
    BY <1>2 DEF CopyWrite
  <2> QED BY <1>2, <2>1, <2>2 DEF CopyWrite
<1>3. CASE CopyEOF(d)
  BY <1>3 DEF CopyEOF
<1>4. CASE CopyFails(d)
  BY <1>4 DEF CopyFails, Writer, Reader, Dirs, Ends
<1>5. CASE CopyShut(d)
  BY <1>5 DEF CopyShut
<1> QED BY <1>1, <1>2, <1>3, <1>4, <1>5

\* An end that leaves closes the pipes it writes to.
LEMMA LeaveStepInv ==
    ASSUME TunnelInv, NEW e \in Ends, Leave(e)
    PROVE  TunnelInv'
BY DEF TunnelInv, TypeOK, Conserved, Leave

\* TunnelInv is inductive.
LEMMA TunnelStepInv == TunnelInv /\ [Next]_vars => TunnelInv'
<1> SUFFICES ASSUME TunnelInv, [Next]_vars PROVE TunnelInv'
  OBVIOUS
<1>1. CASE \E d \in Dirs : Send(d) \/ Close(d) \/ Deliver(d) \/ End(d)
  BY <1>1, EndsStepInv
<1>2. CASE \E d \in Dirs : CopyRead(d) \/ CopyWrite(d) \/ CopyEOF(d) \/ CopyFails(d) \/ CopyShut(d)
  BY <1>2, CopyStepInv
<1>3. CASE \E e \in Ends : Leave(e)
  BY <1>3, LeaveStepInv
<1>4. CASE Return
  BY <1>4 DEF Return, TunnelInv, TypeOK, Conserved, ends
<1>5. CASE UNCHANGED vars
  BY <1>5 DEF vars, TunnelInv, TypeOK, Conserved
<1> QED BY <1>1, <1>2, <1>3, <1>4, <1>5 DEF Next

\* Every byte an end wrote is received, held, under way or read, a goroutine
\* leaves its copy loop early only if an end has left, and the write side is
\* closed only after that loop (proxyTunnel).
THEOREM TunnelIsAccounted == Spec => []TunnelInv
<1>1. Init => TunnelInv
  BY TunnelInitInv
<1>2. TunnelInv /\ [Next]_vars => TunnelInv'
  BY TunnelStepInv
<1> QED BY <1>1, <1>2, PTL DEF Spec

\* A step of the tunnel is a step of the two pipes, or no step.
LEMMA TunnelStepImplementsPipe == TunnelInv /\ [Next]_vars => [P!Next]_P!vars
<1> SUFFICES ASSUME TunnelInv, [Next]_vars PROVE [P!Next]_P!vars
  OBVIOUS
<1> USE DEF P!vars
<1>1. ASSUME NEW d \in Dirs, Send(d) \/ Close(d) \/ Deliver(d) \/ End(d)
      PROVE  P!Next
  <2>0. d \in P!Dirs
    BY DEF Dirs, P!Dirs
  <2>1. CASE Send(d)
    BY <2>0, <2>1 DEF Send, P!Send, P!Next
  <2>2. CASE Close(d)
    BY <2>0, <2>2 DEF Close, P!Close, P!Next
  <2>3. CASE Deliver(d)
    <3>1. ~eof[d] /\ got[d] < sent[d]
      BY <2>3 DEF Deliver, TunnelInv, TypeOK, Conserved
    <3> QED BY <2>0, <2>3, <3>1 DEF Deliver, P!Deliver, P!Next
  <2>4. CASE End(d)
    <3>1. (closed[d] /\ got[d] = sent[d]) \/ gone # {}
      BY <2>4 DEF End, TunnelInv, TypeOK, Conserved
    <3> QED BY <2>0, <2>4, <3>1 DEF End, P!End, P!Next
  <2> QED BY <1>1, <2>1, <2>2, <2>3, <2>4
<1>2. ASSUME NEW e \in Ends, Leave(e)
      PROVE  P!Next
  <2>1. P!Leave(e)
    BY <1>2 DEF Leave, P!Leave, Writer, P!Writer, Dirs, P!Dirs
  <2> QED BY <2>1 DEF Ends, P!Ends, P!Next
<1>3. CASE \E d \in Dirs : CopyRead(d) \/ CopyWrite(d) \/ CopyEOF(d) \/ CopyFails(d) \/ CopyShut(d)
  BY <1>3 DEF CopyRead, CopyWrite, CopyEOF, CopyFails, CopyShut, ends
<1>4. CASE Return
  BY <1>4 DEF Return, ends
<1>5. CASE UNCHANGED vars
  BY <1>5 DEF vars
<1> QED BY <1>1, <1>2, <1>3, <1>4, <1>5 DEF Next

\* proxyTunnel with its two goroutines, their partial failures and their
\* half-closes implements two independent pipes.
THEOREM TunnelRefinesPipe == Spec => ImplementsPipe
<1>1. Init => P!Init
  BY DEF Init, P!Init, Dirs, P!Dirs
<1>2. TunnelInv /\ [Next]_vars => [P!Next]_P!vars
  BY TunnelStepImplementsPipe
<1> QED BY <1>1, <1>2, TunnelIsAccounted, PTL DEF Spec, P!Spec, ImplementsPipe

-----------------------------------------------------------------------------
(***************************************************************************)
(* The life of the process (Lifecycle)                                     *)
(***************************************************************************)

\* There are four servers.
LEMMA LifeServers == Len(Life!ServerList) = 4 /\ Life!ServerList[4] = "udp"
BY DEF Life!ServerList

\* The first process starts alone and without connections.
LEMMA LifeInitInv == Life!Init => Life!LifeInv
<1> SUFFICES ASSUME Life!Init PROVE Life!LifeInv
  OBVIOUS
<1>1. \A g \in Life!Gens : ~Life!HoldsUdp(g)
  BY LifeServers DEF Life!Init, Life!HoldsUdp
<1> QED BY <1>1, LifeAssumption, LifeServers DEF Life!Init, Life!InOrder, Life!LifeInv, Life!AlwaysInService,
           Life!FixedPortNeverHandsOver, Life!Gens, Life!NoLink

\* The end of a process that is not in service, or of one that panics.
LEMMA LifeExitInv ==
    ASSUME Life!LifeInv, NEW g \in Life!Gens, NEW why \in {"fatal", "panic", "return", "timer"},
           Life!Exit(g, why), UNCHANGED <<udpFixed, started, draining, served>>,
           stage[g] # "none", why # "panic" => stage[g] \in {"boot", "drain"}
    PROVE  Life!LifeInv'
<1> USE DEF Life!LifeInv, Life!Exit, Life!Of, Life!NoLink
<1>1. stage' \in [Life!Gens -> {"none", "boot", "serve", "drain", "gone"}]
  OBVIOUS
<1>2. link' \in [Link -> [gen : 0 .. MaxGen, server : {"mgr", "inbound", "outbound"},
                          counted : BOOLEAN]]
  BY LifeAssumption
<1>3. \A k \in Link : link'[k].gen # 0 => stage'[link'[k].gen] \in {"boot", "serve", "drain"}
  BY DEF Life!Gens
<1>4. stage'[g] = "gone" /\ \A h \in Life!Gens \ {g} : stage'[h] = stage[h]
  OBVIOUS
<1>5. Life!AlwaysInService'
  <2>1. CASE why = "panic"
    <3>1. [why |-> why, cut |-> Life!Of(g) # {}] \in ended'
      OBVIOUS
    <3> QED BY <2>1, <3>1 DEF Life!AlwaysInService
  <2>2. CASE why # "panic"
    <3>1. \A h \in Life!Gens : stage[h] = "serve" => stage'[h] = "serve"
      BY <2>2
    <3>2. ended \subseteq ended'
      OBVIOUS
    <3> QED BY <3>1, <3>2 DEF Life!AlwaysInService
  <2> QED BY <2>1, <2>2
<1>6. \A a, b \in Life!Gens : (stage'[a] = stage'[b] /\ stage'[a] \in {"boot", "serve"}) => a = b
  BY <1>4
<1>7. \A a \in Life!Gens : Life!HoldsUdp(a)' => Life!HoldsUdp(a)
  BY <1>4 DEF Life!HoldsUdp
<1>8. Life!FixedPortNeverHandsOver'
  BY <1>4 DEF Life!FixedPortNeverHandsOver
<1>9. \A a \in Life!Gens : Life!InOrder(a)'
  BY <1>4 DEF Life!InOrder
<1> HIDE DEF Life!LifeInv, Life!Exit
<1>10. udpFixed' \in BOOLEAN /\ started' \in [Life!Gens -> 0 .. Len(Life!ServerList)]
       /\ draining' \in [Life!Gens -> Nat]
  BY DEF Life!LifeInv
<1>11. udpFixed' => \A a, b \in Life!Gens : Life!HoldsUdp(a)' /\ Life!HoldsUdp(b)' => a = b
  BY <1>7 DEF Life!LifeInv
<1> QED BY <1>1, <1>2, <1>3, <1>5, <1>6, <1>8, <1>9, <1>10, <1>11 DEF Life!LifeInv

\* A connection comes, is counted or goes.
LEMMA LifeLinkInv ==
    ASSUME Life!LifeInv, NEW k \in Link,
           NEW l \in [gen : 0 .. MaxGen, server : {"mgr", "inbound", "outbound"}, counted : BOOLEAN],
           l.gen # 0 => stage[l.gen] \in {"boot", "serve", "drain"},
           link' = [link EXCEPT ![k] = l], UNCHANGED <<udpFixed, stage, started, draining, ended, served>>
    PROVE  Life!LifeInv'
BY DEF Life!LifeInv, Life!FixedPortNeverHandsOver, Life!AlwaysInService, Life!HoldsUdp, Life!InOrder

\* A server is started; it may be the one that takes the UDP port.
LEMMA LifeStartInv ==
    ASSUME Life!LifeInv, NEW g \in Life!Gens, Life!StartServer(g)
    PROVE  Life!LifeInv'
<1>1. /\ stage[g] = "boot" /\ started[g] < 4 /\ started' = [started EXCEPT ![g] = started[g] + 1]
      /\ (udpFixed /\ Life!ServerList[started[g] + 1] = "udp") => \A h \in Life!Gens : ~Life!HoldsUdp(h)
      /\ UNCHANGED <<udpFixed, stage, draining, link, ended, served>>
  BY LifeServers DEF Life!StartServer
<1>2. started \in [Life!Gens -> 0 .. 4]
  BY LifeServers DEF Life!LifeInv
<1>3. started' \in [Life!Gens -> 0 .. 4] /\ started'[g] = started[g] + 1
      /\ \A h \in Life!Gens \ {g} : started'[h] = started[h]
  BY <1>1, <1>2
<1>4. \A h \in Life!Gens \ {g} : Life!HoldsUdp(h)' = Life!HoldsUdp(h)
  BY <1>1, <1>3 DEF Life!HoldsUdp
<1>5. ASSUME udpFixed, Life!HoldsUdp(g)' PROVE \A h \in Life!Gens : ~Life!HoldsUdp(h)
  <2>1. started[g] + 1 = 4
    BY <1>3, <1>5, LifeServers DEF Life!HoldsUdp
  <2> QED BY <1>1, <1>5, <2>1, LifeServers
<1>6. udpFixed' => \A a, b \in Life!Gens : Life!HoldsUdp(a)' /\ Life!HoldsUdp(b)' => a = b
  BY <1>1, <1>4, <1>5 DEF Life!LifeInv
<1>7. \A a \in Life!Gens : Life!InOrder(a)'
  BY <1>1, <1>3, LifeServers DEF Life!LifeInv, Life!InOrder
<1> QED BY <1>1, <1>3, <1>6, <1>7, LifeServers
        DEF Life!LifeInv, Life!FixedPortNeverHandsOver, Life!AlwaysInService

\* A process becomes ready; with a fixed UDP port it is the first one.
LEMMA LifeReadyInv ==
    ASSUME Life!LifeInv, NEW g \in Life!Gens, Life!Ready(g)
    PROVE  Life!LifeInv'
<1>1. /\ stage[g] = "boot" /\ started[g] = 4 /\ Life!HasParent(g)
      /\ stage' = [h \in Life!Gens |-> IF h = g THEN "serve" ELSE IF stage[h] = "serve" THEN "drain" ELSE stage[h]]
      /\ draining' = [h \in Life!Gens |-> IF h # g /\ stage[h] = "serve" THEN 1 ELSE draining[h]]
      /\ UNCHANGED <<udpFixed, started, link, ended>>
  BY LifeServers DEF Life!Ready, Life!AfterReady, Life!DrainParent
<1> USE <1>1
<1>2. /\ stage \in [Life!Gens -> {"none", "boot", "serve", "drain", "gone"}] /\ draining \in [Life!Gens -> Nat]
      /\ \A a, b \in Life!Gens : (stage[a] = stage[b] /\ stage[a] \in {"boot", "serve"}) => a = b
      /\ \A a \in Life!Gens : /\ stage[a] \in {"serve", "drain"} => started[a] = 4
                              /\ stage[a] \notin {"drain", "gone"} => draining[a] = 0
                              /\ stage[a] = "none" => started[a] = 0 /\ a # 1
                              /\ (a = 1 /\ stage[a] = "boot") => \A h \in Life!Gens \ {1} : stage[h] = "none"
  BY LifeServers DEF Life!LifeInv, Life!InOrder
<1>3. /\ stage' \in [Life!Gens -> {"none", "boot", "serve", "drain", "gone"}]
      /\ draining' \in [Life!Gens -> Nat]
  BY <1>2
<1>4. stage'[g] = "serve" /\ \A h \in Life!Gens \ {g} : stage'[h] # "serve"
  BY <1>2
<1>5. \A a, b \in Life!Gens : (stage'[a] = stage'[b] /\ stage'[a] \in {"boot", "serve"}) => a = b
  BY <1>2, <1>4
<1>6. \A h \in Life!Gens : stage[h] \in {"boot", "serve", "drain"} => stage'[h] \in {"boot", "serve", "drain"}
  BY <1>2
<1>7. \A k \in Link : link'[k].gen # 0 => stage'[link'[k].gen] \in {"boot", "serve", "drain"}
  BY <1>6, LifeAssumption DEF Life!LifeInv, Life!Gens
<1>8. \A a \in Life!Gens : Life!InOrder(a)'
  <2> SUFFICES ASSUME NEW a \in Life!Gens PROVE Life!InOrder(a)'
    OBVIOUS
  <2>1. CASE a = g
    BY <1>2, <2>1, LifeServers DEF Life!InOrder
  <2>2. CASE a # g
    BY <1>2, <2>2, LifeServers DEF Life!InOrder
  <2> QED BY <2>1, <2>2
<1>9. ASSUME udpFixed PROVE \A h \in Life!Gens : stage[h] # "serve"
  <2> SUFFICES ASSUME NEW h \in Life!Gens, stage[h] = "serve" PROVE FALSE
    OBVIOUS
  <2>1. Life!HoldsUdp(h) /\ Life!HoldsUdp(g)
    BY <1>2, LifeServers DEF Life!HoldsUdp
  <2>2. h = g
    BY <1>9, <2>1 DEF Life!LifeInv
  <2> QED BY <2>2
<1>10. Life!FixedPortNeverHandsOver'
  BY <1>2, <1>9 DEF Life!FixedPortNeverHandsOver, Life!LifeInv
<1>11. ASSUME udpFixed' PROVE \A a, b \in Life!Gens : Life!HoldsUdp(a)' /\ Life!HoldsUdp(b)' => a = b
  <2>1. \A a \in Life!Gens : Life!HoldsUdp(a)' => Life!HoldsUdp(a)
    BY <1>2, <1>9, <1>11, LifeServers DEF Life!HoldsUdp
  <2> QED BY <1>11, <2>1 DEF Life!LifeInv
<1>12. Life!AlwaysInService'
  BY <1>4 DEF Life!AlwaysInService
<1> QED BY <1>3, <1>5, <1>7, <1>8, <1>10, <1>11, <1>12, LifeServers DEF Life!LifeInv

\* A child is started by the process in service.
LEMMA LifeUpgradeInv ==
    ASSUME Life!LifeInv, NEW g \in Life!Gens, Life!Upgrade(g)
    PROVE  Life!LifeInv'
<1>1. PICK c \in Life!Gens : stage[c] = "none" /\ stage' = [stage EXCEPT ![c] = "boot"]
                             /\ \A h \in 1 .. c - 1 : stage[h] # "none"
  BY DEF Life!Upgrade
<1>2. /\ stage[g] = "serve" /\ (\A h \in Life!Gens : stage[h] # "boot")
      /\ UNCHANGED <<udpFixed, started, draining, link, ended, served>>
  BY DEF Life!Upgrade
<1>3. /\ stage' \in [Life!Gens -> {"none", "boot", "serve", "drain", "gone"}]
      /\ stage'[c] = "boot" /\ \A h \in Life!Gens \ {c} : stage'[h] = stage[h]
  BY <1>1 DEF Life!LifeInv
<1>4. c # 1 /\ started[c] = 0
  BY <1>1 DEF Life!LifeInv, Life!InOrder
<1>8. \A a \in Life!Gens : Life!InOrder(a)'
  <2> SUFFICES ASSUME NEW a \in Life!Gens PROVE Life!InOrder(a)'
    OBVIOUS
  <2>1. CASE a = c
    BY <1>1, <1>2, <1>3, <1>4, <2>1 DEF Life!LifeInv, Life!InOrder
  <2>2. CASE a # c
    BY <1>2, <1>3, <1>4, <2>2 DEF Life!LifeInv, Life!InOrder
  <2> QED BY <2>1, <2>2
<1>9. \A a \in Life!Gens : Life!HoldsUdp(a)' => Life!HoldsUdp(a)
  BY <1>2, <1>3, <1>4, LifeServers DEF Life!HoldsUdp
<1>10. udpFixed' => \A a, b \in Life!Gens : Life!HoldsUdp(a)' /\ Life!HoldsUdp(b)' => a = b
  BY <1>2, <1>9 DEF Life!LifeInv
<1>5. \A k \in Link : link'[k].gen # 0 => stage'[link'[k].gen] \in {"boot", "serve", "drain"}
  BY <1>1, <1>2, <1>3, LifeAssumption DEF Life!LifeInv, Life!Gens
<1>6. \A a, b \in Life!Gens : (stage'[a] = stage'[b] /\ stage'[a] \in {"boot", "serve"}) => a = b
  BY <1>2, <1>3 DEF Life!LifeInv
<1>7. Life!AlwaysInService' /\ Life!FixedPortNeverHandsOver'
  BY <1>1, <1>2, <1>3 DEF Life!LifeInv, Life!AlwaysInService, Life!FixedPortNeverHandsOver
<1> QED BY <1>2, <1>3, <1>5, <1>6, <1>7, <1>8, <1>10 DEF Life!LifeInv

\* A server has been shut down.
LEMMA LifeShutdownInv ==
    ASSUME Life!LifeInv, NEW g \in Life!Gens, Life!Shutdown(g)
    PROVE  Life!LifeInv'
<1>1. /\ stage[g] = "drain" /\ draining' = [draining EXCEPT ![g] = draining[g] + 1]
      /\ UNCHANGED <<udpFixed, stage, started, link, ended, served>>
  BY DEF Life!Shutdown
<1>2. /\ draining' \in [Life!Gens -> Nat] /\ draining[g] \in Nat /\ draining'[g] = draining[g] + 1
      /\ \A h \in Life!Gens \ {g} : draining'[h] = draining[h]
  BY <1>1 DEF Life!LifeInv
<1>3. \A a \in Life!Gens : Life!HoldsUdp(a)' => Life!HoldsUdp(a)
  BY <1>1, <1>2, LifeServers DEF Life!HoldsUdp
<1>4. \A a \in Life!Gens : Life!InOrder(a)'
  BY <1>1, <1>2 DEF Life!LifeInv, Life!InOrder
<1>5. udpFixed' => \A a, b \in Life!Gens : Life!HoldsUdp(a)' /\ Life!HoldsUdp(b)' => a = b
  BY <1>1, <1>3 DEF Life!LifeInv
<1> QED BY <1>1, <1>2, <1>4, <1>5 DEF Life!LifeInv, Life!AlwaysInService, Life!FixedPortNeverHandsOver

\* Every step of a process, of its child or of a client keeps LifeInv.
LEMMA LifeStepInv == Life!LifeInv /\ [Life!Next]_lifeVars => Life!LifeInv'
<1> SUFFICES ASSUME Life!LifeInv, [Life!Next]_lifeVars PROVE Life!LifeInv'
  OBVIOUS
<1>1. ASSUME NEW g \in Life!Gens,
             Life!StartServer(g) \/ Life!Ready(g) \/ Life!Upgrade(g) \/ Life!Shutdown(g)
      PROVE  Life!LifeInv'
  BY <1>1, LifeStartInv, LifeReadyInv, LifeUpgradeInv, LifeShutdownInv
<1>3. ASSUME NEW g \in Life!Gens,
             \/ Life!BootFails(g) \/ Life!ReadyFails(g) \/ Life!AcceptFails(g)
             \/ Life!RunReturns(g) \/ Life!TimerFires(g)
      PROVE  Life!LifeInv'
  <2>1. CASE Life!BootFails(g)
    BY <2>1, LifeExitInv DEF Life!BootFails
  <2>2. CASE Life!AcceptFails(g)
    BY <2>2, LifeExitInv DEF Life!AcceptFails
  <2>3. CASE Life!RunReturns(g)
    BY <2>3, LifeExitInv DEF Life!RunReturns
  <2>4. CASE Life!TimerFires(g)
    BY <2>4, LifeExitInv DEF Life!TimerFires
  <2>5. CASE Life!ReadyFails(g)
    BY <2>5, LifeExitInv DEF Life!ReadyFails
  <2> QED BY <1>3, <2>1, <2>2, <2>3, <2>4, <2>5
<1>5. ASSUME NEW g \in Life!Gens, NEW k \in Link, NEW s \in {"mgr", "inbound", "outbound"},
             Life!Accept(k, g, s)
      PROVE  Life!LifeInv'
  <2> DEFINE l == [gen |-> g, server |-> s, counted |-> s = "mgr"]
  <2>1. l \in [gen : 0 .. MaxGen, server : {"mgr", "inbound", "outbound"}, counted : BOOLEAN]
    BY LifeAssumption DEF Life!Gens
  <2>2. /\ stage[g] \in {"boot", "serve", "drain"} /\ link' = [link EXCEPT ![k] = l]
        /\ UNCHANGED <<udpFixed, stage, started, draining, ended, served>>
    BY <1>5 DEF Life!Accept
  <2>3. l.gen = g
    OBVIOUS
  <2> HIDE DEF l
  <2> QED BY <2>1, <2>2, <2>3, LifeLinkInv
<1>6. ASSUME NEW k \in Link, Life!Count(k) PROVE Life!LifeInv'
  <2> DEFINE l == [link[k] EXCEPT !.counted = TRUE]
  <2>1. /\ l \in [gen : 0 .. MaxGen, server : {"mgr", "inbound", "outbound"}, counted : BOOLEAN]
        /\ l.gen = link[k].gen
    BY DEF Life!LifeInv
  <2>2. link' = [link EXCEPT ![k] = l] /\ UNCHANGED <<udpFixed, stage, started, draining, ended, served>>
    BY <1>6 DEF Life!Count
  <2>3. l.gen # 0 => stage[l.gen] \in {"boot", "serve", "drain"}
    BY <2>1 DEF Life!LifeInv
  <2> HIDE DEF l
  <2> QED BY <2>1, <2>2, <2>3, LifeLinkInv
<1>8. ASSUME NEW k \in Link, Life!Finish(k) PROVE Life!LifeInv'
  <2>1. Life!NoLink \in [gen : 0 .. MaxGen, server : {"mgr", "inbound", "outbound"},
                         counted : BOOLEAN]
    BY LifeAssumption DEF Life!NoLink
  <2> QED BY <1>8, <2>1, LifeLinkInv DEF Life!Finish, Life!NoLink
<1>7. CASE UNCHANGED lifeVars
  BY <1>7 DEF lifeVars, Life!LifeInv, Life!FixedPortNeverHandsOver, Life!AlwaysInService,
              Life!HoldsUdp, Life!InOrder
<1> QED BY <1>1, <1>3, <1>5, <1>6, <1>7, <1>8 DEF Life!Next

\* Through any number of hot upgrades (upgrade.go:23-59), failed ones
\* included, a process is in service once there has been one, unless it
\* panicked.
THEOREM LifeAlwaysInService == Life!Spec => []AlwaysInService
<1>1. Life!LifeInv => AlwaysInService
  BY DEF Life!LifeInv, AlwaysInService
<1> QED BY LifeInitInv, LifeStepInv, <1>1, PTL DEF Life!Spec, lifeVars, Life!lifeVars

\* With a fixed udp-proxy-port no hot upgrade ever completes (udp.go:45-71,
\* server.go:179-183): no process is told to drain, however many children it starts
\* and whatever becomes of them.
THEOREM LifeFixedPortNeverHandsOver == Life!Spec => []Life!FixedPortNeverHandsOver
<1>1. Life!LifeInv => Life!FixedPortNeverHandsOver
  BY DEF Life!LifeInv
<1> QED BY LifeInitInv, LifeStepInv, <1>1, PTL DEF Life!Spec, lifeVars, Life!lifeVars

-----------------------------------------------------------------------------
(***************************************************************************)
(* The connection pool (ConnPool)                                          *)
(***************************************************************************)

\* Cardinalities as ConnPool sees them.
LEMMA PoolFiniteSets ==
    \A S : /\ Pool!IsFiniteSet(S) <=> IsFiniteSet(S)
           /\ Pool!Cardinality(S) = Cardinality(S)
BY DEF Pool!IsFiniteSet, IsFiniteSet, Pool!Cardinality, Cardinality

\* A new pool has no connection anywhere.
LEMMA PoolInitInv == Pool!Init => Pool!PoolInv
<1> SUFFICES ASSUME Pool!Init PROVE Pool!PoolInv
  OBVIOUS
<1> USE DEF Pool!Init
<1>1. Pool!PoolTypeOK
  <2>1. conns \in Seq(Conn) /\ \A i \in DOMAIN conns : conns[i] \in sockets
    OBVIOUS
  <2>2. Pool!IsFiniteSet(sockets)
    BY PoolFiniteSets, FS_EmptySet
  <2> QED BY <2>1, <2>2 DEF Pool!PoolTypeOK
<1>2. Pool!Counted
  BY PoolAssumption, PoolFiniteSets, FS_EmptySet DEF Pool!Counted
<1>3. Pool!HandsMatch /\ Pool!Apart /\ Pool!NoneLost /\ Pool!OnlyPingPanics
  BY DEF Pool!HandsMatch, Pool!Apart, Pool!NoneLost, Pool!OnlyPingPanics, Pool!Holding
<1> QED BY <1>1, <1>2, <1>3 DEF Pool!PoolInv

\* A client that goes from one place to another and keeps what it has.
LEMMA PoolGoesInv ==
    ASSUME Pool!PoolInv, NEW c \in Client, NEW to \in {"away", "select", "dial"} \cup Pool!Holding,
           Pool!Goes(c, to), to \in Pool!Holding <=> where[c] \in Pool!Holding,
           to = "ping" => hasPing,
           UNCHANGED <<hasPing, conns, released, release, openedCount, sockets, hand,
                       abandoned, panicked>>
    PROVE  Pool!PoolInv'
BY DEF Pool!PoolInv, Pool!PoolTypeOK, Pool!HandsMatch, Pool!Apart, Pool!NoneLost,
       Pool!Counted, Pool!OnlyPingPanics, Pool!Goes

\* Get takes the first idle connection out of the channel.
LEMMA PoolReceiveInv ==
    ASSUME Pool!PoolInv, NEW c \in Client, Pool!GetReceives(c)
    PROVE  Pool!PoolInv'
<1> DEFINE s == Head(conns)
<1> USE DEF Pool!GetReceives, Pool!Goes, Pool!PoolInv, Pool!PoolTypeOK, Pool!Fixed
<1>1. /\ conns' \in Seq(Conn) /\ DOMAIN conns' = 1 .. Len(conns) - 1
      /\ \A i \in DOMAIN conns' : i + 1 \in DOMAIN conns /\ conns'[i] = conns[i + 1]
      /\ 1 \in DOMAIN conns /\ s = conns[1] /\ s \in sockets
  OBVIOUS
<1>2. hand[c] = {} /\ hand' = [hand EXCEPT ![c] = {s}]
  BY DEF Pool!Holding, Pool!HandsMatch
<1>3. Pool!PoolTypeOK'
  BY <1>1, <1>2 DEF Pool!Holding
<1>4. Pool!Apart'
  BY <1>1, <1>2 DEF Pool!Apart
<1>5. Pool!NoneLost'
  <2> SUFFICES ASSUME NEW x \in sockets, x \notin abandoned
      PROVE  (\E d \in Client : x \in hand'[d]) \/ (\E i \in DOMAIN conns' : conns'[i] = x)
    BY DEF Pool!NoneLost
  <2>1. CASE x = s
    BY <1>2, <2>1
  <2>2. CASE \E d \in Client : x \in hand[d]
    BY <1>2, <2>2
  <2>3. ASSUME NEW i \in DOMAIN conns, conns[i] = x, x # s
        PROVE  \E j \in DOMAIN conns' : conns'[j] = x
    <3>1. i - 1 \in DOMAIN conns' /\ conns'[i - 1] = x
      BY <1>1, <2>3
    <3> QED BY <3>1
  <2> QED BY <2>1, <2>2, <2>3 DEF Pool!NoneLost
<1>6. Pool!HandsMatch' /\ Pool!Counted' /\ Pool!OnlyPingPanics'
  BY <1>1, <1>2 DEF Pool!HandsMatch, Pool!Counted, Pool!OnlyPingPanics, Pool!Holding
<1> QED BY <1>3, <1>4, <1>5, <1>6

\* Get dials: the new connection was not open before and is within the limit.
LEMMA PoolDialInv ==
    ASSUME Pool!PoolInv, NEW c \in Client, Pool!GetDials(c)
    PROVE  Pool!PoolInv'
<1>1. CASE Pool!Goes(c, "away") /\ UNCHANGED <<openedCount, sockets, hand>>
  BY <1>1, PoolGoesInv DEF Pool!GetDials, Pool!Fixed, Pool!Holding
<1>2. ASSUME NEW s \in Conn, s \notin sockets, openedCount < MaxCap, ~released,
             sockets' = sockets \cup {s}, hand' = [hand EXCEPT ![c] = {s}],
             openedCount' = openedCount + 1, Pool!Goes(c, "use")
      PROVE  Pool!PoolInv'
  <2>11. where[c] = "dial" /\ hand[c] = {}
    BY DEF Pool!PoolInv, Pool!HandsMatch, Pool!GetDials, Pool!Holding
  <2>1. /\ IsFiniteSet(sockets) /\ openedCount \in Nat /\ openedCount = Cardinality(sockets)
        /\ abandoned = {}
    BY <1>2, PoolFiniteSets DEF Pool!PoolInv, Pool!PoolTypeOK, Pool!Counted
  <2>10. IsFiniteSet(sockets \cup {s}) /\ Cardinality(sockets \cup {s}) = Cardinality(sockets) + 1
    BY <1>2, <2>1, FS_AddElement
  <2>2. IsFiniteSet(sockets') /\ Cardinality(sockets') = openedCount'
    BY <1>2, <2>1, <2>10
  <2>3. Cardinality(sockets') <= MaxCap
    BY <1>2, <2>1, <2>2, PoolAssumption
  <2> USE <1>2 DEF Pool!PoolInv, Pool!GetDials, Pool!Goes, Pool!Fixed
  <2>4. Pool!PoolTypeOK'
    BY <2>1, <2>2, PoolFiniteSets DEF Pool!PoolTypeOK, Pool!Holding
  <2>5. Pool!Apart'
    BY <2>1 DEF Pool!Apart, Pool!PoolTypeOK, Pool!HandsMatch
  <2>6. Pool!HandsMatch'
    BY DEF Pool!HandsMatch, Pool!Holding, Pool!PoolTypeOK
  <2>7. Pool!NoneLost'
    <3>1. \A d \in Client : hand[d] \subseteq hand'[d]
      BY <2>11 DEF Pool!PoolTypeOK
    <3>2. s \in hand'[c]
      BY DEF Pool!PoolTypeOK
    <3> QED BY <3>1, <3>2 DEF Pool!NoneLost
  <2>8. Pool!Counted'
    BY <2>1, <2>2, <2>3, PoolFiniteSets DEF Pool!Counted
  <2>9. Pool!OnlyPingPanics'
    BY DEF Pool!OnlyPingPanics, Pool!PoolTypeOK
  <2> QED BY <2>4, <2>5, <2>6, <2>7, <2>8, <2>9
<1> QED BY <1>1, <1>2 DEF Pool!GetDials

\* Put gives an idle connection to the channel, or goes on to Close.
LEMMA PoolPutInv ==
    ASSUME Pool!PoolInv, NEW c \in Client, Pool!Put(c)
    PROVE  Pool!PoolInv'
<1>1. CASE Pool!Goes(c, "close") /\ UNCHANGED <<conns, hand>>
  BY <1>1, PoolGoesInv DEF Pool!Put, Pool!Fixed, Pool!Holding
<1>2. CASE /\ conns' = Append(conns, CHOOSE s \in hand[c] : TRUE)
           /\ hand' = [hand EXCEPT ![c] = {}] /\ Pool!Goes(c, "away")
  <2>1. PICK s \in sockets : hand[c] = {s}
    BY DEF Pool!PoolInv, Pool!HandsMatch, Pool!Put, Pool!Holding
  <2>2. conns' = Append(conns, s)
    BY <1>2, <2>1
  <2>3. /\ conns' \in Seq(Conn) /\ DOMAIN conns' = DOMAIN conns \cup {Len(conns) + 1}
        /\ Len(conns) + 1 \notin DOMAIN conns /\ conns'[Len(conns) + 1] = s
        /\ \A i \in DOMAIN conns : conns'[i] = conns[i]
    BY <2>1, <2>2 DEF Pool!PoolInv, Pool!PoolTypeOK
  <2> USE <1>2 DEF Pool!PoolInv, Pool!Put, Pool!Goes, Pool!Fixed
  <2>4. Pool!PoolTypeOK'
    BY <2>1, <2>3 DEF Pool!PoolTypeOK, Pool!Holding
  <2>5. Pool!Apart'
    BY <2>1, <2>3 DEF Pool!Apart, Pool!PoolTypeOK
  <2>6. Pool!HandsMatch'
    BY DEF Pool!HandsMatch, Pool!Holding, Pool!PoolTypeOK
  <2>7. Pool!NoneLost'
    <3> SUFFICES ASSUME NEW x \in sockets, x \notin abandoned
        PROVE  (\E d \in Client : x \in hand'[d]) \/ (\E i \in DOMAIN conns' : conns'[i] = x)
      BY DEF Pool!NoneLost
    <3>1. CASE x = s
      BY <2>3, <3>1
    <3>2. ASSUME NEW d \in Client, x \in hand[d], x # s PROVE x \in hand'[d]
      BY <2>1, <3>2 DEF Pool!PoolTypeOK
    <3>3. ASSUME NEW i \in DOMAIN conns, conns[i] = x
          PROVE i \in DOMAIN conns' /\ conns'[i] = x
      BY <2>3, <3>3
    <3> QED BY <3>1, <3>2, <3>3 DEF Pool!NoneLost
  <2>8. Pool!Counted' /\ Pool!OnlyPingPanics'
    BY DEF Pool!Counted, Pool!OnlyPingPanics, Pool!PoolTypeOK
  <2> QED BY <2>4, <2>5, <2>6, <2>7, <2>8
<1> QED BY <1>1, <1>2 DEF Pool!Put

\* Close takes the connection out of a client's hands and, before Release,
\* out of the world and of the count.
LEMMA PoolCloseInv ==
    ASSUME Pool!PoolInv, NEW c \in Client, Pool!Close(c)
    PROVE  Pool!PoolInv'
<1>1. PICK s \in sockets : hand[c] = {s}
  BY DEF Pool!PoolInv, Pool!HandsMatch, Pool!Close, Pool!Holding
<1> USE DEF Pool!PoolInv, Pool!Close, Pool!Goes, Pool!Fixed
<1>2. /\ where'[c] \in {"away", "select"}
      /\ \A d \in Client \ {c} : where'[d] = where[d]
      /\ where' \in [Client -> {"away", "select", "dial"} \cup Pool!Holding]
  BY DEF Pool!PoolTypeOK
<1>3. /\ hand'[c] = {} /\ \A d \in Client \ {c} : hand'[d] = hand[d]
      /\ hand' \in [Client -> SUBSET Conn]
  BY DEF Pool!PoolTypeOK
<1>4. Pool!OnlyPingPanics'
  BY <1>2 DEF Pool!OnlyPingPanics, Pool!PoolTypeOK
<1>5. CASE released
  <2>1. abandoned' = abandoned \cup {s} /\ UNCHANGED <<openedCount, sockets, conns, released, release>>
    BY <1>1, <1>5 DEF Pool!PoolTypeOK
  <2>2. Pool!PoolTypeOK'
    BY <1>1, <1>2, <1>3, <2>1 DEF Pool!PoolTypeOK
  <2>3. Pool!Apart'
    BY <1>1, <1>3, <2>1 DEF Pool!Apart
  <2>4. Pool!HandsMatch'
    BY <1>2, <1>3, <2>1 DEF Pool!HandsMatch, Pool!Holding
  <2>5. Pool!NoneLost'
    BY <1>1, <1>3, <2>1 DEF Pool!NoneLost
  <2>6. Pool!Counted'
    BY <1>5, <2>1 DEF Pool!Counted
  <2> QED BY <1>4, <2>2, <2>3, <2>4, <2>5, <2>6
<1>6. CASE ~released
  <2>1. /\ openedCount' = openedCount - 1 /\ sockets' = sockets \ {s}
        /\ UNCHANGED <<abandoned, conns, released, release>>
    BY <1>1, <1>6 DEF Pool!PoolTypeOK
  <2>2. IsFiniteSet(sockets) /\ openedCount = Cardinality(sockets) /\ abandoned = {}
    BY <1>6, PoolFiniteSets DEF Pool!PoolTypeOK, Pool!Counted
  <2>3. IsFiniteSet(sockets \ {s}) /\ Cardinality(sockets \ {s}) = openedCount - 1
    BY <1>1, <2>2, FS_RemoveElement
  <2>4. openedCount' \in Nat /\ openedCount' = Cardinality(sockets')
    BY <2>1, <2>3, FS_CardinalityType
  <2>5. openedCount' <= MaxCap
    BY <2>1, <2>2, PoolAssumption, PoolFiniteSets DEF Pool!Counted, Pool!PoolTypeOK
  <2>6. \A i \in DOMAIN conns : conns[i] # s
    BY <1>1 DEF Pool!Apart
  <2>7. Pool!PoolTypeOK'
    BY <1>2, <1>3, <2>1, <2>2, <2>3, <2>4, <2>6, PoolFiniteSets DEF Pool!PoolTypeOK
  <2>8. Pool!Apart'
    BY <1>1, <1>3, <2>1 DEF Pool!Apart
  <2>9. Pool!HandsMatch'
    BY <1>1, <1>2, <1>3, <2>1 DEF Pool!HandsMatch, Pool!Holding, Pool!Apart
  <2>10. Pool!NoneLost'
    BY <1>1, <1>3, <2>1 DEF Pool!NoneLost
  <2>11. Pool!Counted'
    BY <1>6, <2>1, <2>2, <2>4, <2>5, PoolFiniteSets DEF Pool!Counted
  <2> QED BY <1>4, <2>7, <2>8, <2>9, <2>10, <2>11
<1> QED BY <1>5, <1>6

\* Release closes the connections that it finds in the channel.
LEMMA PoolDrainInv ==
    ASSUME Pool!PoolInv, Pool!ReleaseDrains
    PROVE  Pool!PoolInv'
<1> USE DEF Pool!ReleaseDrains, Pool!PoolInv
<1>3. released
  BY DEF Pool!Counted, Pool!PoolTypeOK
<1>1. CASE conns = <<>>
  BY <1>1, <1>3 DEF Pool!PoolTypeOK, Pool!HandsMatch, Pool!Apart, Pool!NoneLost, Pool!Counted,
              Pool!OnlyPingPanics
<1>2. CASE conns # <<>>
  <2> DEFINE s == Head(conns)
  <2>1. /\ conns' \in Seq(Conn) /\ DOMAIN conns' = 1 .. Len(conns) - 1
        /\ \A i \in DOMAIN conns' : i + 1 \in DOMAIN conns /\ conns'[i] = conns[i + 1]
        /\ 1 \in DOMAIN conns /\ s = conns[1] /\ s \in sockets
    BY <1>2 DEF Pool!PoolTypeOK
  <2>2. /\ sockets' = sockets \ {s}
        /\ UNCHANGED <<hasPing, released, release, openedCount, where, hand, abandoned, panicked>>
    BY <1>2
  <2>3. \A i \in DOMAIN conns' : conns'[i] # s
    BY <2>1 DEF Pool!Apart
  <2>4. \A c \in Client : s \notin hand[c]
    BY <2>1 DEF Pool!Apart
  <2>5. s \notin abandoned
    BY <2>1 DEF Pool!Apart
  <2> HIDE DEF s
  <2>6. IsFiniteSet(sockets) /\ Cardinality(sockets) <= MaxCap
    BY PoolFiniteSets DEF Pool!PoolTypeOK, Pool!Counted
  <2>7. /\ IsFiniteSet(sockets \ {s}) /\ Cardinality(sockets \ {s}) = Cardinality(sockets) - 1
        /\ Cardinality(sockets) \in Nat
    BY <2>1, <2>6, FS_RemoveElement, FS_CardinalityType
  <2>8. Pool!PoolTypeOK'
    BY <2>1, <2>2, <2>3, <2>5, <2>7, PoolFiniteSets DEF Pool!PoolTypeOK
  <2>9. Pool!Apart'
    BY <2>1, <2>2 DEF Pool!Apart
  <2>10. Pool!HandsMatch'
    BY <2>2, <2>4 DEF Pool!HandsMatch
  <2>11. Pool!NoneLost'
    <3> SUFFICES ASSUME NEW x \in sockets, x # s, x \notin abandoned, NEW i \in DOMAIN conns,
                        conns[i] = x
                 PROVE  \E j \in DOMAIN conns' : conns'[j] = x
      BY <2>2 DEF Pool!NoneLost
    <3>1. i - 1 \in DOMAIN conns' /\ conns'[i - 1] = x
      BY <2>1 DEF Pool!PoolTypeOK
    <3> QED BY <3>1
  <2>12. Pool!Counted'
    BY <1>3, <2>2, <2>6, <2>7, PoolFiniteSets, PoolAssumption DEF Pool!Counted
  <2>13. Pool!OnlyPingPanics'
    BY <2>2 DEF Pool!OnlyPingPanics
  <2> QED BY <2>8, <2>9, <2>10, <2>11, <2>12, <2>13
<1> QED BY <1>1, <1>2

\* Every step of a client and of Release keeps PoolInv.
LEMMA PoolStepInv == Pool!PoolInv /\ [Pool!Next]_poolVars => Pool!PoolInv'
<1> SUFFICES ASSUME Pool!PoolInv, [Pool!Next]_poolVars PROVE Pool!PoolInv'
  OBVIOUS
<1>1. ASSUME NEW c \in Client, Pool!Get(c) \/ Pool!GetReceivesNothing(c) PROVE Pool!PoolInv'
  <2>1. \A to \in {"away", "select", "dial"} : to \notin Pool!Holding
    BY DEF Pool!Holding
  <2> QED BY <1>1, <2>1, PoolGoesInv DEF Pool!Get, Pool!GetReceivesNothing, Pool!Fixed
<1>2. ASSUME NEW c \in Client, Pool!GetChecks(c) PROVE Pool!PoolInv'
  <2>1. where[c] = "check" /\ where[c] \in Pool!Holding
    BY <1>2 DEF Pool!GetChecks, Pool!Holding
  <2>2. hand[c] \subseteq sockets
    BY <2>1 DEF Pool!PoolInv, Pool!HandsMatch
  <2>3. PICK to \in {"discard", "ping", "use"} :
            Pool!Goes(c, to) /\ UNCHANGED hand /\ (to = "ping" => hasPing)
    BY <1>2, <2>2 DEF Pool!GetChecks
  <2>4. to \in Pool!Holding
    BY DEF Pool!Holding
  <2> QED BY <1>2, <2>1, <2>3, <2>4, PoolGoesInv DEF Pool!GetChecks, Pool!Fixed
<1>3. ASSUME NEW c \in Client, Pool!Ping(c) PROVE Pool!PoolInv'
  <2>1. CASE released
    BY <1>3, <2>1 DEF Pool!Ping, Pool!Fixed, Pool!PoolInv, Pool!PoolTypeOK, Pool!HandsMatch,
                      Pool!Apart, Pool!NoneLost, Pool!Counted, Pool!OnlyPingPanics
  <2>2. CASE ~released
    <3>1. {"ping", "use", "discard"} \subseteq Pool!Holding
      BY DEF Pool!Holding
    <3> QED BY <1>3, <2>2, <3>1, PoolGoesInv DEF Pool!Ping, Pool!Fixed
  <2> QED BY <2>1, <2>2
<1>4. CASE Pool!Release \/ Pool!ReleaseCloses
  <2> USE DEF Pool!Release, Pool!ReleaseCloses, Pool!PoolInv
  <2>1. UNCHANGED <<hasPing, conns, openedCount, sockets, where, hand, abandoned, panicked>>
    BY <1>4
  <2>2. released' = TRUE
    BY <1>4 DEF Pool!PoolTypeOK, Pool!Counted
  <2>3. Pool!PoolTypeOK' /\ Pool!HandsMatch' /\ Pool!Apart' /\ Pool!NoneLost'
    BY <2>1, <2>2 DEF Pool!PoolTypeOK, Pool!HandsMatch, Pool!Apart, Pool!NoneLost
  <2>4. Pool!Counted' /\ Pool!OnlyPingPanics'
    BY <2>1, <2>2 DEF Pool!Counted, Pool!OnlyPingPanics
  <2> QED BY <2>3, <2>4
<1>5. CASE UNCHANGED poolVars
  BY <1>5 DEF poolVars, Pool!PoolInv, Pool!PoolTypeOK, Pool!HandsMatch, Pool!Apart,
              Pool!NoneLost, Pool!Counted, Pool!OnlyPingPanics
<1> QED BY <1>1, <1>2, <1>3, <1>4, <1>5, PoolReceiveInv, PoolDialInv, PoolPutInv, PoolCloseInv,
           PoolDrainInv DEF Pool!Next

\* The sets that EachConnInOnePlace counts have one element between them.
LEMMA PoolOnePlace == Pool!PoolInv => EachConnInOnePlace
<1> SUFFICES ASSUME Pool!PoolInv PROVE EachConnInOnePlace
  OBVIOUS
<1> USE DEF Pool!PoolInv
<1>1. ASSUME NEW s \in sockets
      PROVE  Cardinality({c \in Client : s \in hand[c]})
               + Cardinality({i \in DOMAIN conns : conns[i] = s})
             = IF s \in abandoned THEN 0 ELSE 1
  <2> DEFINE H == {c \in Client : s \in hand[c]}
             I == {i \in DOMAIN conns : conns[i] = s}
  <2>1. ASSUME s \in abandoned PROVE Cardinality(H) + Cardinality(I) = 0
    <3>1. H = {} /\ I = {}
      BY <2>1 DEF Pool!Apart
    <3> HIDE DEF H, I
    <3>2. Cardinality(H) = 0 /\ Cardinality(I) = 0
      BY <3>1, FS_EmptySet
    <3> QED BY <3>2
  <2>2. ASSUME s \notin abandoned, NEW c \in Client, s \in hand[c]
        PROVE  Cardinality(H) + Cardinality(I) = 1
    <3>1. H = {c} /\ I = {}
      BY <2>2 DEF Pool!Apart
    <3> HIDE DEF H, I
    <3>2. Cardinality(H) = 1 /\ Cardinality(I) = 0
      BY <3>1, FS_EmptySet, FS_Singleton
    <3> QED BY <3>2
  <2>3. ASSUME s \notin abandoned, NEW i \in DOMAIN conns, conns[i] = s
        PROVE  Cardinality(H) + Cardinality(I) = 1
    <3>1. H = {} /\ I = {i}
      BY <2>3 DEF Pool!Apart
    <3> HIDE DEF H, I
    <3>2. Cardinality(H) = 0 /\ Cardinality(I) = 1
      BY <3>1, FS_EmptySet, FS_Singleton
    <3> QED BY <3>2
  <2> QED BY <2>1, <2>2, <2>3 DEF Pool!NoneLost
<1>2. ~released => openedCount = Pool!Cardinality(sockets)
  BY DEF Pool!Counted
<1>3. Pool!Cardinality(sockets) <= MaxCap /\ (panicked => hasPing /\ released)
  BY DEF Pool!Counted, Pool!OnlyPingPanics
<1> QED BY <1>1, <1>2, <1>3, PoolFiniteSets DEF EachConnInOnePlace, Pool!EachConnInOnePlace

\* Whatever Get, Put, Close and Release do at once (pool.go:88-275), with any
\* number of clients: no open connection is lost, shared or counted wrongly,
\* and only a Get past its test of c.ping panics.
THEOREM PoolEachConnInOnePlace == Pool!Spec => []EachConnInOnePlace
BY PoolInitInv, PoolStepInv, PoolOnePlace, PTL DEF Pool!Spec, poolVars, Pool!poolVars

-----------------------------------------------------------------------------
(***************************************************************************)
(* The self-update (SelfUpdate)                                            *)
(***************************************************************************)

\* How the names of files differ.
LEMMA UpdateNames ==
    /\ Update!Exe \in Update!Name /\ Update!Exe.ver = 0
    /\ \A n \in Update!Name : n.bak <= MaxBak =>
         /\ Update!Bak(n) \in Update!Name /\ Update!Bak(n).ver = n.ver
         /\ Update!Bak(n) # n /\ Update!Bak(n) # Update!Exe
         /\ Update!Bak(n) = Update!Bak(Update!Exe) => n = Update!Exe
    /\ \A n \in Update!Name, v \in 0 .. MaxVer :
         Update!New(n, v) \in Update!Name /\ Update!New(n, v).ver = v
    /\ Update!Bak(Update!Exe) \in Update!Name /\ Update!Bak(Update!Exe).ver = 0
    /\ Update!Exe # Update!Bak(Update!Exe)
BY UpdateAssumption DEF Update!Name, Update!Exe, Update!Bak, Update!New

\* A handler that has returned.
LEMMA UpdateNoGet ==
    /\ Update!NoGet \in [at : {"idle", "copy", "remove", "old", "new"}, ver : 0 .. MaxVer,
                         base : Update!Name, file : Inode \cup {0}]
    /\ Update!NoGet.at = "idle"
<1>1. 0 \in 0 .. MaxVer /\ Update!Exe \in Update!Name
  BY UpdateNames, UpdateAssumption
<1> QED BY <1>1 DEF Update!NoGet

\* The installed executable runs and no update is on its way.
LEMMA UpdateInitInv == Update!Init => Update!UpdateInv
<1> SUFFICES ASSUME Update!Init PROVE Update!UpdateInv
  OBVIOUS
<1> USE UpdateAssumption, UpdateNames DEF Update!Init
<1>1. Update!UpdateTypeOK
  BY UpdateNoGet DEF Update!UpdateTypeOK
<1>2. Update!NamesAreRight
  BY DEF Update!NamesAreRight
<1>3. Update!HandlersAreRight
  BY UpdateNoGet DEF Update!HandlersAreRight
<1>4. Update!ExeIsRight
  BY DEF Update!ExeIsRight, Update!ExeIsThere, Update!Whole
<1> QED BY <1>1, <1>2, <1>3, <1>4 DEF Update!UpdateInv

\* A handler's new file is not one that is in use under another name.
LEMMA UpdateCreateInv ==
    ASSUME Update!UpdateInv, Update!OneAtATime, NEW d \in Download, NEW v \in 2 .. MaxVer,
           Update!Create(d, v)
    PROVE  Update!UpdateInv'
<1> DEFINE path == Update!New(runName, v)
           i == IF dir[path] # 0 THEN dir[path] ELSE CHOOSE j \in Inode : j \notin Update!InUse
<1>1. /\ running # 0 /\ get[d] = Update!NoGet /\ runName.bak <= MaxBak
      /\ dir' = [dir EXCEPT ![path] = i] /\ image' = [image EXCEPT ![i] = 0]
      /\ get' = [get EXCEPT ![d] = [at |-> "copy", ver |-> v, base |-> runName, file |-> i]]
      /\ UNCHANGED <<running, runName, exeLost>>
  BY DEF Update!Create
<1>2. path \in Update!Name /\ path.ver = v /\ v \in 0 .. MaxVer /\ v # 0
  BY UpdateNames, UpdateAssumption DEF Update!UpdateInv, Update!UpdateTypeOK
<1>3. i \in Inode /\ i # 0 /\ \A n \in Update!Name : dir[n] = i => n = path
  <2>1. CASE dir[path] # 0
    BY <1>2, <2>1, UpdateAssumption
       DEF Update!UpdateInv, Update!UpdateTypeOK, Update!NamesAreRight
  <2>2. CASE dir[path] = 0
    <3>1. i \in Inode /\ i \notin Update!InUse
      BY <2>2 DEF Update!Create
    <3> QED BY <3>1, UpdateAssumption DEF Update!InUse
  <2> QED BY <2>1, <2>2
<1> HIDE DEF path, i
<1> USE DEF Update!UpdateInv
<1>4. running # i /\ dir[runName] = running /\ runName # path
  BY <1>1, <1>2, <1>3 DEF Update!UpdateTypeOK, Update!NamesAreRight
<1>5. Update!UpdateTypeOK'
  BY <1>1, <1>2, <1>3 DEF Update!UpdateTypeOK
<1>6. Update!NamesAreRight'
  BY <1>1, <1>2, <1>3, <1>4 DEF Update!UpdateTypeOK, Update!NamesAreRight
<1>7. Update!HandlersAreRight'
  <2>1. \A e \in Download : e = d
    BY DEF Update!OneAtATime
  <2>2. get'[d] = [at |-> "copy", ver |-> v, base |-> runName, file |-> i]
    BY <1>1 DEF Update!UpdateTypeOK
  <2>3. dir'[Update!New(runName, v)] = i
    BY <1>1, <1>2 DEF path, Update!UpdateTypeOK
  <2> QED BY <1>1, <1>2, <1>3, <2>1, <2>2, <2>3 DEF Update!HandlersAreRight, Update!NamesAreRight
<1>8. Update!ExeIsRight'
  <2>1. Update!Exe # path /\ Update!Exe \in Update!Name
    BY <1>2, UpdateNames
  <2>2. dir'[Update!Exe] = dir[Update!Exe]
    BY <1>1, <1>2, <2>1 DEF Update!UpdateTypeOK
  <2>3. CASE exeLost
    <3>1. runName # Update!Exe
      BY <1>1, <1>4, <2>3 DEF Update!ExeIsRight, Update!ExeIsGone
    <3>2. \A e \in Download : get'[e].base = runName
      BY <1>1 DEF Update!OneAtATime, Update!UpdateTypeOK
    <3> QED BY <1>1, <2>2, <2>3, <3>1, <3>2 DEF Update!ExeIsRight, Update!ExeIsGone
  <2>4. CASE ~exeLost
    <3>1. ~ \E e \in Download : get[e].at = "new"
      BY <1>1 DEF Update!OneAtATime, Update!NoGet
    <3>2. Update!Whole(Update!Exe)
      BY <1>1, <2>4, <3>1 DEF Update!ExeIsRight, Update!ExeIsThere
    <3> QED BY <1>1, <1>2, <1>3, <2>1, <2>4, <3>2
           DEF Update!ExeIsRight, Update!ExeIsThere, Update!Whole, Update!UpdateTypeOK
  <2> QED BY <2>3, <2>4
<1> QED BY <1>5, <1>6, <1>7, <1>8

\* The file a handler wrote is complete before it goes on; a failed one stays
\* under its own name.
LEMMA UpdateCopyInv ==
    ASSUME Update!UpdateInv, Update!OneAtATime, NEW d \in Download, Update!Copy(d)
    PROVE  Update!UpdateInv'
<1> USE DEF Update!UpdateInv, Update!Copy
<1>1. \A e \in Download : e = d
  BY DEF Update!OneAtATime
<1>2. get[d].file \in Inode /\ get[d].ver # 0 /\ get[d].ver \in Nat
  BY UpdateAssumption DEF Update!UpdateTypeOK, Update!HandlersAreRight
<1>3. ~exeLost => Update!Whole(Update!Exe)
  BY <1>1 DEF Update!ExeIsRight, Update!ExeIsThere, Update!HandlersAreRight
<1>4. CASE image' = [image EXCEPT ![get[d].file] = get[d].ver] /\ Update!Goes(d, "remove")
  <2>1. /\ get'[d].at = "remove" /\ get'[d].file = get[d].file /\ get'[d].ver = get[d].ver
        /\ get'[d].base = get[d].base
    BY <1>4 DEF Update!Goes, Update!UpdateTypeOK
  <2>2. \A i \in Inode : image[i] # 0 => image'[i] # 0
    BY <1>2, <1>4 DEF Update!UpdateTypeOK
  <2>3. Update!UpdateTypeOK'
    BY <1>2, <1>4 DEF Update!Goes, Update!UpdateTypeOK
  <2>4. Update!NamesAreRight'
    BY <2>2 DEF Update!NamesAreRight, Update!UpdateTypeOK
  <2>5. Update!HandlersAreRight'
    BY <1>1, <1>2, <1>4, <2>1 DEF Update!HandlersAreRight, Update!UpdateTypeOK
  <2>6. Update!ExeIsRight'
    <3>1. CASE exeLost
      BY <1>1, <2>1, <3>1 DEF Update!ExeIsRight, Update!ExeIsGone, Update!HandlersAreRight
    <3>2. CASE ~exeLost
      BY <1>3, <2>2, <3>2, UpdateNames
         DEF Update!ExeIsRight, Update!ExeIsThere, Update!Whole, Update!UpdateTypeOK
    <3> QED BY <3>1, <3>2
  <2> QED BY <2>3, <2>4, <2>5, <2>6
<1>5. CASE Update!Returns(d) /\ UNCHANGED image
  <2>1. get'[d].at = "idle"
    BY <1>5 DEF Update!Returns, Update!NoGet, Update!UpdateTypeOK
  <2>2. Update!UpdateTypeOK'
    BY <1>5, UpdateNoGet DEF Update!Returns, Update!UpdateTypeOK
  <2>3. Update!NamesAreRight' /\ Update!HandlersAreRight'
    BY <1>1, <1>5, <2>1 DEF Update!NamesAreRight, Update!HandlersAreRight
  <2>4. Update!ExeIsRight'
    <3>1. CASE exeLost
      BY <1>1, <1>5, <2>1, <3>1 DEF Update!ExeIsRight, Update!ExeIsGone, Update!HandlersAreRight
    <3>2. CASE ~exeLost
      BY <1>3, <1>5, <3>2 DEF Update!ExeIsRight, Update!ExeIsThere, Update!Whole
    <3> QED BY <3>1, <3>2
  <2> QED BY <2>2, <2>3, <2>4
<1> QED BY <1>4, <1>5

\* The old -bak file goes while the executable runs under its own name.
LEMMA UpdateRemoveInv ==
    ASSUME Update!UpdateInv, Update!OneAtATime, NEW d \in Download, Update!RemoveBak(d)
    PROVE  Update!UpdateInv'
<1> USE DEF Update!UpdateInv
<1> DEFINE base == get[d].base
           bak == Update!Bak(base)
<1>1. \A e \in Download : e = d
  BY DEF Update!OneAtATime
<1>2. /\ base \in Update!Name /\ base.bak <= MaxBak /\ base.ver = 0 /\ runName = base
      /\ running # 0 /\ get[d].ver \in 0 .. MaxVer /\ get[d].ver # 0
  BY DEF Update!RemoveBak, Update!HandlersAreRight, Update!UpdateTypeOK
<1>3. /\ bak \in Update!Name /\ bak # base /\ bak # Update!Exe /\ bak.ver = 0
      /\ Update!New(base, get[d].ver).ver # 0 /\ Update!New(base, get[d].ver) \in Update!Name
  BY <1>2, UpdateNames
<1>4. dir' = [dir EXCEPT ![bak] = 0] /\ UNCHANGED <<image, running, runName, exeLost>>
  BY DEF Update!RemoveBak
<1>5. /\ get'[d] = [get[d] EXCEPT !.at = "old"] /\ get[d].at = "remove"
      /\ get' \in [Download -> [at : {"idle", "copy", "remove", "old", "new"}, ver : 0 .. MaxVer,
                                base : Update!Name, file : Inode \cup {0}]]
  BY DEF Update!RemoveBak, Update!Goes, Update!UpdateTypeOK
<1>6. ~exeLost => Update!Whole(Update!Exe)
  BY <1>1, <1>2, <1>5 DEF Update!ExeIsRight, Update!ExeIsThere
<1> HIDE DEF bak
<1>7. Update!UpdateTypeOK'
  BY <1>3, <1>4, <1>5 DEF Update!UpdateTypeOK
<1>8. Update!NamesAreRight'
  BY <1>2, <1>3, <1>4 DEF Update!NamesAreRight, Update!UpdateTypeOK
<1>9. Update!HandlersAreRight'
  <2>1. get'[d].base = base /\ get'[d].ver = get[d].ver /\ get'[d].file = get[d].file /\ get'[d].at = "old"
    BY <1>5 DEF Update!UpdateTypeOK
  <2>2. dir'[Update!New(base, get[d].ver)] = dir[Update!New(base, get[d].ver)]
    BY <1>3, <1>4 DEF Update!UpdateTypeOK
  <2> QED BY <1>1, <1>2, <1>4, <1>5, <2>1, <2>2 DEF Update!HandlersAreRight
<1>10. Update!ExeIsRight'
  <2>1. dir'[Update!Exe] = dir[Update!Exe] /\ get'[d].base = base
    BY <1>3, <1>4, <1>5, UpdateNames DEF Update!UpdateTypeOK
  <2>2. CASE exeLost
    BY <1>1, <1>2, <1>4, <1>5, <2>1, <2>2 DEF Update!ExeIsRight, Update!ExeIsGone
  <2>3. CASE ~exeLost
    BY <1>4, <1>6, <2>1, <2>3 DEF Update!ExeIsRight, Update!ExeIsThere, Update!Whole
  <2> QED BY <2>2, <2>3
<1> QED BY <1>7, <1>8, <1>9, <1>10

\* A handler returns and the files stay as they are: after a second rename that
\* failed, without the executable's name.
LEMMA UpdateReturnsInv ==
    ASSUME Update!UpdateInv, Update!OneAtATime, NEW d \in Download, get[d].at # "idle",
           Update!Returns(d), UNCHANGED <<dir, image, running, runName>>,
           exeLost' = (exeLost \/ (get[d].at = "new" /\ get[d].base = Update!Exe))
    PROVE  Update!UpdateInv'
<1> USE DEF Update!UpdateInv
<1>1. \A e \in Download : e = d
  BY DEF Update!OneAtATime
<1>2. \A e \in Download : get'[e].at = "idle"
  BY <1>1 DEF Update!Returns, Update!NoGet, Update!UpdateTypeOK
<1>3. running # 0 /\ (get[d].at = "new" => dir[get[d].base] = 0)
  BY DEF Update!HandlersAreRight
<1>4. Update!UpdateTypeOK'
  BY UpdateNoGet DEF Update!Returns, Update!UpdateTypeOK
<1>5. Update!NamesAreRight' /\ Update!HandlersAreRight'
  BY <1>2 DEF Update!NamesAreRight, Update!HandlersAreRight
<1>6. CASE exeLost
  BY <1>2, <1>3, <1>4, <1>5, <1>6 DEF Update!ExeIsRight, Update!ExeIsGone
<1>7. CASE ~exeLost /\ get[d].at = "new" /\ get[d].base = Update!Exe
  BY <1>2, <1>3, <1>4, <1>5, <1>7 DEF Update!ExeIsRight, Update!ExeIsGone
<1>8. CASE ~exeLost /\ ~(get[d].at = "new" /\ get[d].base = Update!Exe)
  BY <1>1, <1>3, <1>4, <1>5, <1>8 DEF Update!ExeIsRight, Update!ExeIsThere, Update!Whole
<1> QED BY <1>6, <1>7, <1>8

\* The running image gets the name with -bak, and its own name is free.
LEMMA UpdateRenameOldInv ==
    ASSUME Update!UpdateInv, Update!OneAtATime, NEW d \in Download, Update!RenameOld(d),
           Update!Rename(get[d].base, Update!Bak(get[d].base)), Update!Goes(d, "new")
    PROVE  Update!UpdateInv'
<1> USE DEF Update!UpdateInv
<1> DEFINE base == get[d].base
           bak == Update!Bak(base)
           new == Update!New(base, get[d].ver)
<1>1. \A e \in Download : e = d
  BY DEF Update!OneAtATime
<1>2. /\ base \in Update!Name /\ base.bak <= MaxBak /\ base.ver = 0 /\ runName = base
      /\ running # 0 /\ get[d].ver \in 0 .. MaxVer /\ get[d].ver # 0
      /\ get[d].file # 0 /\ image[get[d].file] # 0 /\ dir[new] = get[d].file
  BY DEF Update!RenameOld, Update!HandlersAreRight, Update!UpdateTypeOK
<1>3. /\ bak \in Update!Name /\ bak # base /\ bak # Update!Exe /\ bak.ver = 0
      /\ new.ver # 0 /\ new \in Update!Name
      /\ bak = Update!Bak(Update!Exe) => base = Update!Exe
  BY <1>2, UpdateNames
<1>4. dir[base] = running /\ image[running] # 0
  BY <1>2 DEF Update!NamesAreRight
<1>5. /\ dir' = [dir EXCEPT ![bak] = running, ![base] = 0] /\ runName' = bak
      /\ UNCHANGED <<image, running, exeLost>>
  BY <1>2, <1>4 DEF Update!RenameOld, Update!Rename
<1>6. /\ get'[d] = [get[d] EXCEPT !.at = "new"] /\ get[d].at = "old"
      /\ get' \in [Download -> [at : {"idle", "copy", "remove", "old", "new"}, ver : 0 .. MaxVer,
                                base : Update!Name, file : Inode \cup {0}]]
  BY <1>2, <1>4 DEF Update!RenameOld, Update!Goes, Update!UpdateTypeOK
<1>7. ~exeLost => Update!Whole(Update!Exe)
  BY <1>1, <1>2, <1>6 DEF Update!ExeIsRight, Update!ExeIsThere
<1>8. /\ dir'[bak] = running /\ dir'[base] = 0
      /\ \A n \in Update!Name \ {bak, base} : dir'[n] = dir[n]
      /\ dir' \in [Update!Name -> Inode \cup {0}]
  BY <1>2, <1>3, <1>5 DEF Update!UpdateTypeOK
<1> HIDE DEF bak, new
<1>9. Update!UpdateTypeOK'
  BY <1>3, <1>5, <1>6, <1>8 DEF Update!UpdateTypeOK
<1>10. Update!NamesAreRight'
  BY <1>2, <1>3, <1>4, <1>5, <1>8 DEF Update!NamesAreRight, Update!UpdateTypeOK
<1>11. Update!HandlersAreRight'
  <2>1. get'[d].base = base /\ get'[d].ver = get[d].ver /\ get'[d].file = get[d].file /\ get'[d].at = "new"
    BY <1>6 DEF Update!UpdateTypeOK
  <2>2. dir'[new] = dir[new]
    BY <1>2, <1>3, <1>8
  <2> QED BY <1>1, <1>2, <1>5, <1>8, <2>1, <2>2 DEF Update!HandlersAreRight, new, bak
<1>12. Update!ExeIsRight'
  <2>1. get'[d].at = "new" /\ get'[d].base = base
    BY <1>6 DEF Update!UpdateTypeOK
  <2>2. base # Update!Exe => dir'[Update!Exe] = dir[Update!Exe]
    BY <1>3, <1>8, UpdateNames
  <2>3. CASE exeLost
    <3>1. base # Update!Exe
      BY <1>6, <2>3 DEF Update!ExeIsRight, Update!ExeIsGone
    <3> QED BY <1>1, <1>2, <1>5, <2>1, <2>2, <2>3, <3>1 DEF Update!ExeIsRight, Update!ExeIsGone
  <2>4. CASE ~exeLost /\ base = Update!Exe
    BY <1>4, <1>5, <1>8, <2>1, <2>4, <1>2 DEF Update!ExeIsRight, Update!ExeIsThere, Update!Whole, bak
  <2>5. CASE ~exeLost /\ base # Update!Exe
    BY <1>5, <1>7, <2>2, <2>5 DEF Update!ExeIsRight, Update!ExeIsThere, Update!Whole
  <2> QED BY <2>3, <2>4, <2>5
<1> QED BY <1>9, <1>10, <1>11, <1>12

\* The new file takes the name that the running image has left.
LEMMA UpdateRenameNewInv ==
    ASSUME Update!UpdateInv, Update!OneAtATime, NEW d \in Download, Update!RenameNew(d),
           Update!Rename(Update!New(get[d].base, get[d].ver), get[d].base), UNCHANGED exeLost
    PROVE  Update!UpdateInv'
<1> USE DEF Update!UpdateInv
<1> DEFINE base == get[d].base
           bak == Update!Bak(base)
           new == Update!New(base, get[d].ver)
           whole == get[d].file
<1>1. \A e \in Download : e = d
  BY DEF Update!OneAtATime
<1>2. /\ base \in Update!Name /\ base.bak <= MaxBak /\ base.ver = 0 /\ runName = bak
      /\ running # 0 /\ get[d].ver \in 0 .. MaxVer /\ get[d].ver # 0
      /\ whole \in Inode /\ whole # 0 /\ image[whole] # 0 /\ dir[new] = whole /\ dir[base] = 0
  BY DEF Update!RenameNew, Update!HandlersAreRight, Update!UpdateTypeOK
<1>3. /\ bak \in Update!Name /\ bak # base /\ bak.ver = 0
      /\ new.ver # 0 /\ new \in Update!Name /\ new # base /\ new # bak
      /\ new # Update!Exe /\ Update!Exe \in Update!Name
  BY <1>2, UpdateNames
<1>4. dir[bak] = running /\ image[running] # 0 /\ whole # running
  BY <1>2, <1>3 DEF Update!NamesAreRight
<1>5. /\ dir' = [dir EXCEPT ![base] = whole, ![new] = 0]
      /\ UNCHANGED <<image, running, runName, exeLost>>
  BY <1>2, <1>4 DEF Update!RenameNew, Update!Rename
<1>6. /\ get'[d].at = "idle"
      /\ get' \in [Download -> [at : {"idle", "copy", "remove", "old", "new"}, ver : 0 .. MaxVer,
                                base : Update!Name, file : Inode \cup {0}]]
  BY UpdateNoGet DEF Update!RenameNew, Update!Returns, Update!UpdateTypeOK
<1>7. /\ dir'[base] = whole /\ dir'[new] = 0
      /\ \A n \in Update!Name \ {base, new} : dir'[n] = dir[n]
      /\ dir' \in [Update!Name -> Inode \cup {0}]
  BY <1>2, <1>3, <1>5 DEF Update!UpdateTypeOK
<1>8. get[d].at = "new"
  BY DEF Update!RenameNew
<1> HIDE DEF bak, new
<1>9. Update!UpdateTypeOK'
  BY <1>5, <1>6, <1>7 DEF Update!UpdateTypeOK
<1>10. Update!NamesAreRight'
  BY <1>2, <1>3, <1>4, <1>5, <1>7 DEF Update!NamesAreRight, Update!UpdateTypeOK
<1>11. Update!HandlersAreRight'
  BY <1>1, <1>6 DEF Update!HandlersAreRight
<1>12. Update!ExeIsRight'
  <2>1. base # Update!Exe => dir'[Update!Exe] = dir[Update!Exe]
    BY <1>3, <1>7
  <2>2. \A e \in Download : get'[e].at = "idle"
    BY <1>1, <1>6
  <2>3. CASE exeLost
    <3>1. base # Update!Exe
      BY <1>8, <2>3 DEF Update!ExeIsRight, Update!ExeIsGone
    <3> QED BY <1>2, <1>5, <2>1, <2>2, <2>3, <3>1 DEF Update!ExeIsRight, Update!ExeIsGone
  <2>4. CASE ~exeLost /\ base = Update!Exe
    BY <1>2, <1>5, <1>7, <2>4 DEF Update!ExeIsRight, Update!ExeIsThere, Update!Whole
  <2>5. CASE ~exeLost /\ base # Update!Exe
    <3>1. Update!Whole(Update!Exe)
      BY <1>1, <1>2, <2>5 DEF Update!ExeIsRight, Update!ExeIsThere
    <3> QED BY <1>5, <2>1, <2>5, <3>1 DEF Update!ExeIsRight, Update!ExeIsThere, Update!Whole
  <2> QED BY <2>3, <2>4, <2>5
<1> QED BY <1>9, <1>10, <1>11, <1>12

\* The process may die at any point: the files stay as they are.
LEMMA UpdateCrashInv == Update!UpdateInv /\ Update!Crash => Update!UpdateInv'
<1> SUFFICES ASSUME Update!UpdateInv, Update!Crash
             PROVE  Update!UpdateInv'
  OBVIOUS
<1> USE DEF Update!UpdateInv, Update!Crash
<1>1. Update!UpdateTypeOK'
  BY UpdateNoGet DEF Update!UpdateTypeOK
<1>2. Update!NamesAreRight'
  BY DEF Update!NamesAreRight
<1>3. Update!HandlersAreRight'
  BY UpdateNoGet DEF Update!HandlersAreRight
<1>4. Update!ExeIsRight'
  <2>1. CASE exeLost
    <3>1. Update!Whole(runName) /\ runName \in Update!Name /\ runName.ver = 0
      BY DEF Update!NamesAreRight, Update!Whole, Update!UpdateTypeOK
    <3> QED BY <2>1, <3>1, UpdateNoGet DEF Update!ExeIsRight, Update!ExeIsGone, Update!Whole
  <2>2. CASE ~exeLost
    BY <2>2 DEF Update!ExeIsRight, Update!ExeIsThere, Update!Whole
  <2> QED BY <2>1, <2>2
<1> QED BY <1>1, <1>2, <1>3, <1>4

\* A process starts only from the executable's name, and no handler is left
\* from the one before it.
LEMMA UpdateStartInv == Update!UpdateInv /\ Update!Start => Update!UpdateInv'
<1> SUFFICES ASSUME Update!UpdateInv, Update!Start
             PROVE  Update!UpdateInv'
  OBVIOUS
<1> USE DEF Update!UpdateInv, Update!Start
<1>1. Update!UpdateTypeOK'
  BY UpdateNames DEF Update!UpdateTypeOK
<1>2. Update!NamesAreRight'
  BY UpdateNames DEF Update!NamesAreRight
<1>3. Update!HandlersAreRight'
  BY DEF Update!HandlersAreRight
<1>4. Update!ExeIsRight'
  BY DEF Update!ExeIsRight, Update!ExeIsThere, Update!ExeIsGone, Update!Whole
<1> QED BY <1>1, <1>2, <1>3, <1>4

\* Every step of one download at a time, of a crash and of a restart.
LEMMA UpdateStepInv ==
    ASSUME Update!OneAtATime
    PROVE  Update!UpdateInv /\ [Update!Next]_(Update!suVars) => Update!UpdateInv'
<1> SUFFICES ASSUME Update!UpdateInv, [Update!Next]_(Update!suVars)
             PROVE  Update!UpdateInv'
  OBVIOUS
<1>1. CASE Update!Crash
  BY <1>1, UpdateCrashInv
<1>2. CASE Update!Start
  BY <1>2, UpdateStartInv
<1>3. ASSUME NEW d \in Download, NEW v \in 2 .. MaxVer, Update!Create(d, v)
      PROVE  Update!UpdateInv'
  BY <1>3, UpdateCreateInv
<1>4. ASSUME NEW d \in Download, Update!Copy(d)
      PROVE  Update!UpdateInv'
  BY <1>4, UpdateCopyInv
<1>5. ASSUME NEW d \in Download, Update!RemoveBak(d)
      PROVE  Update!UpdateInv'
  BY <1>5, UpdateRemoveInv
<1>6. ASSUME NEW d \in Download, Update!RenameOld(d)
      PROVE  Update!UpdateInv'
  <2>1. CASE Update!Rename(get[d].base, Update!Bak(get[d].base)) /\ Update!Goes(d, "new")
    BY <1>6, <2>1, UpdateRenameOldInv
  <2>2. CASE Update!Returns(d) /\ UNCHANGED <<dir, runName>>
    <3>1. get[d].at = "old" /\ UNCHANGED <<image, running>>
      BY <1>6 DEF Update!RenameOld
    <3>2. exeLost' = (exeLost \/ (get[d].at = "new" /\ get[d].base = Update!Exe))
      BY <1>6 DEF Update!RenameOld, Update!UpdateInv, Update!UpdateTypeOK
    <3> QED BY <2>2, <3>1, <3>2, UpdateReturnsInv
  <2> QED BY <1>6, <2>1, <2>2 DEF Update!RenameOld
<1>7. ASSUME NEW d \in Download, Update!RenameNew(d)
      PROVE  Update!UpdateInv'
  <2>1. CASE /\ Update!Rename(Update!New(get[d].base, get[d].ver), get[d].base)
             /\ UNCHANGED exeLost
    BY <1>7, <2>1, UpdateRenameNewInv
  <2>2. CASE /\ exeLost' = (exeLost \/ get[d].base = Update!Exe)
             /\ UNCHANGED <<dir, runName>>
    BY <1>7, <2>2, UpdateReturnsInv DEF Update!RenameNew
  <2> QED BY <1>7, <2>1, <2>2 DEF Update!RenameNew
<1>8. CASE UNCHANGED Update!suVars
  BY <1>8 DEF Update!suVars, Update!UpdateInv, Update!UpdateTypeOK, Update!NamesAreRight,
              Update!HandlersAreRight, Update!ExeIsRight, Update!ExeIsThere, Update!ExeIsGone,
              Update!Whole
<1> QED BY <1>1, <1>2, <1>3, <1>4, <1>5, <1>6, <1>7, <1>8 DEF Update!Next

\* With one download at a time (download.go:50-64), whatever the versions, the
\* number of updates, failed copies and renames, crashes and restarts, there is
\* always a complete image under the executable's name or under the one with
\* -bak; with more -bak only after a second rename failed.
THEOREM UpdateAlwaysAnImage ==
    ASSUME Update!OneAtATime
    PROVE  Update!Spec => []AlwaysAnImage
<1>1. Update!UpdateInv => AlwaysAnImage
  <2> SUFFICES ASSUME Update!UpdateInv PROVE Update!AlwaysAnImage
    BY DEF AlwaysAnImage
  <2> USE DEF Update!UpdateInv, Update!ExeIsRight, Update!AlwaysAnImage
  <2>1. CASE exeLost /\ running # 0
    <3>1. Update!Whole(runName) /\ runName \in Update!Name /\ runName.ver = 0
      BY <2>1 DEF Update!NamesAreRight, Update!Whole, Update!UpdateTypeOK
    <3> QED BY <2>1, <3>1 DEF Update!ExeIsGone
  <2>2. CASE exeLost /\ running = 0
    BY <2>2 DEF Update!ExeIsGone
  <2>3. CASE ~exeLost
    BY <2>3 DEF Update!ExeIsThere
  <2> QED BY <2>1, <2>2, <2>3
<1> QED BY <1>1, UpdateInitInv, UpdateStepInv, PTL DEF Update!Spec
-----------------------------------------------------------------------------
(***************************************************************************)
(* Service routing (Routing).  The tables of a process are compared with   *)
(* those the static file alone would give; a round of LoadServiceData does *)
(* the same to both, so what differs is always without a balancer.         *)
(***************************************************************************)

\* Cardinalities as Routing sees them.
LEMMA RouteFiniteSets ==
    \A S : /\ Router!IsFiniteSet(S) <=> IsFiniteSet(S)
           /\ Router!Cardinality(S) = Cardinality(S)
BY DEF Router!IsFiniteSet, IsFiniteSet, Router!Cardinality, Cardinality

\* The rounds of LoadServiceData exist, for every number of services.
LEMMA RouteRounds ==
    ASSUME NEW m, NEW f, NEW n \in Nat
    PROVE  \E c : c = [i \in 0 .. n |-> IF i = 0 THEN m ELSE Router!LoadService(c[i - 1], f[i])]
<1> DEFINE Rounds(c, k) ==
             c = [i \in 0 .. k |-> IF i = 0 THEN m ELSE Router!LoadService(c[i - 1], f[i])]
           S == {k \in Nat : \E c : Rounds(c, k)}
<1>1. 0 \in S
  <2> DEFINE z == [i \in 0 .. 0 |-> m]
  <2>1. Rounds(z, 0)
    OBVIOUS
  <2> QED BY <2>1
<1>2. ASSUME NEW k \in S PROVE k + 1 \in S
  <2>1. PICK c : Rounds(c, k)
    OBVIOUS
  <2> DEFINE g == [i \in 0 .. k + 1 |-> IF i = k + 1 THEN Router!LoadService(c[k], f[k + 1]) ELSE c[i]]
  <2>2. \A i \in 0 .. k + 1 :
           g[i] = IF i = 0 THEN m ELSE Router!LoadService(g[i - 1], f[i])
    <3> SUFFICES ASSUME NEW i \in 0 .. k + 1
                 PROVE  g[i] = IF i = 0 THEN m ELSE Router!LoadService(g[i - 1], f[i])
      OBVIOUS
    <3>1. CASE i = k + 1
      <4>1. g[i] = Router!LoadService(c[k], f[k + 1]) /\ i # 0 /\ g[i - 1] = c[k]
        BY <3>1
      <4> HIDE DEF g
      <4> QED BY <3>1, <4>1
    <3>2. CASE i # k + 1
      <4>1. i \in 0 .. k /\ g[i] = c[i]
        BY <3>2
      <4>2. i # 0 => i - 1 \in 0 .. k /\ i - 1 # k + 1 /\ i - 1 \in 0 .. k + 1
        BY <4>1
      <4>3. i # 0 => g[i - 1] = c[i - 1]
        BY <4>2
      <4>4. c[i] = IF i = 0 THEN m ELSE Router!LoadService(c[i - 1], f[i])
        BY <2>1, <4>1
      <4> HIDE DEF g
      <4> QED BY <4>1, <4>3, <4>4
    <3> QED BY <3>1, <3>2
  <2>3. g = [i \in 0 .. k + 1 |-> g[i]]
    OBVIOUS
  <2> HIDE DEF g
  <2>4. Rounds(g, k + 1)
    BY <2>2, <2>3
  <2> QED BY <2>4
<1> HIDE DEF S
<1>3. n \in S
  <2>1. S \in SUBSET Nat
    BY DEF S
  <2> QED BY <1>1, <1>2, <2>1, SetInduction
<1> QED BY <1>3 DEF S

\* So LoadServiceData leaves what the last round leaves.
LEMMA RouteLoad ==
    ASSUME NEW m, NEW f, Len(f) \in Nat
    PROVE  \E c : /\ c[0] = m /\ Router!LoadServiceData(m, f) = c[Len(f)]
                  /\ \A i \in 1 .. Len(f) : c[i] = Router!LoadService(c[i - 1], f[i])
<1> DEFINE a == CHOOSE c : c = [i \in 0 .. Len(f) |->
                  IF i = 0 THEN m ELSE Router!LoadService(c[i - 1], f[i])]
<1>1. Router!LoadServiceData(m, f) = a[Len(f)]
  BY DEF Router!LoadServiceData
<1>2. a = [i \in 0 .. Len(f) |-> IF i = 0 THEN m ELSE Router!LoadService(a[i - 1], f[i])]
  BY RouteRounds
<1> HIDE DEF a
<1>3. a[0] = m
  BY <1>2
<1>4. \A i \in 1 .. Len(f) : a[i] = Router!LoadService(a[i - 1], f[i])
  BY <1>2
<1> QED BY <1>1, <1>3, <1>4

\* What it is to be a sequence, and what appending two gives.
LEMMA RouteSequence ==
    ASSUME NEW q, Router!IsSequence(q)
    PROVE  Len(q) \in Nat /\ DOMAIN q = 1 .. Len(q) /\ (q = <<>> <=> Len(q) = 0)
BY DEF Router!IsSequence

\* A function on 1 .. n is one.
LEMMA RouteIsSequence ==
    ASSUME NEW q, NEW n \in Nat, q = [i \in 1 .. n |-> q[i]]
    PROVE  Router!IsSequence(q) /\ Len(q) = n
<1> DEFINE S == {q[i] : i \in DOMAIN q}
<1>1. DOMAIN q = 1 .. n
  OBVIOUS
<1>2. \A i \in 1 .. n : q[i] \in S
  BY <1>1
<1> HIDE DEF S
<1>3. q \in [1 .. n -> S]
  BY <1>2
<1>4. q \in Seq(S) /\ Len(q) = n
  BY <1>3
<1> QED BY <1>4 DEF S, Router!IsSequence

\* Append of two sequences.
LEMMA RouteAppend ==
    ASSUME NEW a, NEW b, Router!IsSequence(a), Router!IsSequence(b)
    PROVE  /\ Router!IsSequence(a \o b) /\ Len(a \o b) = Len(a) + Len(b)
           /\ \A i \in 1 .. Len(a) : (a \o b)[i] = a[i]
           /\ \A i \in 1 .. Len(b) : (a \o b)[Len(a) + i] = b[i]
<1> DEFINE S == {a[i] : i \in DOMAIN a} \cup {b[i] : i \in DOMAIN b}
<1>1. {a[i] : i \in DOMAIN a} \subseteq S /\ {b[i] : i \in DOMAIN b} \subseteq S
  OBVIOUS
<1> HIDE DEF S
<1>2. a \in Seq(S) /\ b \in Seq(S)
  BY <1>1 DEF Router!IsSequence
<1>3. a \o b \in Seq(S) /\ Len(a \o b) = Len(a) + Len(b)
  BY <1>2
<1> DEFINE q == a \o b
<1>4. Len(q) \in Nat /\ q = [i \in 1 .. Len(q) |-> q[i]]
  <2>1. q \in Seq(S)
    BY <1>3
  <2> HIDE DEF q
  <2>2. Len(q) \in Nat /\ q \in [1 .. Len(q) -> S]
    BY <2>1, LenProperties
  <2> QED BY <2>2
<1>5. Len(a) \in Nat /\ Len(b) \in Nat
  BY <1>2
<1>6. \A i \in 1 .. Len(a) : (a \o b)[i] = a[i]
  BY <1>2, <1>5
<1>7. \A i \in 1 .. Len(b) : (a \o b)[Len(a) + i] = b[i]
  BY <1>2, <1>5
<1> HIDE DEF q
<1>8. Router!IsSequence(q)
  BY <1>4, RouteIsSequence
<1> QED BY <1>3, <1>6, <1>7, <1>8 DEF q

\* The entry of a host in ServiceMap.
HostEntry(n) == [name |-> n, lb |-> TRUE]

\* What one round of LoadServiceData leaves in each table.
LEMMA RouteServices ==
    ASSUME NEW m, NEW s, NEW g, g = Router!LoadService(m, s)
    PROVE  /\ DOMAIN g.services = s.hosts \cup DOMAIN m.services
           /\ \A h \in s.hosts : g.services[h] = HostEntry(s.name)
           /\ \A h \in DOMAIN m.services : h \notin s.hosts => g.services[h] = m.services[h]
<1>1. g.services = Router!Over([h \in s.hosts |-> HostEntry(s.name)], m.services)
  BY DEF Router!LoadService, HostEntry
<1>2. g.services = [x \in s.hosts \cup DOMAIN m.services |->
                      IF x \in s.hosts THEN HostEntry(s.name) ELSE m.services[x]]
  BY <1>1 DEF Router!Over
<1> QED BY <1>2

\* A service without rules leaves the rules as they are.
LEMMA RouteOldRules ==
    ASSUME NEW m, NEW s, s.rules = <<>>
    PROVE  Router!LoadService(m, s).rules = m.rules
BY DEF Router!LoadService

\* One with rules adds them behind those of its name.
LEMMA RouteRules ==
    ASSUME NEW m, NEW s, NEW g, g = Router!LoadService(m, s), s.rules # <<>>
    PROVE  /\ DOMAIN g.rules = DOMAIN m.rules \cup {s.name}
           /\ \A n \in DOMAIN m.rules : n # s.name => g.rules[n] = m.rules[n]
           /\ g.rules[s.name] = (IF s.name \in DOMAIN m.rules THEN m.rules[s.name] ELSE <<>>)
                                   \o Router!RuleTable(s)
<1> DEFINE v == (IF s.name \in DOMAIN m.rules THEN m.rules[s.name] ELSE <<>>) \o Router!RuleTable(s)
<1>1. g.rules = Router!Put1(m.rules, s.name, v)
  BY DEF Router!LoadService
<1> HIDE DEF v
<1>2. g.rules = [x \in {s.name} \cup DOMAIN m.rules |-> IF x \in {s.name} THEN v ELSE m.rules[x]]
  BY <1>1 DEF Router!Put1, Router!Over
<1>3. g.rules[s.name] = v
  BY <1>2
<1>4. /\ DOMAIN g.rules = DOMAIN m.rules \cup {s.name}
      /\ \A n \in DOMAIN m.rules : n # s.name => g.rules[n] = m.rules[n]
  BY <1>2
<1> QED BY <1>3, <1>4 DEF v

\* Its endpoints are added to those of its name.
LEMMA RouteEndpoints ==
    ASSUME NEW m, NEW s, NEW g, g = Router!LoadService(m, s)
    PROVE  /\ DOMAIN g.endpoints = DOMAIN m.endpoints \cup {s.name}
           /\ \A n \in DOMAIN m.endpoints : n # s.name => g.endpoints[n] = m.endpoints[n]
           /\ g.endpoints[s.name] = Router!AllEndpoints(s)
                  \cup (IF s.name \in DOMAIN m.endpoints THEN m.endpoints[s.name] ELSE {})
<1> DEFINE v == Router!AllEndpoints(s)
                  \cup (IF s.name \in DOMAIN m.endpoints THEN m.endpoints[s.name] ELSE {})
<1>1. g.endpoints = Router!Put1(m.endpoints, s.name, v)
  BY DEF Router!LoadService
<1> HIDE DEF v
<1>2. g.endpoints = [x \in {s.name} \cup DOMAIN m.endpoints |->
                        IF x \in {s.name} THEN v ELSE m.endpoints[x]]
  BY <1>1 DEF Router!Put1, Router!Over
<1>3. g.endpoints[s.name] = v
  BY <1>2
<1>4. /\ DOMAIN g.endpoints = DOMAIN m.endpoints \cup {s.name}
      /\ \A n \in DOMAIN m.endpoints : n # s.name => g.endpoints[n] = m.endpoints[n]
  BY <1>2
<1> QED BY <1>3, <1>4 DEF v

\* The clusters of the service: those of the file over the older ones.
LEMMA RouteClusters ==
    ASSUME NEW m, NEW s, NEW g, g = Router!LoadService(m, s)
    PROVE  /\ DOMAIN g.clusters = DOMAIN m.clusters \cup {s.name}
           /\ \A n \in DOMAIN m.clusters : n # s.name => g.clusters[n] = m.clusters[n]
           /\ DOMAIN g.clusters[s.name] = DOMAIN Router!ClusterTable(s)
                  \cup (IF s.name \in DOMAIN m.clusters THEN DOMAIN m.clusters[s.name] ELSE {})
           /\ \A c \in DOMAIN Router!ClusterTable(s) :
                 g.clusters[s.name][c] = Router!ClusterTable(s)[c]
           /\ s.name \in DOMAIN m.clusters =>
                 \A c \in DOMAIN m.clusters[s.name] : c \notin DOMAIN Router!ClusterTable(s)
                     => g.clusters[s.name][c] = m.clusters[s.name][c]
<1> DEFINE old == IF s.name \in DOMAIN m.clusters THEN m.clusters[s.name] ELSE <<>>
           t == Router!ClusterTable(s)
           v == Router!Over(t, old)
<1>1. g.clusters = Router!Put1(m.clusters, s.name, v)
  BY DEF Router!LoadService
<1>2. DOMAIN old = IF s.name \in DOMAIN m.clusters THEN DOMAIN m.clusters[s.name] ELSE {}
  OBVIOUS
<1>3. s.name \in DOMAIN m.clusters => old = m.clusters[s.name]
  OBVIOUS
<1> HIDE DEF old, t
<1>4. v = [x \in DOMAIN t \cup DOMAIN old |-> IF x \in DOMAIN t THEN t[x] ELSE old[x]]
  BY DEF Router!Over
<1> HIDE DEF v
<1>5. g.clusters = [x \in {s.name} \cup DOMAIN m.clusters |->
                        IF x \in {s.name} THEN v ELSE m.clusters[x]]
  BY <1>1 DEF Router!Put1, Router!Over
<1>6. g.clusters[s.name] = v
  BY <1>5
<1>7. /\ DOMAIN g.clusters = DOMAIN m.clusters \cup {s.name}
      /\ \A n \in DOMAIN m.clusters : n # s.name => g.clusters[n] = m.clusters[n]
  BY <1>5
<1>8. /\ DOMAIN v = DOMAIN t \cup DOMAIN old
      /\ \A c \in DOMAIN t : v[c] = t[c]
      /\ \A c \in DOMAIN old : c \notin DOMAIN t => v[c] = old[c]
  BY <1>4
<1> QED BY <1>2, <1>3, <1>6, <1>7, <1>8 DEF t

\* The values of a function on a finite set are finitely many.
LEMMA RouteImage ==
    ASSUME NEW f, IsFiniteSet(DOMAIN f), f = [x \in DOMAIN f |-> f[x]]
    PROVE  IsFiniteSet({f[x] : x \in DOMAIN f})
<1> DEFINE T == {f[x] : x \in DOMAIN f}
<1>1. f \in Surjection(DOMAIN f, T)
  BY DEF Surjection
<1> HIDE DEF T
<1>2. IsFiniteSet(T)
  BY <1>1, FS_Surjection
<1> QED BY <1>2 DEF T

\* A file names finitely many endpoints for a service.
LEMMA RouteEndpointsFinite ==
    ASSUME NEW s, Router!IsSequence(s.clusters),
           \A i \in DOMAIN s.clusters : Router!IsSequence(s.clusters[i].endpoints)
    PROVE  IsFiniteSet(Router!AllEndpoints(s))
<1> DEFINE e == [i \in DOMAIN s.clusters |-> Router!ToSet(s.clusters[i].endpoints)]
           E == {e[i] : i \in DOMAIN e}
<1>1. DOMAIN s.clusters = 1 .. Len(s.clusters) /\ Len(s.clusters) \in Nat
  BY RouteSequence
<1>2. IsFiniteSet(DOMAIN e)
  <2>1. IsFiniteSet(1 .. Len(s.clusters))
    BY <1>1, FS_Interval
  <2> QED BY <1>1, <2>1
<1>3. ASSUME NEW i \in DOMAIN s.clusters PROVE IsFiniteSet(e[i])
  <2> DEFINE q == s.clusters[i].endpoints
  <2>1. Len(q) \in Nat /\ DOMAIN q = 1 .. Len(q) /\ q = [x \in DOMAIN q |-> q[x]]
    <3>1. Router!IsSequence(q)
      OBVIOUS
    <3> HIDE DEF q
    <3>2. Len(q) \in Nat /\ DOMAIN q = 1 .. Len(q)
      BY <3>1, RouteSequence
    <3>3. q \in Seq({q[x] : x \in DOMAIN q})
      BY <3>1 DEF Router!IsSequence
    <3>4. q \in [1 .. Len(q) -> {q[x] : x \in DOMAIN q}]
      BY <3>3, LenProperties
    <3> QED BY <3>2, <3>4
  <2>2. e[i] = {q[x] : x \in DOMAIN q}
    BY DEF Router!ToSet
  <2> HIDE DEF q, e
  <2>3. IsFiniteSet(DOMAIN q)
    <3>1. Len(q) \in Int /\ 1 \in Int
      BY <2>1
    <3>2. IsFiniteSet(1 .. Len(q))
      BY <3>1, FS_Interval
    <3> QED BY <2>1, <3>2
  <2> QED BY <2>1, <2>2, <2>3, RouteImage
<1>4. Router!AllEndpoints(s) = UNION E
  BY DEF Router!AllEndpoints
<1>5. e = [i \in DOMAIN e |-> e[i]] /\ DOMAIN e = DOMAIN s.clusters
  OBVIOUS
<1> HIDE DEF e
<1>6. IsFiniteSet(E)
  BY <1>2, <1>5, RouteImage
<1>7. \A x \in E : IsFiniteSet(x)
  BY <1>3, <1>5
<1> HIDE DEF E
<1> QED BY <1>4, <1>6, <1>7, FS_UNION

\* Every entry of a cluster table is a cluster of the file, with a balancer.
LEMMA RouteClusterTable ==
    ASSUME NEW s, Router!IsSequence(s.clusters), NEW c \in DOMAIN Router!ClusterTable(s)
    PROVE  \E i \in DOMAIN s.clusters :
              Router!ClusterTable(s)[c] = [simple |-> s.clusters[i].simple,
                                           endpoints |-> s.clusters[i].endpoints, lb |-> TRUE]
<1> DEFINE LastOne(i) == /\ s.clusters[i].name = c
                   /\ \A j \in DOMAIN s.clusters : s.clusters[j].name = c => j <= i
           S == {i \in DOMAIN s.clusters : s.clusters[i].name = c}
<1>1. DOMAIN s.clusters = 1 .. Len(s.clusters) /\ Len(s.clusters) \in Nat
  BY RouteSequence
<1>2. c \in {s.clusters[i].name : i \in DOMAIN s.clusters}
  BY DEF Router!ClusterTable
<1>3. S # {} /\ S \in SUBSET (0 .. Len(s.clusters))
  BY <1>1, <1>2
<1>4. PICK k \in S : \A j \in S : j <= k
  BY <1>1, <1>3, LargestOf
<1>5. k \in DOMAIN s.clusters /\ LastOne(k)
  BY <1>4
<1> DEFINE i == CHOOSE i \in DOMAIN s.clusters : LastOne(i)
<1>6. i \in DOMAIN s.clusters
  BY <1>5
<1>7. Router!ClusterTable(s)[c] = [simple |-> s.clusters[i].simple,
                                   endpoints |-> s.clusters[i].endpoints, lb |-> TRUE]
  BY <1>2 DEF Router!ClusterTable
<1> HIDE DEF i
<1> QED BY <1>6, <1>7

\* The rules of a service of the file all have a balancer.
LEMMA RouteRuleTable ==
    ASSUME NEW s, Router!IsSequence(s.rules)
    PROVE  /\ Router!IsSequence(Router!RuleTable(s))
           /\ Len(Router!RuleTable(s)) = Len(s.rules)
           /\ \A i \in DOMAIN Router!RuleTable(s) : \A j \in DOMAIN Router!RuleTable(s)[i] :
                 "lb" \in DOMAIN Router!RuleTable(s)[i][j]
<1> DEFINE q == Router!RuleTable(s)
<1>1. DOMAIN s.rules = 1 .. Len(s.rules) /\ Len(s.rules) \in Nat
  BY RouteSequence
<1>2. q = [i \in DOMAIN s.rules |-> q[i]]
  BY DEF Router!RuleTable
<1>3. \A i \in DOMAIN q : \A j \in DOMAIN q[i] : "lb" \in DOMAIN q[i][j]
  BY DEF Router!RuleTable
<1> HIDE DEF q
<1>4. Router!IsSequence(q) /\ Len(q) = Len(s.rules)
  BY <1>1, <1>2, RouteIsSequence
<1> QED BY <1>3, <1>4 DEF q

\* What a service of a file is known to be.
FileService(s) ==
    /\ Router!IsSequence(s.rules) /\ Router!IsSequence(s.clusters)
    /\ \A i \in DOMAIN s.clusters : Router!IsSequence(s.clusters[i].endpoints)

\* A round keeps the tables well formed.
LEMMA RouteTables ==
    ASSUME NEW m, NEW s, NEW g, g = Router!LoadService(m, s), Router!Tables(m), FileService(s)
    PROVE  Router!Tables(g)
<1>1. \A h \in DOMAIN g.services :
         g.services[h] = [name |-> g.services[h].name, lb |-> g.services[h].lb]
  <2> SUFFICES ASSUME NEW h \in DOMAIN g.services
               PROVE  g.services[h] = [name |-> g.services[h].name, lb |-> g.services[h].lb]
    OBVIOUS
  <2>1. CASE h \in s.hosts
    <3>1. g.services[h] = HostEntry(s.name)
      BY <2>1, RouteServices
    <3> QED BY <3>1 DEF HostEntry
  <2>2. CASE h \notin s.hosts
    <3>1. /\ DOMAIN g.services = s.hosts \cup DOMAIN m.services
          /\ \A x \in DOMAIN m.services : x \notin s.hosts => g.services[x] = m.services[x]
      BY RouteServices
    <3>2. h \in DOMAIN m.services /\ g.services[h] = m.services[h]
      BY <2>2, <3>1
    <3> QED BY <3>2 DEF Router!Tables
  <2> QED BY <2>1, <2>2
<1>2. ASSUME NEW n \in DOMAIN g.rules
      PROVE  /\ Router!IsSequence(g.rules[n])
             /\ \A i \in DOMAIN g.rules[n] : \A j \in DOMAIN g.rules[n][i] :
                   "lb" \in DOMAIN g.rules[n][i][j]
  <2>1. CASE s.rules = <<>> \/ n # s.name
    <3>1. n \in DOMAIN m.rules /\ g.rules[n] = m.rules[n]
      BY <2>1, RouteOldRules, RouteRules
    <3> QED BY <3>1 DEF Router!Tables
  <2>2. CASE s.rules # <<>> /\ n = s.name
    <3> DEFINE t == Router!RuleTable(s)
               a == IF s.name \in DOMAIN m.rules THEN m.rules[s.name] ELSE <<>>
    <3>1. g.rules[n] = a \o t
      BY <2>2, RouteRules
    <3>2. Router!IsSequence(t) /\ \A i \in DOMAIN t : \A j \in DOMAIN t[i] : "lb" \in DOMAIN t[i][j]
      BY RouteRuleTable DEF FileService
    <3>3. Router!IsSequence(a) /\ \A i \in DOMAIN a : \A j \in DOMAIN a[i] : "lb" \in DOMAIN a[i][j]
      <4>1. CASE s.name \in DOMAIN m.rules
        BY <4>1 DEF Router!Tables
      <4>2. CASE s.name \notin DOMAIN m.rules
        <5>1. a = <<>> /\ Router!IsSequence(<<>>)
          BY <4>2 DEF Router!IsSequence
        <5> HIDE DEF a
        <5> QED BY <5>1
      <4> QED BY <4>1, <4>2
    <3> HIDE DEF t, a
    <3>4. /\ Router!IsSequence(a \o t) /\ Len(a \o t) = Len(a) + Len(t)
          /\ \A i \in 1 .. Len(a) : (a \o t)[i] = a[i]
          /\ \A i \in 1 .. Len(t) : (a \o t)[Len(a) + i] = t[i]
      BY <3>2, <3>3, RouteAppend
    <3>5. /\ DOMAIN a = 1 .. Len(a) /\ DOMAIN t = 1 .. Len(t) /\ Len(a) \in Nat /\ Len(t) \in Nat
          /\ DOMAIN (a \o t) = 1 .. Len(a \o t)
      BY <3>2, <3>3, <3>4, RouteSequence
    <3>6. ASSUME NEW i \in DOMAIN (a \o t)
          PROVE  \A j \in DOMAIN (a \o t)[i] : "lb" \in DOMAIN (a \o t)[i][j]
      <4>1. CASE i <= Len(a)
        <5>1. i \in 1 .. Len(a)
          BY <3>4, <3>5, <4>1
        <5> QED BY <3>3, <3>4, <3>5, <5>1
      <4>2. CASE ~(i <= Len(a))
        <5>1. i - Len(a) \in 1 .. Len(t) /\ Len(a) + (i - Len(a)) = i
          BY <3>4, <3>5, <4>2
        <5>2. (a \o t)[i] = t[i - Len(a)]
          BY <3>4, <5>1
        <5> QED BY <3>2, <3>5, <5>1, <5>2
      <4> QED BY <4>1, <4>2
    <3> QED BY <3>1, <3>4, <3>6
  <2> QED BY <2>1, <2>2
<1>3. ASSUME NEW n \in DOMAIN g.endpoints PROVE IsFiniteSet(g.endpoints[n])
  <2>1. CASE n # s.name
    <3>1. n \in DOMAIN m.endpoints /\ g.endpoints[n] = m.endpoints[n]
      BY <2>1, RouteEndpoints
    <3> QED BY <3>1, RouteFiniteSets DEF Router!Tables
  <2>2. CASE n = s.name
    <3> DEFINE old == IF s.name \in DOMAIN m.endpoints THEN m.endpoints[s.name] ELSE {}
    <3>1. g.endpoints[n] = Router!AllEndpoints(s) \cup old
      BY <2>2, RouteEndpoints
    <3>2. IsFiniteSet(old)
      BY FS_EmptySet, RouteFiniteSets DEF Router!Tables
    <3>3. IsFiniteSet(Router!AllEndpoints(s))
      BY RouteEndpointsFinite DEF FileService
    <3> HIDE DEF old
    <3> QED BY <3>1, <3>2, <3>3, FS_Union
  <2> QED BY <2>1, <2>2
<1>4. ASSUME NEW n \in DOMAIN g.clusters, NEW c \in DOMAIN g.clusters[n]
      PROVE  "lb" \in DOMAIN g.clusters[n][c]
  <2>1. CASE n # s.name
    <3>1. n \in DOMAIN m.clusters /\ g.clusters[n] = m.clusters[n]
      BY <2>1, RouteClusters
    <3> QED BY <3>1 DEF Router!Tables
  <2>2. CASE n = s.name /\ c \in DOMAIN Router!ClusterTable(s)
    <3>1. g.clusters[n][c] = Router!ClusterTable(s)[c]
      BY <2>2, RouteClusters
    <3>2. PICK i \in DOMAIN s.clusters :
              Router!ClusterTable(s)[c] = [simple |-> s.clusters[i].simple,
                                           endpoints |-> s.clusters[i].endpoints, lb |-> TRUE]
      BY <2>2, RouteClusterTable DEF FileService
    <3> QED BY <3>1, <3>2
  <2>3. CASE n = s.name /\ c \notin DOMAIN Router!ClusterTable(s)
    <3>1. s.name \in DOMAIN m.clusters /\ c \in DOMAIN m.clusters[s.name]
      BY <2>3, RouteClusters
    <3>2. g.clusters[n][c] = m.clusters[s.name][c]
      BY <2>3, <3>1, RouteClusters
    <3> QED BY <3>1, <3>2 DEF Router!Tables
  <2> QED BY <2>1, <2>2, <2>3
<1>5. g = [services |-> g.services, rules |-> g.rules, endpoints |-> g.endpoints,
           clusters |-> g.clusters]
  BY DEF Router!LoadService
<1>6. \A n \in DOMAIN g.endpoints : Router!IsFiniteSet(g.endpoints[n])
  BY <1>3, RouteFiniteSets
<1> QED BY <1>1, <1>2, <1>4, <1>5, <1>6 DEF Router!Tables

\* What EndsWith says of two sequences.
LEMMA RouteEnds ==
    ASSUME NEW a, NEW b, NEW d, d = Len(a) - Len(b)
    PROVE  Router!EndsWith(a, b) <=>
              /\ d >= 0
              /\ \A i \in 1 .. d : \A j \in DOMAIN a[i] : a[i][j].lb = {}
              /\ \A i \in 1 .. Len(b) : a[d + i] = b[i]
BY DEF Router!EndsWith

\* Two rule lists that end alike do so after the same rules were added to both.
LEMMA RouteEndsAppend ==
    ASSUME NEW a, NEW b, NEW t, Router!IsSequence(a), Router!IsSequence(b), Router!IsSequence(t),
           Router!EndsWith(a, b)
    PROVE  Router!EndsWith(a \o t, b \o t)
<1> DEFINE x == a \o t
           y == b \o t
           d == Len(a) - Len(b)
<1>1. Len(a) \in Nat /\ Len(b) \in Nat /\ Len(t) \in Nat
  BY RouteSequence
<1>2. /\ Len(x) = Len(a) + Len(t)
      /\ \A i \in 1 .. Len(a) : x[i] = a[i]
      /\ \A i \in 1 .. Len(t) : x[Len(a) + i] = t[i]
  BY RouteAppend
<1>3. /\ Len(y) = Len(b) + Len(t)
      /\ \A i \in 1 .. Len(b) : y[i] = b[i]
      /\ \A i \in 1 .. Len(t) : y[Len(b) + i] = t[i]
  BY RouteAppend
<1> HIDE DEF x, y
<1>4. Len(x) - Len(y) = d /\ d \in Int
  BY <1>1, <1>2, <1>3
<1>5. /\ d >= 0
      /\ \A i \in 1 .. d : \A j \in DOMAIN a[i] : a[i][j].lb = {}
      /\ \A i \in 1 .. Len(b) : a[d + i] = b[i]
  BY RouteEnds
<1>6. \A i \in 1 .. d : \A j \in DOMAIN x[i] : x[i][j].lb = {}
  <2> SUFFICES ASSUME NEW i \in 1 .. d PROVE \A j \in DOMAIN x[i] : x[i][j].lb = {}
    OBVIOUS
  <2>1. i \in 1 .. Len(a)
    BY <1>1, <1>4
  <2>2. x[i] = a[i]
    BY <1>2, <2>1
  <2> QED BY <1>5, <2>2
<1>7. \A i \in 1 .. Len(y) : x[d + i] = y[i]
  <2> SUFFICES ASSUME NEW i \in 1 .. Len(y) PROVE x[d + i] = y[i]
    OBVIOUS
  <2>1. i \in 1 .. (Len(b) + Len(t))
    BY <1>3
  <2>2. CASE i <= Len(b)
    <3>1. i \in 1 .. Len(b) /\ d + i \in 1 .. Len(a)
      BY <1>1, <1>4, <1>5, <2>1, <2>2
    <3>2. x[d + i] = a[d + i] /\ y[i] = b[i] /\ a[d + i] = b[i]
      <4>1. x[d + i] = a[d + i]
        BY <1>2, <3>1
      <4>2. y[i] = b[i] /\ a[d + i] = b[i]
        BY <1>3, <1>5, <3>1
      <4> QED BY <4>1, <4>2
    <3> QED BY <3>2
  <2>3. CASE ~(i <= Len(b))
    <3> DEFINE k == i - Len(b)
    <3>1. k \in 1 .. Len(t) /\ i = Len(b) + k /\ d + i = Len(a) + k
      BY <1>1, <2>1, <2>3
    <3> HIDE DEF k, d
    <3>2. x[d + i] = t[k]
      BY <1>2, <3>1
    <3>3. y[i] = t[k]
      BY <1>3, <3>1
    <3> QED BY <3>2, <3>3
  <2> QED BY <2>2, <2>3
<1>8. d = Len(x) - Len(y)
  BY <1>4
<1> HIDE DEF d
<1>9. Router!EndsWith(x, y)
  BY <1>5, <1>6, <1>7, <1>8, RouteEnds
<1> QED BY <1>9 DEF x, y

\* The empty list is a sequence, and a list without balancers ends with it.
LEMMA RouteEndsEmpty ==
    /\ Router!IsSequence(<<>>)
    /\ \A a : Router!IsSequence(a) /\ Router!BareRules(a) => Router!EndsWith(a, <<>>)
<1>1. Router!IsSequence(<<>>)
  BY DEF Router!IsSequence
<1>2. ASSUME NEW a, Router!IsSequence(a), Router!BareRules(a) PROVE Router!EndsWith(a, <<>>)
  <2>1. Len(a) \in Nat /\ DOMAIN a = 1 .. Len(a)
    BY <1>2, RouteSequence
  <2>2. Len(<<>>) = 0
    OBVIOUS
  <2>3. Len(a) = Len(a) - Len(<<>>) /\ Len(a) >= 0 /\ 1 .. Len(<<>>) = {}
    BY <2>1, <2>2
  <2>4. \A i \in 1 .. Len(a) : \A j \in DOMAIN a[i] : a[i][j].lb = {}
    BY <1>2, <2>1 DEF Router!BareRules
  <2> QED BY <2>3, <2>4, RouteEnds
<1> QED BY <1>1, <1>2

\* One service of the file, read into tables that come from a cache and into
\* tables that do not: what is not the file's has no balancer, still.
LEMMA RouteMerged ==
    ASSUME NEW m, NEW g, NEW s, NEW x, NEW y,
           x = Router!LoadService(m, s), y = Router!LoadService(g, s),
           Router!Tables(m), Router!Tables(g), FileService(s), Router!Merged(m, g)
    PROVE  Router!Merged(x, y)
<1> DEFINE t == Router!RuleTable(s)
           fresh == Router!ClusterTable(s)
<1>1. /\ DOMAIN x.services = s.hosts \cup DOMAIN m.services
      /\ \A h \in s.hosts : x.services[h] = HostEntry(s.name)
      /\ \A h \in DOMAIN m.services : h \notin s.hosts => x.services[h] = m.services[h]
  BY RouteServices
<1>2. /\ DOMAIN y.services = s.hosts \cup DOMAIN g.services
      /\ \A h \in s.hosts : y.services[h] = HostEntry(s.name)
      /\ \A h \in DOMAIN g.services : h \notin s.hosts => y.services[h] = g.services[h]
  BY RouteServices
<1>3. /\ DOMAIN y.services \subseteq DOMAIN x.services
      /\ \A h \in DOMAIN y.services : x.services[h] = y.services[h]
  BY <1>1, <1>2 DEF Router!Merged
<1>4. /\ DOMAIN y.rules \subseteq DOMAIN x.rules
      /\ \A n \in DOMAIN x.rules :
            /\ n \in DOMAIN y.rules => Router!EndsWith(x.rules[n], y.rules[n])
            /\ n \notin DOMAIN y.rules => Router!BareRules(x.rules[n])
  <2>1. CASE s.rules = <<>>
    <3>1. x.rules = m.rules /\ y.rules = g.rules
      BY <2>1, RouteOldRules
    <3> QED BY <3>1 DEF Router!Merged
  <2>2. CASE s.rules # <<>>
    <3> DEFINE a == IF s.name \in DOMAIN m.rules THEN m.rules[s.name] ELSE <<>>
               b == IF s.name \in DOMAIN g.rules THEN g.rules[s.name] ELSE <<>>
    <3>1. /\ DOMAIN x.rules = DOMAIN m.rules \cup {s.name}
          /\ \A n \in DOMAIN m.rules : n # s.name => x.rules[n] = m.rules[n]
          /\ x.rules[s.name] = a \o t
      BY <2>2, RouteRules
    <3>2. /\ DOMAIN y.rules = DOMAIN g.rules \cup {s.name}
          /\ \A n \in DOMAIN g.rules : n # s.name => y.rules[n] = g.rules[n]
          /\ y.rules[s.name] = b \o t
      BY <2>2, RouteRules
    <3>3. Router!IsSequence(t)
      BY RouteRuleTable DEF FileService
    <3>4. Router!IsSequence(a)
      BY RouteEndsEmpty DEF Router!Tables
    <3>5. Router!IsSequence(b)
      BY RouteEndsEmpty DEF Router!Tables
    <3>6. Router!EndsWith(a, b)
      <4>1. CASE s.name \in DOMAIN g.rules
        <5>1. s.name \in DOMAIN m.rules /\ Router!EndsWith(m.rules[s.name], g.rules[s.name])
          BY <4>1 DEF Router!Merged
        <5> QED BY <4>1, <5>1
      <4>2. CASE s.name \notin DOMAIN g.rules
        <5>1. b = <<>>
          BY <4>2
        <5>2. Router!BareRules(a)
          <6>1. s.name \in DOMAIN m.rules => Router!BareRules(m.rules[s.name])
            BY <4>2 DEF Router!Merged
          <6>2. Router!BareRules(<<>>)
            BY DEF Router!BareRules
          <6> QED BY <6>1, <6>2
        <5> HIDE DEF a, b
        <5> QED BY <3>4, <5>1, <5>2, RouteEndsEmpty
      <4> QED BY <4>1, <4>2
    <3> HIDE DEF a, b, t
    <3>7. Router!EndsWith(a \o t, b \o t)
      BY <3>3, <3>4, <3>5, <3>6, RouteEndsAppend
    <3>8. DOMAIN y.rules \subseteq DOMAIN x.rules
      BY <3>1, <3>2 DEF Router!Merged
    <3>9. ASSUME NEW n \in DOMAIN x.rules
          PROVE  /\ n \in DOMAIN y.rules => Router!EndsWith(x.rules[n], y.rules[n])
                 /\ n \notin DOMAIN y.rules => Router!BareRules(x.rules[n])
      <4>1. CASE n = s.name
        BY <3>1, <3>2, <3>7, <4>1
      <4>2. CASE n # s.name
        <5>1. n \in DOMAIN m.rules /\ x.rules[n] = m.rules[n]
          BY <3>1, <4>2
        <5>2. n \in DOMAIN y.rules <=> n \in DOMAIN g.rules
          BY <3>2, <4>2
        <5>3. n \in DOMAIN g.rules => y.rules[n] = g.rules[n]
          BY <3>2, <4>2
        <5> QED BY <5>1, <5>2, <5>3 DEF Router!Merged
      <4> QED BY <4>1, <4>2
    <3> QED BY <3>8, <3>9
  <2> QED BY <2>1, <2>2
<1>5. /\ DOMAIN x.clusters = DOMAIN m.clusters \cup {s.name}
      /\ \A n \in DOMAIN m.clusters : n # s.name => x.clusters[n] = m.clusters[n]
      /\ DOMAIN x.clusters[s.name] = DOMAIN fresh
             \cup (IF s.name \in DOMAIN m.clusters THEN DOMAIN m.clusters[s.name] ELSE {})
      /\ \A c \in DOMAIN fresh : x.clusters[s.name][c] = fresh[c]
      /\ s.name \in DOMAIN m.clusters =>
            \A c \in DOMAIN m.clusters[s.name] : c \notin DOMAIN fresh
                => x.clusters[s.name][c] = m.clusters[s.name][c]
  BY RouteClusters
<1>6. /\ DOMAIN y.clusters = DOMAIN g.clusters \cup {s.name}
      /\ \A n \in DOMAIN g.clusters : n # s.name => y.clusters[n] = g.clusters[n]
      /\ DOMAIN y.clusters[s.name] = DOMAIN fresh
             \cup (IF s.name \in DOMAIN g.clusters THEN DOMAIN g.clusters[s.name] ELSE {})
      /\ \A c \in DOMAIN fresh : y.clusters[s.name][c] = fresh[c]
      /\ s.name \in DOMAIN g.clusters =>
            \A c \in DOMAIN g.clusters[s.name] : c \notin DOMAIN fresh
                => y.clusters[s.name][c] = g.clusters[s.name][c]
  BY RouteClusters
<1> HIDE DEF fresh
<1>7. DOMAIN y.clusters \subseteq DOMAIN x.clusters
  BY <1>5, <1>6 DEF Router!Merged
<1>8. ASSUME NEW n \in DOMAIN y.clusters PROVE DOMAIN y.clusters[n] \subseteq DOMAIN x.clusters[n]
  <2>1. CASE n = s.name
    <3>1. s.name \in DOMAIN g.clusters => /\ s.name \in DOMAIN m.clusters
                                          /\ DOMAIN g.clusters[s.name] \subseteq DOMAIN m.clusters[s.name]
      BY DEF Router!Merged
    <3> QED BY <1>5, <1>6, <2>1, <3>1
  <2>2. CASE n # s.name
    <3>1. n \in DOMAIN g.clusters /\ y.clusters[n] = g.clusters[n]
      BY <1>6, <2>2
    <3>2. n \in DOMAIN m.clusters /\ x.clusters[n] = m.clusters[n]
      BY <1>5, <2>2, <3>1 DEF Router!Merged
    <3> QED BY <3>1, <3>2 DEF Router!Merged
  <2> QED BY <2>1, <2>2
<1>9. ASSUME NEW n \in DOMAIN x.clusters, NEW c \in DOMAIN x.clusters[n]
      PROVE  IF n \in DOMAIN y.clusters /\ c \in DOMAIN y.clusters[n]
             THEN x.clusters[n][c] = y.clusters[n][c] ELSE ~x.clusters[n][c].lb
  <2>1. CASE n # s.name
    <3>1. n \in DOMAIN m.clusters /\ x.clusters[n] = m.clusters[n]
      BY <1>5, <2>1
    <3>2. n \in DOMAIN y.clusters <=> n \in DOMAIN g.clusters
      BY <1>6, <2>1
    <3>3. n \in DOMAIN g.clusters => y.clusters[n] = g.clusters[n]
      BY <1>6, <2>1
    <3>4. IF n \in DOMAIN g.clusters /\ c \in DOMAIN g.clusters[n]
          THEN m.clusters[n][c] = g.clusters[n][c] ELSE ~m.clusters[n][c].lb
      BY <3>1 DEF Router!Merged
    <3> QED BY <3>1, <3>2, <3>3, <3>4
  <2>2. CASE n = s.name /\ c \in DOMAIN fresh
    BY <1>5, <1>6, <2>2
  <2>3. CASE n = s.name /\ c \notin DOMAIN fresh
    <3>1. s.name \in DOMAIN m.clusters /\ c \in DOMAIN m.clusters[s.name]
      BY <1>5, <2>3
    <3>2. x.clusters[n][c] = m.clusters[n][c]
      BY <1>5, <2>3, <3>1
    <3>3. IF n \in DOMAIN g.clusters /\ c \in DOMAIN g.clusters[n]
          THEN m.clusters[n][c] = g.clusters[n][c] ELSE ~m.clusters[n][c].lb
      BY <2>3, <3>1 DEF Router!Merged
    <3>4. n \in DOMAIN y.clusters /\ (c \in DOMAIN y.clusters[n] <=>
              (n \in DOMAIN g.clusters /\ c \in DOMAIN g.clusters[n]))
      BY <1>6, <2>3
    <3>5. n \in DOMAIN g.clusters /\ c \in DOMAIN g.clusters[n]
             => y.clusters[n][c] = g.clusters[n][c]
      BY <1>6, <2>3
    <3> QED BY <3>2, <3>3, <3>4, <3>5
  <2> QED BY <2>1, <2>2, <2>3
<1> QED BY <1>3, <1>4, <1>7, <1>8, <1>9 DEF Router!Merged

\* What the tables hold after n services of the file f, and nothing else, were
\* read into them: the hosts belong to their last service, every cluster has the
\* endpoints of a cluster in the file.
FromFile(g, f, n) ==
    /\ \A k \in 1 .. n : f[k].name \in DOMAIN g.clusters
    /\ \A k \in 1 .. n : f[k].rules # <<>> => f[k].name \in DOMAIN g.rules
    /\ \A nm \in DOMAIN g.rules : g.rules[nm] # <<>>
    /\ \A k \in 1 .. n : \A h \in f[k].hosts :
          (\A j \in 1 .. n : h \in f[j].hosts => j <= k)
          => h \in DOMAIN g.services /\ g.services[h] = HostEntry(f[k].name)
    /\ \A nm \in DOMAIN g.clusters : \A c \in DOMAIN g.clusters[nm] :
          \E k \in 1 .. n : /\ f[k].name = nm
                            /\ \E i \in DOMAIN f[k].clusters :
                                  g.clusters[nm][c].endpoints = f[k].clusters[i].endpoints

\* A round keeps it so.
LEMMA RouteFromFile ==
    ASSUME NEW g, NEW f, NEW n \in Nat, NEW y, y = Router!LoadService(g, f[n + 1]),
           FromFile(g, f, n), Router!Tables(g), FileService(f[n + 1])
    PROVE  FromFile(y, f, n + 1)
<1> DEFINE s == f[n + 1]
           fresh == Router!ClusterTable(s)
<1>1. /\ DOMAIN y.services = s.hosts \cup DOMAIN g.services
      /\ \A h \in s.hosts : y.services[h] = HostEntry(s.name)
      /\ \A h \in DOMAIN g.services : h \notin s.hosts => y.services[h] = g.services[h]
  BY RouteServices
<1>2. /\ DOMAIN y.clusters = DOMAIN g.clusters \cup {s.name}
      /\ \A nm \in DOMAIN g.clusters : nm # s.name => y.clusters[nm] = g.clusters[nm]
      /\ DOMAIN y.clusters[s.name] = DOMAIN fresh
             \cup (IF s.name \in DOMAIN g.clusters THEN DOMAIN g.clusters[s.name] ELSE {})
      /\ \A c \in DOMAIN fresh : y.clusters[s.name][c] = fresh[c]
      /\ s.name \in DOMAIN g.clusters =>
            \A c \in DOMAIN g.clusters[s.name] : c \notin DOMAIN fresh
                => y.clusters[s.name][c] = g.clusters[s.name][c]
  BY RouteClusters
<1>3. s.rules = <<>> => y.rules = g.rules
  BY RouteOldRules
<1>4. ASSUME s.rules # <<>>
      PROVE  /\ DOMAIN y.rules = DOMAIN g.rules \cup {s.name}
             /\ \A nm \in DOMAIN g.rules : nm # s.name => y.rules[nm] = g.rules[nm]
             /\ y.rules[s.name] # <<>>
  <2> DEFINE a == IF s.name \in DOMAIN g.rules THEN g.rules[s.name] ELSE <<>>
             t == Router!RuleTable(s)
  <2>1. /\ DOMAIN y.rules = DOMAIN g.rules \cup {s.name}
        /\ \A nm \in DOMAIN g.rules : nm # s.name => y.rules[nm] = g.rules[nm]
        /\ y.rules[s.name] = a \o t
    <3>1. y = Router!LoadService(g, s)
      OBVIOUS
    <3> HIDE DEF s
    <3> QED BY <1>4, <3>1, RouteRules
  <2>2. Router!IsSequence(a)
    BY RouteEndsEmpty DEF Router!Tables
  <2>3. Router!IsSequence(t) /\ Len(t) = Len(s.rules)
    BY RouteRuleTable DEF FileService
  <2>4. Len(s.rules) \in Nat /\ Len(s.rules) # 0
    <3>1. Router!IsSequence(s.rules) /\ s.rules # <<>>
      BY <1>4 DEF FileService
    <3> HIDE DEF s
    <3> QED BY <3>1, RouteSequence
  <2> HIDE DEF a, t, s
  <2>5. Len(a) \in Nat
    BY <2>2, RouteSequence
  <2>6. Router!IsSequence(a \o t) /\ Len(a \o t) = Len(a) + Len(t)
    BY <2>2, <2>3, RouteAppend
  <2>7. Len(a \o t) # 0
    BY <2>3, <2>4, <2>5, <2>6
  <2>8. a \o t # <<>>
    BY <2>6, <2>7, RouteSequence
  <2> QED BY <2>1, <2>8
<1>5. n + 1 \in 1 .. n + 1 /\ (1 .. n) \subseteq (1 .. n + 1) /\ s = f[n + 1]
  OBVIOUS
<1>6. \A k \in 1 .. n + 1 : k = n + 1 \/ k \in 1 .. n
  OBVIOUS
<1>7. FileService(s)
  OBVIOUS
<1> HIDE DEF s, fresh
<1>8. \A k \in 1 .. n + 1 : f[k].name \in DOMAIN y.clusters
  BY <1>2, <1>5, <1>6 DEF FromFile
<1>9. \A k \in 1 .. n + 1 : f[k].rules # <<>> => f[k].name \in DOMAIN y.rules
  <2> SUFFICES ASSUME NEW k \in 1 .. n + 1, f[k].rules # <<>> PROVE f[k].name \in DOMAIN y.rules
    OBVIOUS
  <2>1. CASE k = n + 1
    BY <1>4, <1>5, <2>1
  <2>2. CASE k \in 1 .. n
    <3>1. f[k].name \in DOMAIN g.rules
      BY <2>2 DEF FromFile
    <3> QED BY <1>3, <1>4, <3>1
  <2> QED BY <1>6, <2>1, <2>2
<1>10. \A nm \in DOMAIN y.rules : y.rules[nm] # <<>>
  <2> SUFFICES ASSUME NEW nm \in DOMAIN y.rules PROVE y.rules[nm] # <<>>
    OBVIOUS
  <2>1. CASE s.rules = <<>>
    BY <1>3, <2>1 DEF FromFile
  <2>2. CASE s.rules # <<>> /\ nm = s.name
    BY <1>4, <2>2
  <2>3. CASE s.rules # <<>> /\ nm # s.name
    BY <1>4, <2>3 DEF FromFile
  <2> QED BY <2>1, <2>2, <2>3
<1>11. ASSUME NEW k \in 1 .. n + 1, NEW h \in f[k].hosts,
              \A j \in 1 .. n + 1 : h \in f[j].hosts => j <= k
       PROVE  h \in DOMAIN y.services /\ y.services[h] = HostEntry(f[k].name)
  <2>1. CASE k = n + 1
    BY <1>1, <1>5, <2>1
  <2>2. CASE k \in 1 .. n
    <3>1. h \notin s.hosts
      BY <1>5, <1>11, <2>2
    <3>2. \A j \in 1 .. n : h \in f[j].hosts => j <= k
      BY <1>5, <1>11
    <3>3. h \in DOMAIN g.services /\ g.services[h] = HostEntry(f[k].name)
      BY <2>2, <3>2 DEF FromFile
    <3> QED BY <1>1, <3>1, <3>3
  <2> QED BY <1>6, <2>1, <2>2
<1>12. ASSUME NEW nm \in DOMAIN y.clusters, NEW c \in DOMAIN y.clusters[nm]
       PROVE  \E k \in 1 .. n + 1 : /\ f[k].name = nm
                                    /\ \E i \in DOMAIN f[k].clusters :
                                          y.clusters[nm][c].endpoints = f[k].clusters[i].endpoints
  <2>1. CASE nm = s.name /\ c \in DOMAIN fresh
    <3>1. PICK i \in DOMAIN s.clusters :
              fresh[c] = [simple |-> s.clusters[i].simple,
                      endpoints |-> s.clusters[i].endpoints, lb |-> TRUE]
      BY <1>7, <2>1, RouteClusterTable DEF FileService, fresh
    <3>2. y.clusters[nm][c].endpoints = s.clusters[i].endpoints
      BY <1>2, <2>1, <3>1
    <3> QED BY <1>5, <2>1, <3>2
  <2>2. CASE ~(nm = s.name /\ c \in DOMAIN fresh)
    <3>1. nm \in DOMAIN g.clusters /\ c \in DOMAIN g.clusters[nm]
          /\ y.clusters[nm][c] = g.clusters[nm][c]
      BY <1>2, <2>2
    <3>2. PICK k \in 1 .. n : /\ f[k].name = nm
                              /\ \E i \in DOMAIN f[k].clusters :
                                    g.clusters[nm][c].endpoints = f[k].clusters[i].endpoints
      BY <3>1 DEF FromFile
    <3> QED BY <1>5, <3>1, <3>2
  <2> QED BY <2>1, <2>2
<1> QED BY <1>8, <1>9, <1>10, <1>11, <1>12 DEF FromFile

\* The tables after Load: well formed, the file's alone over what a cache left,
\* and those of the file alone as FromFile says.
LEMMA RouteLoaded ==
    ASSUME NEW m, Router!Tables(m), Router!Bare(m),
           NEW f, Router!IsSequence(f), \A k \in DOMAIN f : FileService(f[k]),
           NEW x, x = Router!LoadServiceData(m, f),
           NEW y, y = Router!LoadServiceData(Router!NewMaps, f)
    PROVE  Router!Tables(x) /\ Router!Tables(y) /\ Router!Merged(x, y) /\ FromFile(y, f, Len(f))
<1>1. Len(f) \in Nat /\ DOMAIN f = 1 .. Len(f)
  BY RouteSequence
<1>2. PICK c : /\ c[0] = m /\ x = c[Len(f)]
               /\ \A i \in 1 .. Len(f) : c[i] = Router!LoadService(c[i - 1], f[i])
  BY <1>1, RouteLoad
<1>3. PICK e : /\ e[0] = Router!NewMaps /\ y = e[Len(f)]
               /\ \A i \in 1 .. Len(f) : e[i] = Router!LoadService(e[i - 1], f[i])
  BY <1>1, RouteLoad
<1> DEFINE Good(n) == /\ Router!Tables(c[n]) /\ Router!Tables(e[n])
                      /\ Router!Merged(c[n], e[n]) /\ FromFile(e[n], f, n)
           S == {n \in Nat : n <= Len(f) => Good(n)}
<1>4. Good(0)
  <2>1. Router!Tables(Router!NewMaps)
    BY DEF Router!Tables, Router!NewMaps
  <2>2. Router!Merged(m, Router!NewMaps)
    BY DEF Router!Merged, Router!NewMaps, Router!Bare
  <2>3. FromFile(Router!NewMaps, f, 0)
    BY DEF FromFile, Router!NewMaps
  <2> QED BY <1>2, <1>3, <2>1, <2>2, <2>3
<1>5. ASSUME NEW n \in Nat, n + 1 <= Len(f), Good(n) PROVE Good(n + 1)
  <2>1. n + 1 \in 1 .. Len(f) /\ (n + 1) - 1 = n
    BY <1>1, <1>5
  <2>2. FileService(f[n + 1])
    BY <1>1, <2>1
  <2>3. c[n + 1] = Router!LoadService(c[n], f[n + 1])
    BY <1>2, <2>1
  <2>4. e[n + 1] = Router!LoadService(e[n], f[n + 1])
    BY <1>3, <2>1
  <2>5. Router!Tables(c[n + 1])
    BY <1>5, <2>2, <2>3, RouteTables
  <2>6. Router!Tables(e[n + 1])
    BY <1>5, <2>2, <2>4, RouteTables
  <2>7. Router!Merged(c[n + 1], e[n + 1])
    BY <1>5, <2>2, <2>3, <2>4, RouteMerged
  <2>8. FromFile(e[n + 1], f, n + 1)
    BY <1>5, <2>2, <2>4, RouteFromFile
  <2> QED BY <2>5, <2>6, <2>7, <2>8
<1> HIDE DEF Good
<1>6. 0 \in S
  BY <1>4
<1>7. ASSUME NEW n \in S PROVE n + 1 \in S
  <2>1. n \in Nat /\ (n + 1 <= Len(f) => n <= Len(f))
    BY <1>1
  <2> QED BY <1>5, <2>1
<1>8. S \in SUBSET Nat
  OBVIOUS
<1> HIDE DEF S
<1>9. Len(f) \in S
  BY <1>1, <1>6, <1>7, <1>8, SetInduction
<1>10. Good(Len(f))
  BY <1>1, <1>9 DEF S
<1> QED BY <1>2, <1>3, <1>10 DEF Good

\* The static files, as the assumption has them.
LEMMA RouteFiles ==
    ASSUME NEW f \in Files
    PROVE  Router!IsSequence(f) /\ \A k \in DOMAIN f : FileService(f[k])
BY RoutingAssumption DEF Router!FilesAssumption, FileService

\* What comes back from the cache file is well formed and has no balancer.
LEMMA RouteJson ==
    ASSUME NEW m, Router!Tables(m), NEW b, b = Router!JsonForm(m)
    PROVE  Router!Tables(b) /\ Router!Bare(b)
<1> DEFINE sv == [h \in DOMAIN m.services |-> [m.services[h] EXCEPT !.lb = FALSE]]
           ru == [s \in DOMAIN m.rules |->
                    [i \in DOMAIN m.rules[s] |->
                       [j \in DOMAIN m.rules[s][i] |-> [m.rules[s][i][j] EXCEPT !.lb = {}]]]]
           cl == [s \in DOMAIN m.clusters |->
                    [c \in DOMAIN m.clusters[s] |-> [m.clusters[s][c] EXCEPT !.lb = FALSE]]]
<1>1. m = [services |-> m.services, rules |-> m.rules, endpoints |-> m.endpoints,
           clusters |-> m.clusters]
  BY DEF Router!Tables
<1>2. b = [m EXCEPT !.services = sv, !.rules = ru, !.clusters = cl]
  BY DEF Router!JsonForm
<1>3. ASSUME NEW h \in DOMAIN sv PROVE sv[h] = [name |-> sv[h].name, lb |-> sv[h].lb]
  <2>1. m.services[h] = [name |-> m.services[h].name, lb |-> m.services[h].lb]
    BY DEF Router!Tables
  <2>2. sv[h] = [name |-> m.services[h].name, lb |-> FALSE]
    BY <2>1
  <2> HIDE DEF sv
  <2> QED BY <2>2
<1>4. ASSUME NEW n \in DOMAIN ru
      PROVE  /\ Router!IsSequence(ru[n])
             /\ \A i \in DOMAIN ru[n] : \A j \in DOMAIN ru[n][i] :
                   "lb" \in DOMAIN ru[n][i][j] /\ ru[n][i][j].lb = {}
  <2>1. DOMAIN ru[n] = DOMAIN m.rules[n] /\ n \in DOMAIN m.rules
    OBVIOUS
  <2>2. Router!IsSequence(m.rules[n])
    BY <2>1 DEF Router!Tables
  <2>3. ru[n] = [i \in DOMAIN ru[n] |-> ru[n][i]]
    OBVIOUS
  <2>4. ASSUME NEW i \in DOMAIN ru[n], NEW j \in DOMAIN ru[n][i]
        PROVE  "lb" \in DOMAIN ru[n][i][j] /\ ru[n][i][j].lb = {}
    <3>1. i \in DOMAIN m.rules[n] /\ j \in DOMAIN m.rules[n][i]
      OBVIOUS
    <3>2. "lb" \in DOMAIN m.rules[n][i][j]
      BY <2>1, <3>1 DEF Router!Tables
    <3>3. ru[n][i][j] = [m.rules[n][i][j] EXCEPT !.lb = {}]
      BY <3>1
    <3> HIDE DEF ru
    <3> QED BY <3>2, <3>3
  <2> HIDE DEF ru
  <2>5. Len(m.rules[n]) \in Nat /\ DOMAIN m.rules[n] = 1 .. Len(m.rules[n])
    BY <2>2, RouteSequence
  <2>6. Router!IsSequence(ru[n])
    BY <2>1, <2>3, <2>5, RouteIsSequence
  <2> QED BY <2>4, <2>6
<1>5. ASSUME NEW n \in DOMAIN cl, NEW c \in DOMAIN cl[n]
      PROVE  "lb" \in DOMAIN cl[n][c] /\ ~cl[n][c].lb
  <2>1. n \in DOMAIN m.clusters /\ c \in DOMAIN m.clusters[n]
    OBVIOUS
  <2>2. "lb" \in DOMAIN m.clusters[n][c]
    BY <2>1 DEF Router!Tables
  <2>3. cl[n][c] = [m.clusters[n][c] EXCEPT !.lb = FALSE]
    BY <2>1
  <2> HIDE DEF cl
  <2>4. "lb" \in DOMAIN cl[n][c]
    BY <2>2, <2>3
  <2>5. cl[n][c].lb = FALSE
    BY <2>2, <2>3
  <2> QED BY <2>4, <2>5
<1>6. \A n \in DOMAIN m.endpoints : Router!IsFiniteSet(m.endpoints[n])
  BY DEF Router!Tables
<1> HIDE DEF sv, ru, cl
<1>7. b = [services |-> sv, rules |-> ru, endpoints |-> m.endpoints, clusters |-> cl]
  BY <1>1, <1>2
<1>8. /\ b.services = sv /\ b.rules = ru /\ b.endpoints = m.endpoints /\ b.clusters = cl
      /\ b = [services |-> b.services, rules |-> b.rules, endpoints |-> b.endpoints,
              clusters |-> b.clusters]
  BY <1>7
<1>9. Router!Tables(b)
  BY <1>3, <1>4, <1>5, <1>6, <1>8 DEF Router!Tables
<1>10. Router!Bare(b)
  BY <1>4, <1>5, <1>8 DEF Router!Bare, Router!BareRules
<1> QED BY <1>9, <1>10

\* The counters stay below their width.
LEMMA RouteBump ==
    ASSUME next \in [DOMAIN next -> 0 .. Wrap - 1], NEW o
    PROVE  Router!Bump(o) \in 0 .. Wrap - 1
<1>1. Wrap \in Nat /\ Wrap > 1
  BY RoutingAssumption DEF Router!FilesAssumption
<1> DEFINE v == IF o \in DOMAIN next THEN next[o] ELSE 0
<1>2. v \in Nat
  BY <1>1
<1> HIDE DEF v
<1>3. (v + 1) % Wrap \in 0 .. Wrap - 1
  BY <1>1, <1>2
<1> QED BY <1>3 DEF v, Router!Bump

\* Before the first start there is nothing in the tables or the cache.
LEMMA RouteInit == ASSUME Router!Init PROVE Router!RoutingInv
<1>1. <<>> \in [DOMAIN <<>> -> 0 .. Wrap - 1]
  OBVIOUS
<1> QED BY <1>1 DEF Router!Init, Router!RoutingInv

\* Every action keeps the invariant.
LEMMA RouteStep == ASSUME Router!RoutingInv, [Router!Next]_routingVars PROVE Router!RoutingInv'
<1>1. CASE Router!EditFile
  BY <1>1 DEF Router!EditFile, Router!RoutingInv
<1>2. CASE Router!Load
  <2>1. PICK seen \in {cache, {}} : maps' = Router!LoadServiceData(Router!LoadCache(seen), file)
    BY <1>2 DEF Router!Load
  <2> DEFINE m == Router!LoadCache(seen)
             y == Router!LoadServiceData(Router!NewMaps, file)
  <2>2. file \in Files /\ maps' = Router!LoadServiceData(m, file) /\ loaded' = file
        /\ file' = file /\ cache' = cache /\ next' = <<>>
    BY <1>2, <2>1 DEF Router!Load, Router!RoutingInv
  <2>3. Router!Tables(m) /\ Router!Bare(m)
    <3>1. CASE seen = {}
      <4>1. m = Router!NewMaps
        BY <3>1 DEF Router!LoadCache
      <4> HIDE DEF m
      <4> QED BY <4>1 DEF Router!Tables, Router!Bare, Router!NewMaps
    <3>2. CASE seen # {}
      <4>1. m \in cache
        BY <2>1, <3>2 DEF Router!LoadCache
      <4> QED BY <4>1 DEF Router!RoutingInv
    <3> QED BY <3>1, <3>2
  <2>4. Router!IsSequence(file) /\ \A k \in DOMAIN file : FileService(file[k])
    BY <2>2, RouteFiles
  <2> HIDE DEF m
  <2>5. Router!Tables(maps') /\ Router!Merged(maps', y)
    BY <2>2, <2>3, <2>4, RouteLoaded
  <2>6. <<>> \in [DOMAIN <<>> -> 0 .. Wrap - 1]
    OBVIOUS
  <2> QED BY <2>2, <2>5, <2>6 DEF Router!RoutingInv
<1>3. CASE Router!SaveTakes
  <2>1. (cache' = {} \/ cache' = cache) /\ UNCHANGED <<file, up, maps, next, loaded>>
    BY <1>3 DEF Router!SaveTakes, Router!SaveTruncates, Router!SaveOpenFails, Router!SaveGivesUp
  <2> QED BY <2>1 DEF Router!RoutingInv
<1>4. CASE Router!SaveEnds
  <2>1. /\ up /\ UNCHANGED <<file, up, maps, next, loaded>>
        /\ cache' = {Router!JsonForm(maps)} \/ cache' = cache
    BY <1>4 DEF Router!SaveEnds, Router!SaveWrites, Router!SaveFails
  <2>2. Router!Tables(maps)
    BY <2>1 DEF Router!RoutingInv
  <2>3. Router!Tables(Router!JsonForm(maps)) /\ Router!Bare(Router!JsonForm(maps))
    BY <2>2, RouteJson
  <2> QED BY <2>1, <2>3 DEF Router!RoutingInv
<1>5. CASE Router!AutoSave
  BY <1>5 DEF Router!AutoSave, Router!RoutingInv
<1>6. CASE Router!Crash
  <2>1. <<>> \in [DOMAIN <<>> -> 0 .. Wrap - 1]
    OBVIOUS
  <2> QED BY <1>6, <2>1 DEF Router!Crash, Router!RoutingInv
<1>7. ASSUME NEW req \in Requests, Router!Request(req) PROVE Router!RoutingInv'
  <2>1. PICK r : \/ Router!Crash
                 \/ /\ next' = IF r.owner = <<>> THEN next ELSE Router!Put1(next, r.owner, Router!Bump(r.owner))
                    /\ UNCHANGED <<file, cache, up, maps, loaded>>
    BY <1>7 DEF Router!Request
  <2>2. CASE Router!Crash
    <3>1. <<>> \in [DOMAIN <<>> -> 0 .. Wrap - 1]
      OBVIOUS
    <3> QED BY <2>2, <3>1 DEF Router!Crash, Router!RoutingInv
  <2>3. CASE ~Router!Crash
    <3> DEFINE v == Router!Bump(r.owner)
    <3>1. next \in [DOMAIN next -> 0 .. Wrap - 1]
      BY DEF Router!RoutingInv
    <3>2. v \in 0 .. Wrap - 1
      BY <3>1, RouteBump
    <3> HIDE DEF v
    <3>3. Router!Put1(next, r.owner, v) \in [DOMAIN Router!Put1(next, r.owner, v) -> 0 .. Wrap - 1]
      BY <3>1, <3>2 DEF Router!Put1, Router!Over
    <3>4. next' \in [DOMAIN next' -> 0 .. Wrap - 1]
      BY <2>1, <2>3, <3>1, <3>3 DEF v
    <3> QED BY <2>1, <2>3, <3>4 DEF Router!RoutingInv
  <2> QED BY <2>2, <2>3
<1>8. CASE UNCHANGED routingVars
  BY <1>8 DEF Router!RoutingInv, routingVars
<1> QED BY <1>1, <1>2, <1>3, <1>4, <1>5, <1>6, <1>7, <1>8 DEF Router!Next

\* The service that a host of the loaded file belongs to, in the tables of the
\* process and in those of the file alone.
LEMMA RouteOwner ==
    ASSUME Router!RoutingInv, up, NEW h, Router!Owners(h) # {},
           NEW g, g = Router!LoadServiceData(Router!NewMaps, loaded),
           NEW s, s = Router!Owner(h)
    PROVE  /\ h \in DOMAIN maps.services /\ maps.services[h] = HostEntry(s.name)
           /\ h \in DOMAIN g.services /\ g.services[h] = HostEntry(s.name)
           /\ s.name \in DOMAIN g.clusters
           /\ s.rules # <<>> => s.name \in DOMAIN g.rules
           /\ FromFile(g, loaded, Len(loaded)) /\ Router!Tables(g) /\ Router!Merged(maps, g)
<1>1. loaded \in Files /\ Router!Tables(maps) /\ Router!Merged(maps, g)
  BY DEF Router!RoutingInv
<1>2. Router!IsSequence(loaded) /\ \A k \in DOMAIN loaded : FileService(loaded[k])
  BY <1>1, RouteFiles
<1>3. Router!Tables(Router!NewMaps) /\ Router!Bare(Router!NewMaps)
  BY DEF Router!Tables, Router!Bare, Router!NewMaps
<1>4. FromFile(g, loaded, Len(loaded)) /\ Router!Tables(g)
  BY <1>2, <1>3, RouteLoaded
<1>5. Len(loaded) \in Nat /\ DOMAIN loaded = 1 .. Len(loaded)
  BY <1>2, RouteSequence
<1> DEFINE S == Router!Owners(h)
<1>6. S \in SUBSET (0 .. Len(loaded)) /\ S # {}
  BY <1>5 DEF Router!Owners
<1>7. \E i \in S : \A j \in S : j <= i
  BY <1>5, <1>6, LargestOf
<1> DEFINE k == CHOOSE i \in S : \A j \in S : j <= i
<1>8. k \in S /\ \A j \in S : j <= k
  BY <1>7
<1>9. s = loaded[k]
  BY DEF Router!Owner
<1> HIDE DEF k
<1>10. k \in 1 .. Len(loaded) /\ h \in loaded[k].hosts
       /\ \A j \in 1 .. Len(loaded) : h \in loaded[j].hosts => j <= k
  BY <1>5, <1>8 DEF Router!Owners
<1>11. h \in DOMAIN g.services /\ g.services[h] = HostEntry(s.name)
  BY <1>4, <1>9, <1>10 DEF FromFile
<1>12. s.name \in DOMAIN g.clusters /\ (s.rules # <<>> => s.name \in DOMAIN g.rules)
  BY <1>4, <1>9, <1>10 DEF FromFile
<1>13. h \in DOMAIN maps.services /\ maps.services[h] = g.services[h]
  BY <1>1, <1>11 DEF Router!Merged
<1> QED BY <1>1, <1>4, <1>11, <1>12, <1>13

\* Select gives no endpoint when there is none or when the counter has wrapped.
LEMMA RouteIndex ==
    ASSUME NEW v \in Nat, NEW n \in Nat, Router!RoundRobinIndex(v, n) = 0
    PROVE  n = 0 \/ v = 0
<1> SUFFICES ASSUME n # 0, v # 0 PROVE FALSE
  OBVIOUS
<1>1. Router!RoundRobinIndex(v, n) = ((v - 1) % n) + 1
  BY DEF Router!RoundRobinIndex
<1>2. v - 1 \in Nat /\ n > 0
  OBVIOUS
<1>3. (v - 1) % n \in Nat
  BY <1>2
<1> QED BY <1>1, <1>3

\* A counter becomes 0 only by wrapping.
LEMMA RouteWrapped ==
    ASSUME next \in [DOMAIN next -> 0 .. Wrap - 1], NEW o, Router!Bump(o) = 0
    PROVE  \E w \in DOMAIN next : next[w] = Wrap - 1
<1>1. Wrap \in Nat /\ Wrap > 1
  BY RoutingAssumption DEF Router!FilesAssumption
<1> DEFINE v == IF o \in DOMAIN next THEN next[o] ELSE 0
<1>2. v \in 0 .. Wrap - 1 /\ (v + 1) % Wrap = 0
  BY <1>1 DEF Router!Bump
<1>3. o \in DOMAIN next => v = next[o]
  OBVIOUS
<1>4. o \notin DOMAIN next => v = 0
  OBVIOUS
<1> HIDE DEF v
<1>5. v + 1 = Wrap
  <2> SUFFICES ASSUME v + 1 # Wrap PROVE FALSE
    OBVIOUS
  <2>1. v + 1 \in 0 .. Wrap - 1 /\ v \in Nat
    BY <1>1, <1>2
  <2>2. (v + 1) % Wrap = v + 1
    BY <1>1, <2>1
  <2> QED BY <1>2, <2>1, <2>2
<1>6. v # 0 /\ v = Wrap - 1
  BY <1>1, <1>2, <1>5
<1> QED BY <1>3, <1>4, <1>6

\* A panic behind a rule: the cluster that was picked has its balancer, and
\* either no endpoint or a counter that has wrapped.
LEMMA RouteChosenPanics ==
    ASSUME NEW m, NEW name, NEW nodes, NEW r \in Router!Chosen(m, name, nodes), r.out = Router!Panic
    PROVE  /\ name \in DOMAIN m.clusters
           /\ \E c \in DOMAIN m.clusters[name] :
                 /\ m.clusters[name][c].lb
                 /\ Router!RoundRobinIndex(Router!Bump(<<name, c>>), Len(m.clusters[name][c].endpoints)) = 0
<1>1. \A x, y : Router!Err(x) # Router!Panic /\ Router!To(y) # Router!Panic
  BY DEF Router!Err, Router!To, Router!Panic, Router!Out
<1> DEFINE still(o) == [out |-> o, owner |-> <<>>]
           clusters == m.clusters[name]
           at1(c) == Router!RoundRobinIndex(Router!Bump(<<name, c>>), Len(clusters[c].endpoints))
           way(c) == IF at1(c) = 0 THEN Router!Panic ELSE Router!To(clusters[c].endpoints[at1(c)])
           pick(c) ==
             IF c \notin DOMAIN clusters \/ ~clusters[c].lb THEN still(Router!Err("cluster not found"))
             ELSE IF clusters[c].simple = "" THEN still(Router!Err("PassThrough"))
             ELSE [out |-> way(c), owner |-> <<name, c>>]
<1>2. name \in DOMAIN m.clusters
  <2> SUFFICES ASSUME name \notin DOMAIN m.clusters PROVE FALSE
    OBVIOUS
  <2>1. r = still(Router!Err("service no cluster"))
    BY DEF Router!Chosen
  <2>2. r.out = Router!Err("service no cluster")
    BY <2>1
  <2> QED BY <1>1, <2>2
<1>3. Router!Chosen(m, name, nodes) = {pick(c) : c \in IF nodes = {} THEN {""} ELSE nodes}
  BY <1>2 DEF Router!Chosen
<1>4. PICK c : r = pick(c)
  BY <1>3
<1>5. c \in DOMAIN clusters /\ clusters[c].lb
  <2> SUFFICES ASSUME c \notin DOMAIN clusters \/ ~clusters[c].lb PROVE FALSE
    OBVIOUS
  <2>1. r = still(Router!Err("cluster not found"))
    BY <1>4
  <2>2. r.out = Router!Err("cluster not found")
    BY <2>1
  <2> QED BY <1>1, <2>2
<1>6. r.out = Router!Err("PassThrough") \/ r.out = way(c)
  <2>1. r = still(Router!Err("PassThrough")) \/ r = [out |-> way(c), owner |-> <<name, c>>]
    BY <1>4, <1>5
  <2> HIDE DEF way
  <2> QED BY <2>1
<1>7. at1(c) = 0
  <2> HIDE DEF at1
  <2> QED BY <1>1, <1>6
<1> QED BY <1>2, <1>5, <1>7

\* A panic of a service without rules: it has lost its balancer, or a counter
\* has wrapped.
LEMMA RouteByEndpointsPanics ==
    ASSUME Router!RoutingInv, up, NEW n,
           NEW r \in Router!ByEndpoints(maps, HostEntry(n)), r.out = Router!Panic
    PROVE  \E w \in DOMAIN next : next[w] = Wrap - 1
<1> DEFINE eps == maps.endpoints[n]
           i == Router!RoundRobinIndex(Router!Bump(<<n>>), Cardinality(eps))
<1>1. \A x, y : Router!Err(x) # Router!Panic /\ Router!To(y) # Router!Panic
  BY DEF Router!Err, Router!To, Router!Panic, Router!Out
<1>2. HostEntry(n).name = n /\ HostEntry(n).lb
  BY DEF HostEntry
<1>3. Router!ByEndpoints(maps, HostEntry(n)) =
        IF n \notin DOMAIN maps.endpoints \/ eps = {}
        THEN {[out |-> Router!Err("no cluster"), owner |-> <<>>]}
        ELSE IF i = 0 THEN {[out |-> Router!Panic, owner |-> <<n>>]}
        ELSE {[out |-> Router!To(ep), owner |-> <<n>>] : ep \in eps}
  BY <1>2, RouteFiniteSets DEF Router!ByEndpoints
<1> HIDE DEF i
<1>4. n \in DOMAIN maps.endpoints /\ eps # {}
  <2> SUFFICES ASSUME n \notin DOMAIN maps.endpoints \/ eps = {} PROVE FALSE
    OBVIOUS
  <2>1. r = [out |-> Router!Err("no cluster"), owner |-> <<>>]
    BY <1>3
  <2>2. r.out = Router!Err("no cluster")
    BY <2>1
  <2> QED BY <1>1, <2>2
<1>5. i = 0
  <2> SUFFICES ASSUME i # 0 PROVE FALSE
    OBVIOUS
  <2>1. PICK ep \in eps : r = [out |-> Router!To(ep), owner |-> <<n>>]
    BY <1>3, <1>4
  <2>2. r.out = Router!To(ep)
    BY <2>1
  <2> QED BY <1>1, <2>2
<1>6. IsFiniteSet(eps)
  BY <1>4, RouteFiniteSets DEF Router!RoutingInv, Router!Tables
<1>7. Cardinality(eps) \in Nat /\ Cardinality(eps) # 0
  BY <1>4, <1>6, FS_CardinalityType, FS_EmptySet
<1>8. next \in [DOMAIN next -> 0 .. Wrap - 1]
  BY DEF Router!RoutingInv
<1>9. Router!Bump(<<n>>) \in Nat
  <2>1. Router!Bump(<<n>>) \in 0 .. Wrap - 1
    BY <1>8, RouteBump
  <2> QED BY <2>1
<1>10. Router!Bump(<<n>>) = 0
  BY <1>5, <1>7, <1>9, RouteIndex DEF i
<1> QED BY <1>8, <1>10, RouteWrapped

\* A panic behind a rule: a cluster of the file has no endpoint, or a counter
\* has wrapped.
LEMMA RouteByRulesPanics ==
    ASSUME Router!RoutingInv, up, NEW h, Router!Owners(h) # {}, NEW req,
           NEW n, n = Router!Owner(h).name, NEW rules,
           NEW r \in Router!ByRules(maps, n, rules, req), r.out = Router!Panic
    PROVE  \/ \E k \in DOMAIN loaded : \E i \in DOMAIN loaded[k].clusters :
                 loaded[k].name = n /\ loaded[k].clusters[i].endpoints = <<>>
           \/ \E w \in DOMAIN next : next[w] = Wrap - 1
<1>1. \A x : Router!Err(x) # Router!Panic
  BY DEF Router!Err, Router!Panic, Router!Out
<1> DEFINE g == Router!LoadServiceData(Router!NewMaps, loaded)
<1>2. \E nodes : r \in Router!Chosen(maps, n, nodes)
  <2>1. r.out = Router!Err("no endpoint")
        \/ \E p \in Router!First(rules, req) : r \in Router!Chosen(maps, n, UNION rules[p[1]][p[2]].lb)
    <3> DEFINE A == {Router!Chosen(maps, n, UNION rules[p[1]][p[2]].lb) : p \in Router!First(rules, req)}
               B == IF \E p \in Router!Usable(rules) : Router!Must(rules[p[1]][p[2]], req) THEN {}
                    ELSE {[out |-> Router!Err("no endpoint"), owner |-> <<>>]}
    <3>1. r \in UNION A \/ r \in B
      BY DEF Router!ByRules
    <3>2. CASE r \in UNION A
      BY <3>2
    <3>3. CASE r \in B
      <4>1. r = [out |-> Router!Err("no endpoint"), owner |-> <<>>]
        BY <3>3
      <4> QED BY <4>1
    <3> QED BY <3>1, <3>2, <3>3
  <2> QED BY <1>1, <2>1
<1>3. PICK c \in DOMAIN maps.clusters[n] :
         /\ n \in DOMAIN maps.clusters /\ maps.clusters[n][c].lb
         /\ Router!RoundRobinIndex(Router!Bump(<<n, c>>), Len(maps.clusters[n][c].endpoints)) = 0
  BY <1>2, RouteChosenPanics
<1>4. /\ FromFile(g, loaded, Len(loaded)) /\ Router!Tables(g) /\ Router!Merged(maps, g)
  BY RouteOwner
<1> HIDE DEF g
<1>5. n \in DOMAIN g.clusters /\ c \in DOMAIN g.clusters[n] /\ maps.clusters[n][c] = g.clusters[n][c]
  BY <1>3, <1>4 DEF Router!Merged
<1>6. PICK k \in 1 .. Len(loaded) : /\ loaded[k].name = n
                                    /\ \E i \in DOMAIN loaded[k].clusters :
                                          g.clusters[n][c].endpoints = loaded[k].clusters[i].endpoints
  BY <1>4, <1>5 DEF FromFile
<1>7. PICK i \in DOMAIN loaded[k].clusters :
         maps.clusters[n][c].endpoints = loaded[k].clusters[i].endpoints
  BY <1>5, <1>6
<1> DEFINE q == loaded[k].clusters[i].endpoints
<1>8. loaded \in Files
  BY DEF Router!RoutingInv
<1>9. Router!IsSequence(loaded) /\ \A j \in DOMAIN loaded : FileService(loaded[j])
  BY <1>8, RouteFiles
<1>10. k \in DOMAIN loaded
  BY <1>6, <1>9, RouteSequence
<1>11. Router!IsSequence(q)
  BY <1>7, <1>9, <1>10 DEF FileService
<1>12. Router!RoundRobinIndex(Router!Bump(<<n, c>>), Len(q)) = 0
  BY <1>3, <1>7
<1> HIDE DEF q
<1>13. Len(q) \in Nat /\ (q = <<>> <=> Len(q) = 0)
  BY <1>11, RouteSequence
<1>14. next \in [DOMAIN next -> 0 .. Wrap - 1]
  BY DEF Router!RoutingInv
<1>15. Router!Bump(<<n, c>>) \in Nat
  <2>1. Router!Bump(<<n, c>>) \in 0 .. Wrap - 1
    BY <1>14, RouteBump
  <2> QED BY <2>1
<1>16. Len(q) = 0 \/ Router!Bump(<<n, c>>) = 0
  BY <1>12, <1>13, <1>15, RouteIndex
<1>17. CASE Len(q) = 0
  BY <1>6, <1>7, <1>10, <1>13, <1>17 DEF q
<1>18. CASE Router!Bump(<<n, c>>) = 0
  BY <1>14, <1>18, RouteWrapped
<1> QED BY <1>16, <1>17, <1>18

\* The invariant explains every panic of Match.
LEMMA RoutePanics == Router!RoutingInv => PanicIsExplained
<1> SUFFICES ASSUME Router!RoutingInv, NEW req \in Requests, up,
                    NEW r \in Router!Match(maps, req), r.out = Router!Panic,
                    Router!Owners(req.host) # {}
             PROVE  \/ \E k \in DOMAIN loaded : \E i \in DOMAIN loaded[k].clusters :
                          /\ loaded[k].name = Router!Owner(req.host).name
                          /\ loaded[k].clusters[i].endpoints = <<>>
                    \/ \E o \in DOMAIN next : next[o] = Wrap - 1
  BY DEF PanicIsExplained, Router!PanicIsExplained
<1> DEFINE n == Router!Owner(req.host).name
<1>1. req.host \in DOMAIN maps.services /\ maps.services[req.host] = HostEntry(n)
  BY RouteOwner
<1>2. HostEntry(n).name = n /\ n = Router!Owner(req.host).name
  BY DEF HostEntry
<1> HIDE DEF n
<1>3. r \in Router!ByEndpoints(maps, HostEntry(n)) \/ r \in Router!ByRules(maps, n, maps.rules[n], req)
  <2>1. Router!Match(maps, req) =
          IF n \notin DOMAIN maps.rules \/ maps.rules[n] = <<>>
          THEN Router!ByEndpoints(maps, HostEntry(n)) ELSE Router!ByRules(maps, n, maps.rules[n], req)
    BY <1>1, <1>2, Zenon DEF Router!Match
  <2> QED BY <2>1
<1>4. CASE r \in Router!ByEndpoints(maps, HostEntry(n))
  BY <1>4, RouteByEndpointsPanics
<1>5. CASE r \in Router!ByRules(maps, n, maps.rules[n], req)
  <2>1. \/ \E k \in DOMAIN loaded : \E i \in DOMAIN loaded[k].clusters :
              loaded[k].name = n /\ loaded[k].clusters[i].endpoints = <<>>
        \/ \E w \in DOMAIN next : next[w] = Wrap - 1
    BY <1>2, <1>5, RouteByRulesPanics
  <2> QED BY <1>2, <2>1
<1> QED BY <1>3, <1>4, <1>5

\* Whatever the files, the requests, the crashes and the saves (config.go:169-443),
\* Match panics only when the service has a cluster without endpoints, when a
\* counter wraps, or when the service is known from the cache alone.
THEOREM RoutingPanicIsExplained == Router!Spec => []PanicIsExplained
<1>1. Router!Init => Router!RoutingInv
  BY RouteInit
<1>2. Router!RoutingInv /\ [Router!Next]_(Router!vars) => Router!RoutingInv'
  BY RouteStep DEF Router!vars, routingVars
<1> QED BY <1>1, <1>2, RoutePanics, PTL DEF Router!Spec

\* A rule that can be used, by its two indexes.
LEMMA RouteUsable ==
    ASSUME NEW rules, NEW p
    PROVE  p \in Router!Usable(rules) <=>
              \E i \in DOMAIN rules : \E j \in DOMAIN rules[i] : p = <<i, j>> /\ rules[i][j].lb # {}
<1> DEFINE U == UNION {{<<i, j>> : j \in DOMAIN rules[i]} : i \in DOMAIN rules}
<1>1. p \in Router!Usable(rules) <=> p \in U /\ rules[p[1]][p[2]].lb # {}
  BY DEF Router!Usable
<1>2. p \in U <=> \E i \in DOMAIN rules : \E j \in DOMAIN rules[i] : p = <<i, j>>
  OBVIOUS
<1> HIDE DEF U
<1>3. \A i, j : p = <<i, j>> => p[1] = i /\ p[2] = j
  OBVIOUS
<1> QED BY <1>1, <1>2, <1>3

\* The place of a rule after d others were put before it.
Later(d, p) == <<d + p[1], p[2]>>

\* Two lists that end alike have the same rules to use, at shifted places.
LEMMA RouteShift ==
    ASSUME NEW a, NEW b, Router!IsSequence(a), Router!IsSequence(b), Router!EndsWith(a, b),
           NEW d, d = Len(a) - Len(b)
    PROVE  /\ d \in Nat
           /\ \A p \in Router!Usable(b) :
                 /\ p[1] \in Int /\ Later(d, p) \in Router!Usable(a)
                 /\ a[Later(d, p)[1]][Later(d, p)[2]] = b[p[1]][p[2]]
           /\ \A q \in Router!Usable(a) : \E p \in Router!Usable(b) : q = Later(d, p)
<1>1. Len(a) \in Nat /\ Len(b) \in Nat /\ DOMAIN a = 1 .. Len(a) /\ DOMAIN b = 1 .. Len(b)
  BY RouteSequence
<1>2. /\ d >= 0
      /\ \A i \in 1 .. d : \A j \in DOMAIN a[i] : a[i][j].lb = {}
      /\ \A i \in 1 .. Len(b) : a[d + i] = b[i]
  BY DEF Router!EndsWith
<1>3. d \in Nat /\ Len(a) = d + Len(b)
  BY <1>1, <1>2
<1>4. ASSUME NEW p \in Router!Usable(b)
      PROVE  /\ p[1] \in Int /\ Later(d, p) \in Router!Usable(a)
             /\ a[Later(d, p)[1]][Later(d, p)[2]] = b[p[1]][p[2]]
  <2>1. PICK i \in DOMAIN b : \E j \in DOMAIN b[i] : p = <<i, j>> /\ b[i][j].lb # {}
    BY RouteUsable
  <2>2. PICK j \in DOMAIN b[i] : p = <<i, j>> /\ b[i][j].lb # {}
    BY <2>1
  <2>3. i \in Int /\ d + i \in DOMAIN a /\ a[d + i] = b[i]
    BY <1>1, <1>2, <1>3
  <2>4. Later(d, p) = <<d + i, j>> /\ p[1] = i /\ p[2] = j
    BY <2>2 DEF Later
  <2>5. Later(d, p) \in Router!Usable(a)
    BY <2>2, <2>3, <2>4, RouteUsable
  <2>6. Later(d, p)[1] = d + i /\ Later(d, p)[2] = j
    BY <2>4
  <2> QED BY <2>3, <2>4, <2>5, <2>6
<1>5. ASSUME NEW q \in Router!Usable(a) PROVE \E p \in Router!Usable(b) : q = Later(d, p)
  <2>1. PICK k \in DOMAIN a : \E j \in DOMAIN a[k] : q = <<k, j>> /\ a[k][j].lb # {}
    BY RouteUsable
  <2>2. PICK j \in DOMAIN a[k] : q = <<k, j>> /\ a[k][j].lb # {}
    BY <2>1
  <2>3. k \in 1 .. Len(a) /\ k \notin 1 .. d
    BY <1>1, <1>2, <2>2
  <2> DEFINE i == k - d
  <2>4. i \in 1 .. Len(b) /\ d + i = k
    BY <1>1, <1>3, <2>3
  <2> HIDE DEF i
  <2>5. a[k] = b[i]
    BY <1>2, <2>4
  <2>6. <<i, j>> \in Router!Usable(b)
    BY <1>1, <2>2, <2>4, <2>5, RouteUsable
  <2>7. q = Later(d, <<i, j>>)
    BY <2>2, <2>4 DEF Later
  <2> QED BY <2>6, <2>7
<1> QED BY <1>3, <1>4, <1>5

\* So the same rules may be the first to accept a request.
LEMMA RouteFirst ==
    ASSUME NEW a, NEW b, Router!IsSequence(a), Router!IsSequence(b), Router!EndsWith(a, b),
           NEW d, d = Len(a) - Len(b), NEW req
    PROVE  /\ \A p \in Router!First(b, req) : Later(d, p) \in Router!First(a, req)
           /\ \A q \in Router!First(a, req) : \E p \in Router!First(b, req) : q = Later(d, p)
<1>1. /\ d \in Nat
      /\ \A p \in Router!Usable(b) :
            /\ p[1] \in Int /\ Later(d, p) \in Router!Usable(a)
            /\ a[Later(d, p)[1]][Later(d, p)[2]] = b[p[1]][p[2]]
      /\ \A q \in Router!Usable(a) : \E p \in Router!Usable(b) : q = Later(d, p)
  BY RouteShift
<1>2. \A p, q \in Router!Usable(b) : Router!Before(Later(d, p), Later(d, q)) <=> Router!Before(p, q)
  <2> SUFFICES ASSUME NEW p \in Router!Usable(b), NEW q \in Router!Usable(b)
               PROVE  Router!Before(Later(d, p), Later(d, q)) <=> Router!Before(p, q)
    OBVIOUS
  <2>1. p[1] \in Int /\ q[1] \in Int
    BY <1>1
  <2>2. /\ Later(d, p)[1] = d + p[1] /\ Later(d, p)[2] = p[2]
        /\ Later(d, q)[1] = d + q[1] /\ Later(d, q)[2] = q[2]
    BY DEF Later
  <2>3. (d + p[1] < d + q[1] <=> p[1] < q[1]) /\ (d + p[1] = d + q[1] <=> p[1] = q[1])
    BY <1>1, <2>1
  <2> QED BY <2>2, <2>3 DEF Router!Before
<1>3. ASSUME NEW p \in Router!Usable(b)
      PROVE  p \in Router!First(b, req) <=> Later(d, p) \in Router!First(a, req)
  <2> DEFINE NoneBefore(r, x) == \A q \in Router!Usable(r) : Router!Before(q, x) => ~Router!Must(r[q[1]][q[2]], req)
  <2>1. p \in Router!First(b, req) <=> Router!May(b[p[1]][p[2]], req) /\ NoneBefore(b, p)
    BY DEF Router!First
  <2>2. Later(d, p) \in Router!First(a, req) <=>
           Router!May(a[Later(d, p)[1]][Later(d, p)[2]], req) /\ NoneBefore(a, Later(d, p))
    BY <1>1 DEF Router!First
  <2>3. NoneBefore(b, p) <=> NoneBefore(a, Later(d, p))
    <3>1. ASSUME NoneBefore(b, p), NEW q \in Router!Usable(a), Router!Before(q, Later(d, p))
          PROVE  ~Router!Must(a[q[1]][q[2]], req)
      <4>1. PICK x \in Router!Usable(b) : q = Later(d, x)
        BY <1>1
      <4>2. Router!Before(x, p) /\ a[q[1]][q[2]] = b[x[1]][x[2]]
        BY <1>1, <1>2, <3>1, <4>1
      <4> QED BY <3>1, <4>2
    <3>2. ASSUME NoneBefore(a, Later(d, p)), NEW q \in Router!Usable(b), Router!Before(q, p)
          PROVE  ~Router!Must(b[q[1]][q[2]], req)
      <4>1. /\ Later(d, q) \in Router!Usable(a) /\ Router!Before(Later(d, q), Later(d, p))
            /\ a[Later(d, q)[1]][Later(d, q)[2]] = b[q[1]][q[2]]
        BY <1>1, <1>2, <3>2
      <4>2. ~Router!Must(a[Later(d, q)[1]][Later(d, q)[2]], req)
        BY <3>2, <4>1
      <4> QED BY <4>1, <4>2
    <3> QED BY <3>1, <3>2
  <2> HIDE DEF NoneBefore
  <2> QED BY <1>1, <2>1, <2>2, <2>3
<1>4. (Router!First(a, req) \subseteq Router!Usable(a)) /\ (Router!First(b, req) \subseteq Router!Usable(b))
  BY DEF Router!First
<1> QED BY <1>1, <1>3, <1>4

\* The choice among a rule's clusters is the same in both tables.
LEMMA RouteChosen ==
    ASSUME NEW m, NEW g, Router!Merged(m, g), NEW name \in DOMAIN g.clusters, NEW nodes
    PROVE  Router!Chosen(m, name, nodes) = Router!Chosen(g, name, nodes)
<1> DEFINE still(o) == [out |-> o, owner |-> <<>>]
           at1(c, e) == Router!RoundRobinIndex(Router!Bump(<<name, c>>), Len(e))
           way(c, e) == IF at1(c, e) = 0 THEN Router!Panic ELSE Router!To(e[at1(c, e)])
           go(c, e) == [out |-> way(c, e), owner |-> <<name, c>>]
           lost == still(Router!Err("cluster not found"))
           pass == still(Router!Err("PassThrough"))
           pick(t, c) ==
             IF c \notin DOMAIN t \/ ~t[c].lb THEN lost
             ELSE IF t[c].simple = "" THEN pass ELSE go(c, t[c].endpoints)
           N == IF nodes = {} THEN {""} ELSE nodes
<1>1. name \in DOMAIN m.clusters
  BY DEF Router!Merged
<1>2. Router!Chosen(m, name, nodes) = {pick(m.clusters[name], c) : c \in N}
  BY <1>1 DEF Router!Chosen
<1>3. Router!Chosen(g, name, nodes) = {pick(g.clusters[name], c) : c \in N}
  BY DEF Router!Chosen
<1> HIDE DEF N, lost, pass, go
<1>4. ASSUME NEW c PROVE pick(m.clusters[name], c) = pick(g.clusters[name], c)
  <2>1. CASE c \in DOMAIN g.clusters[name]
    <3>1. c \in DOMAIN m.clusters[name] /\ m.clusters[name][c] = g.clusters[name][c]
      BY <1>1, <2>1 DEF Router!Merged
    <3> QED BY <2>1, <3>1
  <2>2. CASE c \notin DOMAIN g.clusters[name]
    <3>1. c \in DOMAIN m.clusters[name] => ~m.clusters[name][c].lb
      BY <1>1, <2>2 DEF Router!Merged
    <3> QED BY <2>2, <3>1
  <2> QED BY <2>1, <2>2
<1> HIDE DEF pick
<1> QED BY <1>2, <1>3, <1>4

\* The rules decide alike in both tables.
LEMMA RouteByRules ==
    ASSUME NEW m, NEW g, Router!Merged(m, g), NEW name \in DOMAIN g.clusters,
           NEW a, NEW b, Router!IsSequence(a), Router!IsSequence(b), Router!EndsWith(a, b), NEW req
    PROVE  Router!ByRules(m, name, a, req) = Router!ByRules(g, name, b, req)
<1> DEFINE d == Len(a) - Len(b)
           none == [out |-> Router!Err("no endpoint"), owner |-> <<>>]
           At(r, p) == r[p[1]][p[2]]
           A == UNION {Router!Chosen(m, name, UNION At(a, p).lb) : p \in Router!First(a, req)}
           B == UNION {Router!Chosen(g, name, UNION At(b, p).lb) : p \in Router!First(b, req)}
           MustOne(r) == \E p \in Router!Usable(r) : Router!Must(At(r, p), req)
<1>1. /\ \A p \in Router!Usable(b) : Later(d, p) \in Router!Usable(a) /\ At(a, Later(d, p)) = At(b, p)
      /\ \A q \in Router!Usable(a) : \E p \in Router!Usable(b) : q = Later(d, p)
  BY RouteShift
<1>2. /\ \A p \in Router!First(b, req) : Later(d, p) \in Router!First(a, req)
      /\ \A q \in Router!First(a, req) : \E p \in Router!First(b, req) : q = Later(d, p)
  BY RouteFirst
<1>3. Router!First(b, req) \subseteq Router!Usable(b)
  BY DEF Router!First
<1>4. Router!ByRules(m, name, a, req) = A \cup IF MustOne(a) THEN {} ELSE {none}
  BY DEF Router!ByRules
<1>5. Router!ByRules(g, name, b, req) = B \cup IF MustOne(b) THEN {} ELSE {none}
  BY DEF Router!ByRules
<1> HIDE DEF none, d, At
<1>6. MustOne(a) <=> MustOne(b)
  <2>1. ASSUME MustOne(a) PROVE MustOne(b)
    <3>1. PICK q \in Router!Usable(a) : Router!Must(At(a, q), req)
      BY <2>1
    <3>2. PICK p \in Router!Usable(b) : q = Later(d, p)
      BY <1>1
    <3>3. Router!Must(At(b, p), req)
      BY <1>1, <3>1, <3>2
    <3> QED BY <3>3
  <2>2. ASSUME MustOne(b) PROVE MustOne(a)
    <3>1. PICK p \in Router!Usable(b) : Router!Must(At(b, p), req)
      BY <2>2
    <3>2. Later(d, p) \in Router!Usable(a) /\ Router!Must(At(a, Later(d, p)), req)
      BY <1>1, <3>1
    <3> QED BY <3>2
  <2> QED BY <2>1, <2>2
<1>7. \A nodes : Router!Chosen(m, name, nodes) = Router!Chosen(g, name, nodes)
  BY RouteChosen
<1>8. A \subseteq B
  <2> SUFFICES ASSUME NEW q \in Router!First(a, req), NEW r \in Router!Chosen(m, name, UNION At(a, q).lb)
               PROVE  r \in B
    OBVIOUS
  <2>1. PICK p \in Router!First(b, req) : q = Later(d, p)
    BY <1>2
  <2>2. At(a, q) = At(b, p)
    BY <1>1, <1>3, <2>1
  <2>3. r \in Router!Chosen(g, name, UNION At(b, p).lb)
    BY <1>7, <2>2
  <2> QED BY <2>1, <2>3
<1>9. B \subseteq A
  <2> SUFFICES ASSUME NEW p \in Router!First(b, req), NEW r \in Router!Chosen(g, name, UNION At(b, p).lb)
               PROVE  r \in A
    OBVIOUS
  <2>1. Later(d, p) \in Router!First(a, req) /\ At(a, Later(d, p)) = At(b, p)
    BY <1>1, <1>2, <1>3
  <2>2. r \in Router!Chosen(m, name, UNION At(a, Later(d, p)).lb)
    BY <1>7, <2>1
  <2> QED BY <2>1, <2>2
<1> HIDE DEF A, B, MustOne
<1>10. A = B
  BY <1>8, <1>9
<1> QED BY <1>4, <1>5, <1>6, <1>10

\* The invariant makes what Match decides for a host of the file free of history.
LEMMA RouteHistory == Router!RoutingInv => HistoryFree
<1> SUFFICES ASSUME Router!RoutingInv, NEW req \in Requests, up, Router!Owners(req.host) # {},
                    Router!Owner(req.host).rules # <<>>
             PROVE  Router!Match(maps, req) = Router!Match(Router!LoadServiceData(Router!NewMaps, loaded), req)
  BY DEF HistoryFree, Router!HistoryFree
<1> DEFINE g == Router!LoadServiceData(Router!NewMaps, loaded)
           n == Router!Owner(req.host).name
<1>1. /\ req.host \in DOMAIN maps.services /\ maps.services[req.host] = HostEntry(n)
      /\ req.host \in DOMAIN g.services /\ g.services[req.host] = HostEntry(n)
      /\ n \in DOMAIN g.clusters /\ n \in DOMAIN g.rules
      /\ FromFile(g, loaded, Len(loaded)) /\ Router!Tables(g) /\ Router!Merged(maps, g)
  BY RouteOwner
<1>2. Router!Tables(maps)
  BY DEF Router!RoutingInv
<1>3. HostEntry(n).name = n
  BY DEF HostEntry
<1> HIDE DEF g, n
<1>4. n \in DOMAIN maps.rules /\ Router!EndsWith(maps.rules[n], g.rules[n])
  BY <1>1 DEF Router!Merged
<1>5. Router!IsSequence(maps.rules[n]) /\ Router!IsSequence(g.rules[n])
  BY <1>1, <1>2, <1>4 DEF Router!Tables
<1>6. g.rules[n] # <<>>
  BY <1>1 DEF FromFile
<1>7. maps.rules[n] # <<>>
  <2> DEFINE a == maps.rules[n]
             b == g.rules[n]
             d == Len(a) - Len(b)
  <2>1. d >= 0
    BY <1>4 DEF Router!EndsWith
  <2>2. Router!IsSequence(a) /\ Router!IsSequence(b) /\ b # <<>>
    BY <1>5, <1>6
  <2> SUFFICES a # <<>>
    OBVIOUS
  <2> HIDE DEF a, b
  <2>3. Len(a) \in Nat /\ Len(b) \in Nat /\ Len(b) # 0 /\ (a = <<>> => Len(a) = 0)
    BY <2>2, RouteSequence
  <2> QED BY <2>1, <2>3
<1>8. Router!Match(maps, req) = Router!ByRules(maps, n, maps.rules[n], req)
  BY <1>1, <1>3, <1>4, <1>7, Zenon DEF Router!Match
<1>9. Router!Match(g, req) = Router!ByRules(g, n, g.rules[n], req)
  BY <1>1, <1>3, <1>6, Zenon DEF Router!Match
<1>10. Router!ByRules(maps, n, maps.rules[n], req) = Router!ByRules(g, n, g.rules[n], req)
  BY <1>1, <1>4, <1>5, RouteByRules
<1> QED BY <1>8, <1>9, <1>10 DEF g

\* Whatever earlier runs left in the cache file (config.go:133-165), once a service
\* of the static file has rules, Match (config.go:297-443) has the same results for
\* its hosts as with no cache.
THEOREM RoutingHistoryFree == Router!Spec => []HistoryFree
<1>1. Router!Init => Router!RoutingInv
  BY RouteInit
<1>2. Router!RoutingInv /\ [Router!Next]_(Router!vars) => Router!RoutingInv'
  BY RouteStep DEF Router!vars, routingVars
<1> QED BY <1>1, <1>2, RouteHistory, PTL DEF Router!Spec

-----------------------------------------------------------------------------
(***************************************************************************)
(* The weighted choice                                                     *)
(***************************************************************************)

\* The loop of FoldFunction, for a sum: it takes out one element after the other.
Taken(s) == CHOOSE x \in s : TRUE
Left(s) == s \ {Taken(s)}
IsSum(f, S, F) == F = [s \in SUBSET S |-> IF s = {} THEN 0 ELSE f[Taken(s)] + F[Left(s)]]
SumOf(f, S) == CHOOSE F : IsSum(f, S, F)

\* A set with one element less.
LEMMA SumLeft ==
    ASSUME NEW S, IsFiniteSet(S), NEW s \in SUBSET S, s # {}
    PROVE  /\ Taken(s) \in s /\ Left(s) \in SUBSET S /\ Taken(s) \notin Left(s)
           /\ \A x \in s : x = Taken(s) \/ x \in Left(s)
           /\ IsFiniteSet(s) /\ Cardinality(s) \in Nat /\ Cardinality(Left(s)) = Cardinality(s) - 1
           /\ Cardinality(Left(s)) \in Nat
<1>1. Taken(s) \in s
  BY Zenon DEF Taken
<1>2. IsFiniteSet(s)
  BY FS_Subset
<1>3. Cardinality(Left(s)) = Cardinality(s) - 1 /\ IsFiniteSet(Left(s))
  BY <1>1, <1>2, FS_RemoveElement DEF Left
<1>4. Cardinality(s) \in Nat /\ Cardinality(Left(s)) \in Nat
  BY <1>2, <1>3, FS_CardinalityType
<1>5. Left(s) \in SUBSET S /\ Taken(s) \notin Left(s) /\ \A x \in s : x = Taken(s) \/ x \in Left(s)
  BY DEF Left
<1> QED BY <1>1, <1>2, <1>3, <1>4, <1>5

\* What holds of no element, and of a set when it holds of the set with one less,
\* holds of all.
LEMMA SumInduction ==
    ASSUME NEW S, IsFiniteSet(S), NEW Q, {} \in Q,
           \A s \in SUBSET S : s # {} /\ Left(s) \in Q => s \in Q
    PROVE  \A s \in SUBSET S : s \in Q
<1> DEFINE bad == {n \in Nat : \E s \in SUBSET S : s \notin Q /\ Cardinality(s) = n}
<1> SUFFICES ASSUME NEW s \in SUBSET S, s \notin Q PROVE FALSE
  OBVIOUS
<1>1. bad \in SUBSET Nat /\ bad # {}
  <2>1. Cardinality(s) \in Nat
    BY FS_Subset, FS_CardinalityType
  <2> QED BY <2>1
<1>2. PICK n \in bad : \A k \in bad : n <= k
  <2> HIDE DEF bad
  <2> QED BY <1>1, SmallestOf
<1>3. PICK t \in SUBSET S : t \notin Q /\ Cardinality(t) = n
  BY <1>2
<1>4. t # {}
  BY <1>3
<1>5. Left(t) \in SUBSET S /\ Cardinality(Left(t)) = n - 1 /\ Cardinality(Left(t)) \in Nat /\ n \in Nat
  BY <1>3, <1>4, SumLeft
<1>6. Left(t) \in Q
  <2> SUFFICES ASSUME Left(t) \notin Q PROVE FALSE
    OBVIOUS
  <2>1. n - 1 \in bad
    BY <1>5
  <2> HIDE DEF bad
  <2> QED BY <1>2, <1>5, <2>1
<1> QED BY <1>3, <1>4, <1>6

\* The loop is defined, and does what it says.
LEMMA SumIs ==
    ASSUME NEW f, NEW S, IsFiniteSet(S)
    PROVE  /\ SumOf(f, S)[{}] = 0
           /\ \A s \in SUBSET S : s # {} => SumOf(f, S)[s] = f[Taken(s)] + SumOf(f, S)[Left(s)]
<1> DEFINE D(m) == {s \in SUBSET S : Cardinality(s) <= m}
           Loop(F, m) == F = [s \in D(m) |-> IF s = {} THEN 0 ELSE f[Taken(s)] + F[Left(s)]]
           Made(m) == \E F : Loop(F, m)
           N == {m \in Nat : Made(m)}
<1>1. \A s \in SUBSET S : Cardinality(s) \in Nat
  BY FS_Subset, FS_CardinalityType
<1>2. ASSUME NEW m \in Nat, NEW s \in D(m + 1), s # {} PROVE Left(s) \in D(m) /\ Left(s) \in D(m + 1)
  <2>1. s \in SUBSET S
    OBVIOUS
  <2>2. Left(s) \in SUBSET S /\ Cardinality(Left(s)) = Cardinality(s) - 1 /\ Cardinality(s) \in Nat
    BY <1>2, <2>1, SumLeft
  <2> QED BY <2>2
<1>3. Made(0)
  <2> DEFINE g == [s \in D(0) |-> 0]
  <2>1. \A s \in D(0) : s = {}
    <3> SUFFICES ASSUME NEW s \in SUBSET S, Cardinality(s) <= 0, s # {} PROVE FALSE
      OBVIOUS
    <3>1. Cardinality(s) \in Nat /\ Cardinality(s) - 1 \in Nat
      BY SumLeft
    <3> QED BY <3>1
  <2>2. g = [s \in D(0) |-> IF s = {} THEN 0 ELSE f[Taken(s)] + g[Left(s)]]
    <3> HIDE DEF D
    <3> QED BY <2>1
  <2> HIDE DEF g, D
  <2> QED BY <2>2, Zenon
<1>4. ASSUME NEW m \in Nat, Made(m) PROVE Made(m + 1)
  <2>1. PICK F : Loop(F, m)
    BY <1>4
  <2>2. \A s \in D(m) : F[s] = IF s = {} THEN 0 ELSE f[Taken(s)] + F[Left(s)]
    <3> HIDE DEF D
    <3> QED BY <2>1, Zenon
  <2> DEFINE g == [s \in D(m + 1) |-> IF s = {} THEN 0 ELSE f[Taken(s)] + F[Left(s)]]
  <2>3. \A s \in D(m + 1) : g[s] = IF s = {} THEN 0 ELSE f[Taken(s)] + F[Left(s)]
    <3> HIDE DEF D
    <3> QED BY Zenon
  <2>4. g = [s \in D(m + 1) |-> g[s]]
    <3> HIDE DEF D
    <3> QED BY Zenon
  <2> HIDE DEF g, D
  <2>5. ASSUME NEW s \in D(m + 1), s # {} PROVE g[Left(s)] = F[Left(s)]
    BY <1>2, <2>2, <2>3, <2>5, Zenon
  <2>6. \A s \in D(m + 1) : g[s] = IF s = {} THEN 0 ELSE f[Taken(s)] + g[Left(s)]
    BY <2>3, <2>5, Zenon
  <2>7. Loop(g, m + 1)
    BY <2>4, <2>6, Zenon
  <2> QED BY <2>7
<1>5. \A m \in Nat : Made(m)
  <2> HIDE DEF Made
  <2>1. N \in SUBSET Nat /\ 0 \in N /\ \A m \in N : m + 1 \in N
    BY <1>3, <1>4
  <2>2. \A m \in Nat : m \in N
    <3> HIDE DEF N
    <3> QED BY <2>1, SetInduction
  <2> QED BY <2>2
<1>6. SUBSET S = D(Cardinality(S)) /\ Cardinality(S) \in Nat
  <2>1. \A s \in SUBSET S : Cardinality(s) <= Cardinality(S)
    BY FS_Subset
  <2> QED BY <1>1, <2>1
<1>7. \E F : IsSum(f, S, F)
  <2> HIDE DEF D
  <2> QED BY <1>5, <1>6 DEF IsSum
<1>8. IsSum(f, S, SumOf(f, S))
  BY <1>7, Zenon DEF SumOf
<1>9. \A s \in SUBSET S : SumOf(f, S)[s] = IF s = {} THEN 0 ELSE f[Taken(s)] + SumOf(f, S)[Left(s)]
  BY <1>8, Zenon DEF IsSum
<1>10. {} \in SUBSET S
  OBVIOUS
<1> QED BY <1>9, <1>10, Zenon

\* A sum of integers is one.
LEMMA SumInt ==
    ASSUME NEW S, IsFiniteSet(S), NEW f \in [S -> Int]
    PROVE  \A s \in SUBSET S : SumOf(f, S)[s] \in Int
<1> DEFINE F == SumOf(f, S)
           Good == {s \in SUBSET S : F[s] \in Int}
<1>1. F[{}] = 0 /\ \A s \in SUBSET S : s # {} => F[s] = f[Taken(s)] + F[Left(s)]
  BY SumIs
<1> HIDE DEF F
<1>2. {} \in Good
  BY <1>1
<1>3. ASSUME NEW s \in SUBSET S, s # {}, Left(s) \in Good PROVE s \in Good
  <2>1. f[Taken(s)] \in Int
    BY <1>3, SumLeft
  <2> QED BY <1>1, <1>3, <2>1
<1>4. \A s \in SUBSET S : s \in Good
  <2> HIDE DEF Good
  <2> QED BY <1>2, <1>3, SumInduction
<1> QED BY <1>4 DEF F

\* A sum of differences of multiples.
Difference(f, a, v, b, w, S) ==
    /\ f \in [S -> Int] /\ v \in [S -> Int] /\ w \in [S -> Int] /\ a \in Int /\ b \in Int
    /\ \A x \in S : f[x] = a * v[x] - b * w[x]

\* Its sum is the difference of the multiples of the sums.
LEMMA SumLinear ==
    ASSUME NEW S, IsFiniteSet(S), NEW f, NEW v, NEW w, NEW a, NEW b, Difference(f, a, v, b, w, S)
    PROVE  SumOf(f, S)[S] = a * SumOf(v, S)[S] - b * SumOf(w, S)[S]
<1>0. /\ f \in [S -> Int] /\ v \in [S -> Int] /\ w \in [S -> Int] /\ a \in Int /\ b \in Int
      /\ \A x \in S : f[x] = a * v[x] - b * w[x]
  BY DEF Difference
<1> DEFINE F == SumOf(f, S)
           V == SumOf(v, S)
           W == SumOf(w, S)
           Good == {s \in SUBSET S : F[s] = a * V[s] - b * W[s]}
<1>1. /\ F[{}] = 0 /\ \A s \in SUBSET S : s # {} => F[s] = f[Taken(s)] + F[Left(s)]
      /\ V[{}] = 0 /\ \A s \in SUBSET S : s # {} => V[s] = v[Taken(s)] + V[Left(s)]
      /\ W[{}] = 0 /\ \A s \in SUBSET S : s # {} => W[s] = w[Taken(s)] + W[Left(s)]
  BY SumIs
<1>2. \A s \in SUBSET S : F[s] \in Int /\ V[s] \in Int /\ W[s] \in Int
  BY <1>0, SumInt
<1> HIDE DEF F, V, W
<1>3. {} \in Good
  <2>1. a * 0 - b * 0 = 0
    BY <1>0
  <2> QED BY <1>1, <2>1
<1>4. ASSUME NEW s \in SUBSET S, s # {}, Left(s) \in Good PROVE s \in Good
  <2> DEFINE x == Taken(s)
             l == Left(s)
             p == v[x]
             q == w[x]
             y == V[l]
             z == W[l]
  <2>1. x \in S /\ l \in SUBSET S
    BY <1>4, SumLeft
  <2>2. p \in Int /\ q \in Int /\ y \in Int /\ z \in Int
    BY <1>0, <1>2, <2>1
  <2>3. F[s] = (a * p - b * q) + (a * y - b * z) /\ V[s] = p + y /\ W[s] = q + z
    BY <1>0, <1>1, <1>4, <2>1
  <2> HIDE DEF x, l, p, q, y, z
  <2>4. (a * p - b * q) + (a * y - b * z) = a * (p + y) - b * (q + z)
    BY <1>0, <2>2
  <2> QED BY <2>3, <2>4
<1>5. \A s \in SUBSET S : s \in Good
  <2> HIDE DEF Good
  <2> QED BY <1>3, <1>4, SumInduction
<1> QED BY <1>5 DEF F, V, W

\* The sum after one value has grown by one.
LEMMA SumBump ==
    ASSUME NEW S, IsFiniteSet(S), NEW f \in [S -> Int], NEW k \in S, NEW g \in [S -> Int],
           \A x \in S : g[x] = IF x = k THEN f[x] + 1 ELSE f[x]
    PROVE  SumOf(g, S)[S] = SumOf(f, S)[S] + 1
<1> DEFINE F == SumOf(f, S)
           G == SumOf(g, S)
           Good == {s \in SUBSET S : G[s] = F[s] + IF k \in s THEN 1 ELSE 0}
<1>1. /\ F[{}] = 0 /\ \A s \in SUBSET S : s # {} => F[s] = f[Taken(s)] + F[Left(s)]
      /\ G[{}] = 0 /\ \A s \in SUBSET S : s # {} => G[s] = g[Taken(s)] + G[Left(s)]
  BY SumIs
<1>2. \A s \in SUBSET S : F[s] \in Int /\ G[s] \in Int
  BY SumInt
<1> HIDE DEF F, G
<1>3. {} \in Good
  BY <1>1
<1>4. ASSUME NEW s \in SUBSET S, s # {}, Left(s) \in Good PROVE s \in Good
  <2> DEFINE x == Taken(s)
             l == Left(s)
  <2>1. x \in S /\ x \in s /\ l \in SUBSET S /\ x \notin l /\ l \subseteq s /\ \A y \in s : y = x \/ y \in l
    BY <1>4, SumLeft DEF Left
  <2>2. G[s] = g[x] + G[l] /\ F[s] = f[x] + F[l] /\ G[l] = F[l] + IF k \in l THEN 1 ELSE 0
    BY <1>1, <1>4
  <2>3. f[x] \in Int /\ F[l] \in Int
    BY <1>2, <2>1
  <2> HIDE DEF x, l
  <2>4. CASE x = k
    <3>1. k \in s /\ k \notin l /\ g[x] = f[x] + 1
      BY <2>1, <2>4
    <3> QED BY <2>2, <2>3, <3>1
  <2>5. CASE x # k
    <3>1. (k \in s <=> k \in l) /\ g[x] = f[x]
      BY <2>1, <2>5
    <3> QED BY <2>2, <2>3, <3>1
  <2> QED BY <2>4, <2>5
<1>5. \A s \in SUBSET S : s \in Good
  <2> HIDE DEF Good
  <2> QED BY <1>3, <1>4, SumInduction
<1>6. SumOf(g, S)[S] = SumOf(f, S)[S] + IF k \in S THEN 1 ELSE 0
  BY <1>5 DEF F, G
<1> QED BY <1>6

\* A sum of naturals has room for any two of them.
LEMMA SumPair ==
    ASSUME NEW S, IsFiniteSet(S), NEW f \in [S -> Nat]
    PROVE  /\ \A x \in S : f[x] <= SumOf(f, S)[S]
           /\ \A x, y \in S : x # y => f[x] + f[y] <= SumOf(f, S)[S]
           /\ SumOf(f, S)[S] \in Nat
<1> DEFINE F == SumOf(f, S)
           Good == {s \in SUBSET S : /\ F[s] \in Nat
                                     /\ \A x \in s : f[x] <= F[s]
                                     /\ \A x, y \in s : x # y => f[x] + f[y] <= F[s]}
<1>1. F[{}] = 0 /\ \A s \in SUBSET S : s # {} => F[s] = f[Taken(s)] + F[Left(s)]
  BY SumIs
<1> HIDE DEF F
<1>2. {} \in Good
  BY <1>1
<1>3. ASSUME NEW s \in SUBSET S, s # {}, Left(s) \in Good PROVE s \in Good
  <2> DEFINE t == Taken(s)
             l == Left(s)
  <2>1. t \in S /\ l \in SUBSET S /\ \A y \in s : y = t \/ y \in l
    BY <1>3, SumLeft
  <2>2. F[s] = f[t] + F[l] /\ f[t] \in Nat
    BY <1>1, <1>3, <2>1
  <2>3. F[l] \in Nat /\ (\A x \in l : f[x] <= F[l]) /\ \A x, y \in l : x # y => f[x] + f[y] <= F[l]
    BY <1>3
  <2>4. \A x \in s : f[x] \in Nat
    OBVIOUS
  <2> HIDE DEF t, l
  <2>5. F[s] \in Nat
    BY <2>2, <2>3
  <2>6. ASSUME NEW x \in s PROVE f[x] <= F[s]
    BY <2>1, <2>2, <2>3, <2>4
  <2>7. ASSUME NEW x \in s, NEW y \in s, x # y PROVE f[x] + f[y] <= F[s]
    <3>1. CASE x = t /\ y \in l
      BY <2>2, <2>3, <2>4, <3>1
    <3>2. CASE y = t /\ x \in l
      BY <2>2, <2>3, <2>4, <3>2
    <3>3. CASE x \in l /\ y \in l
      <4>1. f[x] + f[y] <= F[l]
        BY <2>3, <2>7, <3>3
      <4> QED BY <2>2, <2>3, <2>4, <4>1
    <3> QED BY <2>1, <2>7, <3>1, <3>2, <3>3
  <2> QED BY <2>5, <2>6, <2>7
<1>4. \A s \in SUBSET S : s \in Good
  <2> HIDE DEF Good
  <2> QED BY <1>2, <1>3, SumInduction
<1>5. S \in Good
  <2> HIDE DEF Good
  <2> QED BY <1>4
<1> QED BY <1>5 DEF F

\* Values that are not positive have no positive sum.
LEMMA SumNegative ==
    ASSUME NEW S, IsFiniteSet(S), NEW f \in [S -> Int], \A x \in S : f[x] <= 0
    PROVE  SumOf(f, S)[S] <= 0
<1> DEFINE F == SumOf(f, S)
           Good == {s \in SUBSET S : F[s] <= 0}
<1>1. F[{}] = 0 /\ \A s \in SUBSET S : s # {} => F[s] = f[Taken(s)] + F[Left(s)]
  BY SumIs
<1>2. \A s \in SUBSET S : F[s] \in Int
  BY SumInt
<1> HIDE DEF F
<1>3. {} \in Good
  BY <1>1
<1>4. ASSUME NEW s \in SUBSET S, s # {}, Left(s) \in Good PROVE s \in Good
  <2>1. Taken(s) \in S /\ Left(s) \in SUBSET S
    BY <1>4, SumLeft
  <2>2. f[Taken(s)] \in Int /\ f[Taken(s)] <= 0 /\ F[Left(s)] \in Int /\ F[Left(s)] <= 0
    BY <1>2, <1>4, <2>1
  <2> QED BY <1>1, <1>4, <2>2
<1>5. \A s \in SUBSET S : s \in Good
  <2> HIDE DEF Good
  <2> QED BY <1>3, <1>4, SumInduction
<1> QED BY <1>5 DEF F

\* A sum of ones counts.
LEMMA SumOnes ==
    ASSUME NEW S, IsFiniteSet(S)
    PROVE  SumOf([x \in S |-> 1], S)[S] = Cardinality(S)
<1> DEFINE f == [x \in S |-> 1]
           F == SumOf(f, S)
           Good == {s \in SUBSET S : F[s] = Cardinality(s)}
<1>1. F[{}] = 0 /\ \A s \in SUBSET S : s # {} => F[s] = f[Taken(s)] + F[Left(s)]
  <2> HIDE DEF f
  <2> QED BY SumIs
<1> HIDE DEF F
<1>2. {} \in Good
  BY <1>1, FS_EmptySet
<1>3. ASSUME NEW s \in SUBSET S, s # {}, Left(s) \in Good PROVE s \in Good
  <2>1. Taken(s) \in S /\ Cardinality(Left(s)) = Cardinality(s) - 1 /\ Cardinality(s) \in Nat
    BY <1>3, SumLeft
  <2>2. f[Taken(s)] = 1
    BY <2>1
  <2> HIDE DEF f
  <2>3. F[s] = 1 + Cardinality(Left(s))
    BY <1>1, <1>3, <2>2
  <2>4. F[s] = Cardinality(s)
    BY <2>1, <2>3
  <2> QED BY <2>4
<1>4. \A s \in SUBSET S : s \in Good
  <2> HIDE DEF Good
  <2> QED BY <1>2, <1>3, SumInduction
<1> QED BY <1>4 DEF F, f

\* The two sums of the balancer.
LEMMA ChoiceSums ==
    /\ Choice!Total = SumOf(Weights, DOMAIN Weights)[DOMAIN Weights]
    /\ Choice!Done = SumOf(picks, DOMAIN picks)[DOMAIN picks]
<1>1. Choice!Total = SumOf(Weights, DOMAIN Weights)[DOMAIN Weights]
  BY Zenon DEF Choice!Total, Choice!FoldFunction, Choice!FoldFunctionOnSet, Choice!MapThenFoldSet,
     SumOf, IsSum, Taken, Left
<1>2. Choice!Done = SumOf(picks, DOMAIN picks)[DOMAIN picks]
  BY Zenon DEF Choice!Done, Choice!FoldFunction, Choice!FoldFunctionOnSet, Choice!MapThenFoldSet,
     SumOf, IsSum, Taken, Left
<1> QED BY <1>1, <1>2

\* The weights and their sum.
LEMMA ChoiceConstants ==
    /\ Weights \in [Choice!Nodes -> Nat] /\ Choice!Nodes = 1 .. Len(Weights)
    /\ Len(Weights) \in Nat /\ Len(Weights) >= 1
    /\ IsFiniteSet(Choice!Nodes) /\ Cardinality(Choice!Nodes) = Len(Weights)
    /\ Choice!Total \in Nat /\ Choice!Total >= 1 /\ \A n \in Choice!Nodes : Weights[n] <= Choice!Total
    /\ Choice!Total = SumOf(Weights, Choice!Nodes)[Choice!Nodes]
<1> DEFINE S == Choice!Nodes
           L == Len(Weights)
<1>1. Weights \in Seq(Nat) /\ \E n \in DOMAIN Weights : Weights[n] > 0
  BY WeightsAssumption
<1>2. L \in Nat /\ S = 1 .. L /\ Weights \in [S -> Nat]
  BY <1>1 DEF Choice!Nodes
<1>3. PICK m \in S : Weights[m] > 0
  BY <1>1 DEF Choice!Nodes
<1>4. L >= 1
  BY <1>2, <1>3
<1>5. IsFiniteSet(S) /\ Cardinality(S) = L
  <2>1. 1 \in Int /\ L \in Int
    BY <1>2
  <2>2. IsFiniteSet(1 .. L) /\ Cardinality(1 .. L) = IF 1 > L THEN 0 ELSE L - 1 + 1
    BY <2>1, FS_Interval
  <2> QED BY <1>2, <1>4, <2>2
<1> DEFINE T == SumOf(Weights, S)[S]
<1>6. T \in Nat /\ \A n \in S : Weights[n] <= T
  <2> HIDE DEF S
  <2> QED BY <1>2, <1>5, SumPair
<1>7. Choice!Total = T
  BY ChoiceSums DEF Choice!Nodes
<1> HIDE DEF T
<1>8. T >= 1
  <2>1. Weights[m] \in Nat /\ Weights[m] <= T
    BY <1>2, <1>3, <1>6
  <2> QED BY <1>3, <1>6, <2>1
<1> QED BY <1>2, <1>4, <1>5, <1>6, <1>7, <1>8 DEF T

\* When all weights have been added, the best node has something, and no other is
\* far behind: c is what the nodes are owed then, d the calls completed before, and
\* the c of all nodes add up to one call.
LEMMA ChoiceBest ==
    ASSUME NEW q \in [Choice!Nodes -> Nat], NEW d \in Nat, d = SumOf(q, Choice!Nodes)[Choice!Nodes],
           NEW c \in [Choice!Nodes -> Int], NEW m \in Choice!Nodes,
           \A n \in Choice!Nodes : c[n] = (d + 1) * Weights[n] - q[n] * Choice!Total,
           \A n \in Choice!Nodes : c[n] <= c[m],
           \A n \in Choice!Nodes : -Choice!Total < c[n]
    PROVE  /\ c[m] > 0
           /\ \A k \in Choice!Nodes :
                 k # m => 2 * c[k] <= Choice!Total + (Choice!Total - 1) * (Len(Weights) - 2)
<1> DEFINE S == Choice!Nodes
           L == Len(Weights)
           T == Choice!Total
<1>1. /\ Weights \in [S -> Int] /\ L \in Nat /\ IsFiniteSet(S) /\ Cardinality(S) = L
      /\ T \in Nat /\ T >= 1 /\ T = SumOf(Weights, S)[S] /\ q \in [S -> Int]
  <2>1. Weights \in [S -> Int] /\ q \in [S -> Int]
    BY ChoiceConstants
  <2> QED BY <2>1, ChoiceConstants
<1>2. \A n \in S : c[n] = (d + 1) * Weights[n] - T * q[n]
  <2> SUFFICES ASSUME NEW n \in S PROVE c[n] = (d + 1) * Weights[n] - T * q[n]
    OBVIOUS
  <2>1. q[n] \in Int /\ T \in Int
    BY <1>1
  <2>2. q[n] * T = T * q[n]
    <3> DEFINE y == q[n]
    <3> HIDE DEF y, T
    <3>1. y * T = T * y
      BY <2>1 DEF y
    <3> QED BY <3>1 DEF y
  <2> QED BY <2>2
<1> HIDE DEF S, T, L
<1>3. c \in [S -> Int] /\ m \in S /\ (\A n \in S : c[n] <= c[m]) /\ \A n \in S : -T < c[n]
  BY DEF S, T
<1>4. SumOf(c, S)[S] = T
  <2> DEFINE a == d + 1
  <2>1. a \in Int /\ T \in Int
    BY <1>1
  <2>2. \A n \in S : c[n] = a * Weights[n] - T * q[n]
    BY <1>2
  <2> HIDE DEF a
  <2>3. SumOf(c, S)[S] = a * SumOf(Weights, S)[S] - T * SumOf(q, S)[S]
    <3>1. Difference(c, a, Weights, T, q, S)
      BY <1>1, <1>3, <2>1, <2>2 DEF Difference
    <3> QED BY <1>1, <3>1, SumLinear
  <2>4. SumOf(c, S)[S] = a * T - T * d
    BY <1>1, <2>3 DEF S
  <2>5. a * T - T * d = T
    <3>1. (d + 1) * T - T * d = T
      BY <2>1
    <3> QED BY <3>1 DEF a
  <2> QED BY <2>4, <2>5
<1>5. c[m] > 0
  <2> SUFFICES ASSUME ~(c[m] > 0) PROVE FALSE
    OBVIOUS
  <2>1. \A n \in S : c[n] <= 0
    BY <1>3
  <2>2. SumOf(c, S)[S] <= 0
    BY <1>1, <1>3, <2>1, SumNegative
  <2> QED BY <1>1, <1>4, <2>2
<1>6. ASSUME NEW k \in S, k # m PROVE 2 * c[k] <= T + (T - 1) * (L - 2)
  <2> DEFINE one == [x \in S |-> 1]
             e == [n \in S |-> c[n] + (T - 1)]
             u == -(T - 1)
  <2>1. e \in [S -> Nat] /\ e \in [S -> Int] /\ one \in [S -> Int] /\ u \in Int
    <3>1. \A n \in S : c[n] + (T - 1) \in Nat
      BY <1>1, <1>3
    <3> QED BY <1>1, <3>1
  <2>2. \A n \in S : e[n] = 1 * c[n] - u * one[n]
    <3>1. \A n \in S : c[n] \in Int /\ one[n] = 1 /\ e[n] = c[n] + (T - 1)
      BY <1>3
    <3> HIDE DEF one, e
    <3> QED BY <1>1, <3>1
  <2>3. SumOf(one, S)[S] = L
    BY <1>1, SumOnes
  <2>4. e[m] = c[m] + (T - 1) /\ e[k] = c[k] + (T - 1)
    BY <1>3
  <2> HIDE DEF one, e, u
  <2>5. SumOf(e, S)[S] = 1 * SumOf(c, S)[S] - u * SumOf(one, S)[S]
    <3>1. Difference(e, 1, c, u, one, S)
      BY <1>3, <2>1, <2>2 DEF Difference
    <3> QED BY <1>1, <3>1, SumLinear
  <2>6. e[m] + e[k] <= SumOf(e, S)[S]
    BY <1>1, <1>3, <1>6, <2>1, SumPair
  <2>7. 1 * T - u * L = T + (T - 1) * L
    <3>1. 1 * T - (-(T - 1)) * L = T + (T - 1) * L
      BY <1>1
    <3> QED BY <3>1 DEF u
  <2>8. (c[m] + (T - 1)) + (c[k] + (T - 1)) <= T + (T - 1) * L
    BY <1>4, <2>3, <2>4, <2>5, <2>6, <2>7
  <2>9. c[m] \in Int /\ c[k] \in Int /\ c[k] <= c[m]
    BY <1>3
  <2>10. (T - 1) * (L - 2) = (T - 1) * L - 2 * (T - 1) /\ (T - 1) * L \in Int
    BY <1>1
  <2> QED BY <1>1, <2>8, <2>9, <2>10
<1> QED BY <1>5, <1>6 DEF S, T, L

\* What the nodes are owed depends on the completed calls only.
LEMMA ChoiceOwedSame ==
    ASSUME picks' = picks
    PROVE  (\A n \in Choice!Nodes : Choice!Owed(n)' = Choice!Owed(n))
           /\ (Choice!WithinBounds => Choice!WithinBounds')
<1>1. Choice!Done' = Choice!Done
  BY Zenon DEF Choice!Done, Choice!FoldFunction, Choice!FoldFunctionOnSet, Choice!MapThenFoldSet
<1>2. \A n \in Choice!Nodes : Choice!Owed(n)' = Choice!Owed(n)
  BY <1>1, Zenon DEF Choice!Owed
<1>3. Choice!WithinBounds => Choice!WithinBounds'
  BY <1>2, Zenon DEF Choice!WithinBounds
<1> QED BY <1>2, <1>3

\* The completed calls of q are a number, and so is what they leave a node owed.
LEMMA ChoiceCounts ==
    ASSUME NEW q \in [Choice!Nodes -> Nat]
    PROVE  LET d == SumOf(q, Choice!Nodes)[Choice!Nodes]
           IN  d \in Nat /\ \A n \in Choice!Nodes : d * Weights[n] - q[n] * Choice!Total \in Int
<1> DEFINE d == SumOf(q, Choice!Nodes)[Choice!Nodes]
<1>1. d \in Nat
  BY SumPair, ChoiceConstants
<1>2. ASSUME NEW n \in Choice!Nodes PROVE d * Weights[n] - q[n] * Choice!Total \in Int
  <2> DEFINE a == Weights[n]
             b == q[n]
             t == Choice!Total
  <2>1. a \in Int /\ b \in Int /\ t \in Int /\ d \in Int
    BY <1>1, ChoiceConstants
  <2> HIDE DEF a, b, t, d
  <2>2. d * a - b * t \in Int
    BY <2>1
  <2> QED BY <2>2 DEF a, b, t
<1> QED BY <1>1, <1>2

\* What a node is owed is a number, before a step
LEMMA ChoiceOwedInt ==
    ASSUME picks \in [Choice!Nodes -> Nat]
    PROVE  /\ Choice!Done = SumOf(picks, Choice!Nodes)[Choice!Nodes] /\ Choice!Done \in Nat
           /\ \A n \in Choice!Nodes : Choice!Owed(n) \in Int
<1>1. Choice!Done = SumOf(picks, Choice!Nodes)[Choice!Nodes]
  BY ChoiceSums
<1> QED BY <1>1, ChoiceCounts DEF Choice!Owed

\* and after it.
LEMMA ChoiceOwedPrime ==
    ASSUME picks' \in [Choice!Nodes -> Nat]
    PROVE  /\ Choice!Done' = SumOf(picks', Choice!Nodes)[Choice!Nodes]
           /\ \A n \in Choice!Nodes : Choice!Owed(n)' \in Int
<1>1. DOMAIN picks' = Choice!Nodes
  OBVIOUS
<1>2. Choice!Done' = SumOf(picks', DOMAIN picks')[DOMAIN picks']
  BY Zenon DEF Choice!Done, Choice!FoldFunction, Choice!FoldFunctionOnSet, Choice!MapThenFoldSet,
     SumOf, IsSum, Taken, Left
<1> DEFINE r == picks'
<1>3. r \in [Choice!Nodes -> Nat] /\ Choice!Done' = SumOf(r, Choice!Nodes)[Choice!Nodes]
  BY <1>1, <1>2
<1>4. \A n \in Choice!Nodes : Choice!Owed(n)' = Choice!Done' * Weights[n] - r[n] * Choice!Total
  BY DEF Choice!Owed
<1> HIDE DEF r
<1>5. \A n \in Choice!Nodes : Choice!Owed(n)' \in Int
  BY <1>3, <1>4, ChoiceCounts
<1> QED BY <1>3, <1>5 DEF r

\* At the start nothing is owed.
LEMMA ChoiceInit == Choice!Init => Choice!ChoiceInv
<1> SUFFICES ASSUME Choice!Init PROVE Choice!ChoiceInv
  OBVIOUS
<1> DEFINE S == Choice!Nodes
           T == Choice!Total
           L == Len(Weights)
<1>1. L \in Nat /\ L >= 1 /\ T \in Nat /\ T >= 1 /\ IsFiniteSet(S)
  BY ChoiceConstants
<1>2. Choice!ChoiceType
  <2>1. overlaps \in Nat /\ mixed \in BOOLEAN
    BY DEF Choice!Init
  <2>2. /\ cw \in [S -> Int] /\ picks \in [S -> Nat] /\ debt \in [S -> Int]
        /\ idx \in [Goroutines -> Int] /\ best \in [Goroutines -> Int] /\ reg \in [Goroutines -> Int]
    BY DEF Choice!Init
  <2>3. at \in [Goroutines -> {"idle", "read", "write", "compare", "takeRead", "takeWrite"}]
    BY DEF Choice!Init
  <2> QED BY <2>1, <2>2, <2>3 DEF Choice!ChoiceType
<1>3. \A n \in S : cw[n] = 0 /\ picks[n] = 0 /\ debt[n] = 0
  BY DEF Choice!Init
<1>4. DOMAIN picks = S /\ picks \in [S -> Int]
  BY DEF Choice!Init
<1>5. Choice!Done = 0
  <2>1. Difference(picks, 0, picks, 0, picks, S)
    BY <1>3, <1>4 DEF Difference
  <2>2. SumOf(picks, S)[S] = 0 * SumOf(picks, S)[S] - 0 * SumOf(picks, S)[S]
    BY <1>1, <2>1, SumLinear
  <2>3. SumOf(picks, S)[S] \in Int
    BY <1>1, <1>4, SumInt
  <2>4. SumOf(picks, S)[S] = 0
    <3> DEFINE x == SumOf(picks, S)[S]
    <3> HIDE DEF x
    <3>1. x = 0 * x - 0 * x /\ x \in Int
      BY <2>2, <2>3 DEF x
    <3>2. x = 0
      BY <3>1
    <3> QED BY <3>2 DEF x
  <2> QED BY <1>4, <2>4, ChoiceSums
<1>6. \A n \in S : Choice!Owed(n) = 0
  <2> SUFFICES ASSUME NEW n \in S PROVE Choice!Owed(n) = 0
    OBVIOUS
  <2>1. 0 * Weights[n] - 0 * Choice!Total = 0
    BY ChoiceConstants
  <2> QED BY <1>3, <1>5, <2>1 DEF Choice!Owed
<1>7. 0 \in Choice!Bounds
  <2> HIDE DEF T, L
  <2>1. 2 * 0 <= T + (T - 1) * (L - 2)
    <3>1. CASE L = 1
      BY <1>1, <3>1
    <3>2. CASE L >= 2
      <4>1. (T - 1) \in Nat /\ (L - 2) \in Nat
        BY <1>1, <3>2
      <4>2. (T - 1) * (L - 2) \in Nat
        BY <4>1
      <4> QED BY <1>1, <4>2
    <3> QED BY <1>1, <3>1, <3>2
  <2>2. -T < 0
    BY <1>1
  <2> QED BY <2>1, <2>2 DEF Choice!Bounds, T, L
<1>8. Choice!WithinBounds
  BY <1>6, <1>7 DEF Choice!WithinBounds
<1>9. (\A g \in Goroutines : at[g] = "idle") /\ mixed = FALSE /\ overlaps = 0
  BY DEF Choice!Init
<1>10. \A g \in Goroutines : Choice!Accounted(g)
  BY <1>3, <1>6, <1>9 DEF Choice!Accounted, Choice!Added
<1>11. \A g \in Goroutines : Choice!InCall(g) /\ Choice!InRange(g)
  BY <1>9 DEF Choice!InCall, Choice!InRange
<1>12. Choice!Lone
  BY <1>9, <1>10, <1>11 DEF Choice!Lone
<1> QED BY <1>2, <1>3, <1>8, <1>9, <1>11, <1>12 DEF Choice!ChoiceInv

\* The types, and where the calls are, do not depend on who else is in a call: a
\* call of Next that others overlap has a best node in the end all the same.
LEMMA ChoiceRange ==
    ASSUME Choice!ChoiceInv, NEW g \in Goroutines,
           \/ Choice!Call(g) \/ Choice!AddRead(g) \/ Choice!AddWrite(g)
           \/ Choice!Compare(g) \/ Choice!TakeRead(g) \/ Choice!TakeWrite(g)
    PROVE  /\ Choice!ChoiceType' /\ \A h \in Goroutines : Choice!InRange(h)'
           /\ \A h \in Goroutines \ {g} : at'[h] = at[h]
<1>1. Choice!ChoiceType /\ Choice!InRange(g) /\ \A h \in Goroutines : Choice!InRange(h)
  BY DEF Choice!ChoiceInv
<1>2. /\ Choice!Nodes = 1 .. Len(Weights) /\ Len(Weights) \in Nat /\ Len(Weights) >= 1
      /\ Weights \in [Choice!Nodes -> Nat] /\ Choice!Total \in Nat
  BY ChoiceConstants
<1>3. /\ at' \in [Goroutines -> {"idle", "read", "write", "compare", "takeRead", "takeWrite"}]
      /\ \A h \in Goroutines \ {g} : at'[h] = at[h]
  <2>1. \E l \in {"idle", "read", "write", "compare", "takeRead", "takeWrite"} :
            at' = [at EXCEPT ![g] = l]
    BY DEF Choice!Call, Choice!AddRead, Choice!AddWrite, Choice!Compare, Choice!TakeRead,
           Choice!TakeWrite, Choice!Goto
  <2> QED BY <1>1, <2>1 DEF Choice!ChoiceType
<1>4. ASSUME Choice!Call(g) PROVE Choice!ChoiceType' /\ Choice!InRange(g)'
  <2>1. /\ idx' = [idx EXCEPT ![g] = 1] /\ best' = [best EXCEPT ![g] = 0]
        /\ cw' = cw /\ reg' = reg /\ picks' = picks /\ debt' = debt
    BY <1>4 DEF Choice!Call
  <2>2. overlaps' \in Nat /\ mixed' \in BOOLEAN
    BY <1>1, <1>4 DEF Choice!Call, Choice!ChoiceType
  <2>3. at'[g] = "read" /\ idx'[g] = 1 /\ best'[g] = 0
    BY <1>1, <1>4, <2>1 DEF Choice!Call, Choice!Goto, Choice!ChoiceType
  <2>4. Choice!ChoiceType'
    BY <1>1, <1>3, <2>1, <2>2 DEF Choice!ChoiceType
  <2>5. 1 \in Choice!Nodes
    BY <1>2
  <2> QED BY <2>3, <2>4, <2>5 DEF Choice!InRange
<1>5. ASSUME Choice!AddRead(g) PROVE Choice!ChoiceType' /\ Choice!InRange(g)'
  <2>1. /\ at[g] = "read" /\ reg' = [reg EXCEPT ![g] = cw[idx[g]]]
        /\ cw' = cw /\ idx' = idx /\ best' = best /\ picks' = picks
        /\ overlaps' = overlaps /\ mixed' = mixed /\ debt' = debt
    BY <1>5 DEF Choice!AddRead, Choice!history
  <2>2. at'[g] = "write"
    BY <1>1, <1>5 DEF Choice!AddRead, Choice!Goto, Choice!ChoiceType
  <2>3. idx[g] \in Choice!Nodes
    BY <1>1, <2>1 DEF Choice!InRange
  <2>4. cw[idx[g]] \in Int
    BY <1>1, <2>3 DEF Choice!ChoiceType
  <2>5. Choice!ChoiceType'
    BY <1>1, <1>3, <2>1, <2>4 DEF Choice!ChoiceType
  <2> QED BY <1>1, <2>1, <2>2, <2>3, <2>5 DEF Choice!InRange
<1>6. ASSUME Choice!AddWrite(g) PROVE Choice!ChoiceType' /\ Choice!InRange(g)'
  <2>1. /\ at[g] = "write" /\ cw' = [cw EXCEPT ![idx[g]] = reg[g] + Weights[idx[g]]]
        /\ reg' = reg /\ idx' = idx /\ best' = best /\ picks' = picks
        /\ overlaps' = overlaps /\ mixed' = mixed /\ debt' = debt
    BY <1>6 DEF Choice!AddWrite, Choice!history, Choice!local
  <2>2. at'[g] = "compare"
    BY <1>1, <1>6 DEF Choice!AddWrite, Choice!Goto, Choice!ChoiceType
  <2>3. idx[g] \in Choice!Nodes
    BY <1>1, <2>1 DEF Choice!InRange
  <2>4. reg[g] + Weights[idx[g]] \in Int
    BY <1>1, <1>2, <2>3 DEF Choice!ChoiceType
  <2>5. Choice!ChoiceType'
    BY <1>1, <1>3, <2>1, <2>4 DEF Choice!ChoiceType
  <2> QED BY <1>1, <2>1, <2>2, <2>3, <2>5 DEF Choice!InRange
<1>7. ASSUME Choice!Compare(g) PROVE Choice!ChoiceType' /\ Choice!InRange(g)'
  <2> DEFINE i == idx[g]
             b == best[g]
             x == IF b = 0 \/ cw[i] > cw[IF b = 0 THEN 1 ELSE b] THEN i ELSE b
  <2>1. /\ at[g] = "compare" /\ idx' = [idx EXCEPT ![g] = i + 1] /\ best' = [best EXCEPT ![g] = x]
        /\ cw' = cw /\ reg' = reg /\ picks' = picks
        /\ overlaps' = overlaps /\ mixed' = mixed /\ debt' = debt
    BY <1>7 DEF Choice!Compare, Choice!history
  <2>2. i \in Choice!Nodes /\ b \in Int /\ IF i = 1 THEN b = 0 ELSE b \in 1 .. (i - 1)
    BY <1>1, <2>1 DEF Choice!InRange, Choice!ChoiceType
  <2>3. at'[g] = IF i < Len(Weights) THEN "read" ELSE "takeRead"
    BY <1>1, <1>7 DEF Choice!Compare, Choice!Goto, Choice!ChoiceType
  <2>4. idx'[g] = i + 1 /\ best'[g] = x
    BY <1>1, <2>1 DEF Choice!ChoiceType
  <2> HIDE DEF i, b
  <2>5. i + 1 \in Int /\ x \in Int /\ x \in 1 .. i
    BY <1>2, <2>2
  <2> HIDE DEF x
  <2>6. Choice!ChoiceType'
    BY <1>1, <1>3, <2>1, <2>5 DEF Choice!ChoiceType
  <2>7. /\ at'[g] = "read" => i + 1 \in Choice!Nodes
        /\ at'[g] = "takeRead" => i + 1 = Len(Weights) + 1
        /\ at'[g] \in {"read", "takeRead"} /\ i + 1 # 1 /\ (i + 1) - 1 = i
    BY <1>2, <2>2, <2>3
  <2> QED BY <2>4, <2>5, <2>6, <2>7 DEF Choice!InRange
<1>8. ASSUME Choice!TakeRead(g) \/ Choice!TakeWrite(g) PROVE best[g] \in Choice!Nodes
  <2>1. at[g] \in {"takeRead", "takeWrite"}
    BY <1>8 DEF Choice!TakeRead, Choice!TakeWrite
  <2>2. idx[g] = Len(Weights) + 1
    BY <1>1, <2>1 DEF Choice!InRange
  <2>3. Len(Weights) + 1 # 1 /\ (Len(Weights) + 1) - 1 = Len(Weights)
    BY <1>2
  <2>4. best[g] \in 1 .. (idx[g] - 1)
    BY <1>1, <2>1, <2>2, <2>3 DEF Choice!InRange
  <2> QED BY <1>2, <2>2, <2>3, <2>4
<1>9. ASSUME Choice!TakeRead(g) PROVE Choice!ChoiceType' /\ Choice!InRange(g)'
  <2>1. /\ at[g] = "takeRead" /\ reg' = [reg EXCEPT ![g] = cw[best[g]]]
        /\ cw' = cw /\ idx' = idx /\ best' = best /\ picks' = picks
        /\ overlaps' = overlaps /\ mixed' = mixed /\ debt' = debt
    BY <1>9 DEF Choice!TakeRead, Choice!history
  <2>2. at'[g] = "takeWrite"
    BY <1>1, <1>9 DEF Choice!TakeRead, Choice!Goto, Choice!ChoiceType
  <2>3. cw[best[g]] \in Int
    BY <1>1, <1>8, <1>9 DEF Choice!ChoiceType
  <2>4. Choice!ChoiceType'
    BY <1>1, <1>3, <2>1, <2>3 DEF Choice!ChoiceType
  <2> QED BY <1>1, <2>1, <2>2, <2>4 DEF Choice!InRange
<1>10. ASSUME Choice!TakeWrite(g) PROVE Choice!ChoiceType' /\ Choice!InRange(g)'
  <2>1. /\ at[g] = "takeWrite" /\ cw' = [cw EXCEPT ![best[g]] = reg[g] - Choice!Total]
        /\ picks' = [picks EXCEPT ![best[g]] = picks[best[g]] + 1]
        /\ reg' = reg /\ idx' = idx /\ best' = best /\ overlaps' = overlaps
        /\ mixed' = (mixed /\ ~Choice!OthersIdle(g))
    BY <1>10 DEF Choice!TakeWrite, Choice!local
  <2>2. at'[g] = "idle"
    BY <1>1, <1>10 DEF Choice!TakeWrite, Choice!Goto, Choice!ChoiceType
  <2>3. reg[g] - Choice!Total \in Int /\ picks[best[g]] + 1 \in Nat
    BY <1>1, <1>2, <1>8, <1>10 DEF Choice!ChoiceType
  <2>4. cw' \in [Choice!Nodes -> Int] /\ picks' \in [Choice!Nodes -> Nat]
    BY <1>1, <2>1, <2>3 DEF Choice!ChoiceType
  <2>5. \A n \in Choice!Nodes : Choice!Owed(n)' \in Int
    BY <2>4, ChoiceOwedPrime
  <2>6. debt' \in [Choice!Nodes -> Int]
    <3>1. debt' = IF mixed /\ Choice!OthersIdle(g)
                  THEN [n \in Choice!Nodes |-> cw'[n] - Choice!Owed(n)'] ELSE debt
      BY <1>10 DEF Choice!TakeWrite
    <3>2. \A n \in Choice!Nodes : cw'[n] - Choice!Owed(n)' \in Int
      BY <2>4, <2>5
    <3> QED BY <1>1, <3>1, <3>2 DEF Choice!ChoiceType
  <2>7. mixed' \in BOOLEAN
    BY <2>1
  <2>8. Choice!ChoiceType'
    BY <1>1, <1>3, <2>1, <2>4, <2>6, <2>7 DEF Choice!ChoiceType
  <2> QED BY <2>2, <2>8 DEF Choice!InRange
<1>11. ASSUME NEW h \in Goroutines \ {g} PROVE Choice!InRange(h)'
  <2>1. idx'[h] = idx[h] /\ best'[h] = best[h]
    BY <1>1 DEF Choice!Call, Choice!AddRead, Choice!AddWrite, Choice!Compare, Choice!TakeRead,
                Choice!TakeWrite, Choice!local, Choice!ChoiceType
  <2> QED BY <1>1, <1>3, <2>1 DEF Choice!InRange
<1> QED BY <1>3, <1>4, <1>5, <1>6, <1>7, <1>9, <1>10, <1>11

\* What the invariant says of a call that no other one overlaps.
LEMMA ChoiceFacts ==
    ASSUME Choice!ChoiceInv, ~mixed, NEW g \in Goroutines, Choice!OthersIdle(g)
    PROVE  /\ Choice!ChoiceType /\ Choice!Accounted(g) /\ Choice!InCall(g) /\ Choice!InRange(g)
           /\ overlaps = 0 => Choice!WithinBounds /\ \A n \in Choice!Nodes : debt[n] = 0
           /\ cw \in [Choice!Nodes -> Int] /\ idx[g] \in Int /\ best[g] \in Int /\ reg[g] \in Int
           /\ Choice!Nodes = 1 .. Len(Weights) /\ Len(Weights) \in Nat /\ Len(Weights) >= 1
           /\ \A n \in Choice!Nodes : /\ Weights[n] \in Nat /\ cw[n] \in Int /\ debt[n] \in Int
                                      /\ Choice!Owed(n) \in Int
<1>1. /\ Choice!ChoiceType /\ Choice!Accounted(g) /\ Choice!InCall(g) /\ Choice!InRange(g)
      /\ overlaps = 0 => Choice!WithinBounds /\ \A n \in Choice!Nodes : debt[n] = 0
  BY Zenon DEF Choice!ChoiceInv, Choice!Lone
<1>2. cw \in [Choice!Nodes -> Int] /\ idx[g] \in Int /\ best[g] \in Int /\ reg[g] \in Int
      /\ debt \in [Choice!Nodes -> Int] /\ picks \in [Choice!Nodes -> Nat]
  BY <1>1 DEF Choice!ChoiceType
<1>3. \A n \in Choice!Nodes : /\ Weights[n] \in Nat /\ cw[n] \in Int /\ debt[n] \in Int
                              /\ Choice!Owed(n) \in Int
  BY <1>2, ChoiceConstants, ChoiceOwedInt
<1> QED BY <1>1, <1>2, <1>3, ChoiceConstants

\* Such a call keeps the account: it starts at the first node,
LEMMA ChoiceCall ==
    ASSUME Choice!ChoiceInv, ~mixed, NEW g \in Goroutines, Choice!OthersIdle(g), Choice!Call(g)
    PROVE  Choice!Accounted(g)' /\ Choice!InCall(g)' /\ (overlaps = 0 => Choice!WithinBounds')
<1>1. /\ at[g] = "idle" /\ at'[g] = "read" /\ idx'[g] = 1
      /\ cw' = cw /\ picks' = picks /\ debt' = debt
  BY ChoiceFacts DEF Choice!Call, Choice!Goto, Choice!ChoiceType
<1>2. (overlaps = 0 => Choice!WithinBounds') /\ \A n \in Choice!Nodes : Choice!Owed(n)' = Choice!Owed(n)
  BY <1>1, ChoiceFacts, ChoiceOwedSame
<1>3. Choice!Accounted(g)'
  <2> SUFFICES ASSUME NEW n \in Choice!Nodes PROVE cw'[n] = Choice!Owed(n)' + debt'[n] + Choice!Added(g, n)'
    BY DEF Choice!Accounted
  <2>1. ~(n < 1) /\ "read" # "compare"
    BY ChoiceConstants
  <2>2. Choice!Added(g, n) = 0 /\ Choice!Added(g, n)' = 0
    BY <1>1, <2>1 DEF Choice!Added
  <2>3. cw[n] = Choice!Owed(n) + debt[n] + Choice!Added(g, n)
    BY ChoiceFacts DEF Choice!Accounted
  <2> QED BY <1>1, <1>2, <2>2, <2>3
<1>4. Choice!InCall(g)'
  <2>1. 1 .. (1 - 1) = {}
    OBVIOUS
  <2> QED BY <1>1, <2>1 DEF Choice!InCall
<1> QED BY <1>2, <1>3, <1>4

\* it reads a currentWeight,
LEMMA ChoiceAddRead ==
    ASSUME Choice!ChoiceInv, ~mixed, NEW g \in Goroutines, Choice!OthersIdle(g), Choice!AddRead(g)
    PROVE  Choice!Accounted(g)' /\ Choice!InCall(g)' /\ (overlaps = 0 => Choice!WithinBounds')
<1>1. at[g] = "read" /\ idx[g] \in Choice!Nodes
  BY ChoiceFacts DEF Choice!AddRead, Choice!InRange
<1>2. /\ at'[g] = "write" /\ reg'[g] = cw[idx[g]] /\ idx' = idx /\ best' = best
      /\ cw' = cw /\ picks' = picks /\ debt' = debt
  BY <1>1, ChoiceFacts DEF Choice!AddRead, Choice!Goto, Choice!ChoiceType, Choice!history
<1>3. (overlaps = 0 => Choice!WithinBounds') /\ \A n \in Choice!Nodes : Choice!Owed(n)' = Choice!Owed(n)
  BY <1>2, ChoiceFacts, ChoiceOwedSame
<1>4. Choice!Accounted(g)'
  <2> SUFFICES ASSUME NEW n \in Choice!Nodes PROVE cw'[n] = Choice!Owed(n)' + debt'[n] + Choice!Added(g, n)'
    BY DEF Choice!Accounted
  <2>1. Choice!Added(g, n)' = Choice!Added(g, n)
    BY <1>1, <1>2 DEF Choice!Added
  <2>2. cw[n] = Choice!Owed(n) + debt[n] + Choice!Added(g, n)
    BY ChoiceFacts DEF Choice!Accounted
  <2> QED BY <1>2, <1>3, <2>1, <2>2
<1>5. Choice!InCall(g)'
  BY <1>1, <1>2, ChoiceFacts DEF Choice!InCall
<1> QED BY <1>3, <1>4, <1>5

\* writes it back with the weight added,
LEMMA ChoiceAddWrite ==
    ASSUME Choice!ChoiceInv, ~mixed, NEW g \in Goroutines, Choice!OthersIdle(g), Choice!AddWrite(g)
    PROVE  Choice!Accounted(g)' /\ Choice!InCall(g)' /\ (overlaps = 0 => Choice!WithinBounds')
<1> DEFINE i == idx[g]
<1>1. at[g] = "write" /\ i \in Choice!Nodes /\ reg[g] = cw[i]
  BY ChoiceFacts DEF Choice!AddWrite, Choice!InCall, Choice!InRange
<1>2. /\ at'[g] = "compare" /\ reg' = reg /\ idx' = idx /\ best' = best /\ picks' = picks /\ debt' = debt
      /\ cw' = [cw EXCEPT ![i] = cw[i] + Weights[i]]
  BY <1>1, ChoiceFacts DEF Choice!AddWrite, Choice!Goto, Choice!ChoiceType, Choice!local, Choice!history
<1>3. cw'[i] = cw[i] + Weights[i] /\ (\A n \in Choice!Nodes : n # i => cw'[n] = cw[n])
  BY <1>1, <1>2, ChoiceFacts
<1>5. (overlaps = 0 => Choice!WithinBounds') /\ \A n \in Choice!Nodes : Choice!Owed(n)' = Choice!Owed(n)
  BY <1>2, ChoiceFacts, ChoiceOwedSame
<1>6. Choice!Accounted(g)'
  <2> SUFFICES ASSUME NEW n \in Choice!Nodes PROVE cw'[n] = Choice!Owed(n)' + debt'[n] + Choice!Added(g, n)'
    BY DEF Choice!Accounted
  <2>1. cw[n] = Choice!Owed(n) + debt[n] + Choice!Added(g, n)
    BY ChoiceFacts DEF Choice!Accounted
  <2>2. Choice!Owed(n) \in Int /\ debt[n] \in Int
    BY ChoiceFacts
  <2>3. CASE n = i
    <3>1. ~(n < idx[g])
      BY <2>3, ChoiceFacts
    <3>2. Choice!Added(g, n) = 0 /\ Choice!Added(g, n)' = Weights[n]
      BY <1>1, <1>2, <2>3, <3>1 DEF Choice!Added
    <3>3. Weights[n] \in Int
      BY ChoiceFacts
    <3> QED BY <1>2, <1>3, <1>5, <2>1, <2>2, <2>3, <3>2, <3>3
  <2>4. CASE n # i
    <3>1. Choice!Added(g, n)' = Choice!Added(g, n)
      BY <1>1, <1>2, <2>4 DEF Choice!Added
    <3> QED BY <1>2, <1>3, <1>5, <2>1, <2>4, <3>1
  <2> QED BY <2>3, <2>4
<1>7. Choice!InCall(g)'
  <2>1. \A n \in 1 .. (i - 1) : n \in Choice!Nodes /\ n # i /\ cw'[n] = cw[n]
    BY <1>1, <1>3, ChoiceFacts
  <2>2. /\ IF i = 1 THEN best[g] = 0 ELSE best[g] \in 1 .. (i - 1)
        /\ \A n \in 1 .. (i - 1) : cw[n] <= cw[best[g]]
    BY <1>1, ChoiceFacts DEF Choice!InCall, Choice!InRange
  <2>3. \A n \in 1 .. (i - 1) : cw'[n] <= cw'[best[g]]
    <3>1. CASE i = 1
      BY <3>1
    <3>2. CASE i # 1
      <4> HIDE DEF i
      <4> QED BY <2>1, <2>2, <3>2
    <3> QED BY <3>1, <3>2
  <2> QED BY <1>1, <1>2, <2>3 DEF Choice!InCall
<1> QED BY <1>5, <1>6, <1>7

\* compares it with the best one so far,
LEMMA ChoiceCompare ==
    ASSUME Choice!ChoiceInv, ~mixed, NEW g \in Goroutines, Choice!OthersIdle(g), Choice!Compare(g)
    PROVE  Choice!Accounted(g)' /\ Choice!InCall(g)' /\ (overlaps = 0 => Choice!WithinBounds')
<1> DEFINE i == idx[g]
           b == best[g]
<1>1. at[g] = "compare" /\ i \in Choice!Nodes
  BY ChoiceFacts DEF Choice!Compare, Choice!InRange
<1>2. /\ at'[g] = (IF i < Len(Weights) THEN "read" ELSE "takeRead")
      /\ idx'[g] = i + 1 /\ cw' = cw /\ picks' = picks /\ reg' = reg /\ debt' = debt
      /\ best'[g] = IF b = 0 \/ cw[i] > cw[IF b = 0 THEN 1 ELSE b] THEN i ELSE b
  BY ChoiceFacts DEF Choice!Compare, Choice!Goto, Choice!ChoiceType, Choice!history
<1>4. (overlaps = 0 => Choice!WithinBounds') /\ \A n \in Choice!Nodes : Choice!Owed(n)' = Choice!Owed(n)
  BY <1>2, ChoiceFacts, ChoiceOwedSame
<1>5. i \in Nat /\ i >= 1 /\ i <= Len(Weights) /\ Len(Weights) \in Nat /\ Choice!Nodes = 1 .. Len(Weights)
  BY <1>1, ChoiceFacts
<1>6. Choice!Accounted(g)'
  <2> SUFFICES ASSUME NEW n \in Choice!Nodes PROVE cw'[n] = Choice!Owed(n)' + debt'[n] + Choice!Added(g, n)'
    BY DEF Choice!Accounted
  <2>1. cw[n] = Choice!Owed(n) + debt[n] + Choice!Added(g, n)
    BY ChoiceFacts DEF Choice!Accounted
  <2>2. n < i + 1 <=> (n < i \/ n = i)
    BY <1>5
  <2>3. at'[g] # "idle" /\ at'[g] # "compare"
    BY <1>2
  <2>4. Choice!Added(g, n)' = Choice!Added(g, n)
    BY <1>1, <1>2, <2>2, <2>3 DEF Choice!Added
  <2> QED BY <1>2, <1>4, <2>1, <2>4
<1>7. \A n \in 1 .. i : cw[n] <= cw[best'[g]]
  <2>1. IF i = 1 THEN b = 0 ELSE b \in 1 .. (i - 1) /\ \A n \in 1 .. (i - 1) : cw[n] <= cw[b]
    BY <1>1, ChoiceFacts DEF Choice!InCall, Choice!InRange
  <2>2. \A n \in 1 .. i : cw[n] \in Int
    BY <1>5, ChoiceFacts
  <2> HIDE DEF i, b
  <2>3. CASE i = 1
    <3>1. best'[g] = 1
      BY <1>2, <2>1, <2>3
    <3>2. \A n \in 1 .. i : n = 1
      BY <2>3
    <3>3. 1 \in 1 .. i
      BY <2>3
    <3> QED BY <2>2, <3>1, <3>2, <3>3
  <2>4. CASE i # 1
    <3>1. b \in 1 .. (i - 1) /\ b # 0 /\ b \in 1 .. i /\ i \in 1 .. i /\ (\A n \in 1 .. (i - 1) : cw[n] <= cw[b])
      BY <1>5, <2>1, <2>4
    <3>2. best'[g] = IF cw[i] > cw[b] THEN i ELSE b
      BY <1>2, <3>1
    <3>3. \A n \in 1 .. i : n = i \/ n \in 1 .. (i - 1)
      BY <1>5
    <3>4. ASSUME NEW n \in 1 .. i PROVE cw[n] <= cw[best'[g]]
      <4>1. cw[n] \in Int /\ cw[i] \in Int /\ cw[b] \in Int
        BY <2>2, <3>1
      <4>2. n = i \/ cw[n] <= cw[b]
        BY <3>1, <3>3
      <4> QED BY <3>2, <4>1, <4>2
    <3> QED BY <3>4
  <2> QED BY <2>3, <2>4
<1>8. Choice!InCall(g)'
  <2>1. (i + 1) - 1 = i
    BY <1>5
  <2>2. at'[g] \in {"read", "takeRead"}
    BY <1>2
  <2> HIDE DEF i
  <2> QED BY <1>2, <1>7, <2>1, <2>2 DEF Choice!InCall
<1> QED BY <1>4, <1>6, <1>8

\* reads that of the best one in the end,
LEMMA ChoiceTakeRead ==
    ASSUME Choice!ChoiceInv, ~mixed, NEW g \in Goroutines, Choice!OthersIdle(g), Choice!TakeRead(g)
    PROVE  Choice!Accounted(g)' /\ Choice!InCall(g)' /\ (overlaps = 0 => Choice!WithinBounds')
<1>1. at[g] = "takeRead"
  BY DEF Choice!TakeRead
<1>3. /\ at'[g] = "takeWrite" /\ reg'[g] = cw[best[g]] /\ idx' = idx /\ best' = best
      /\ cw' = cw /\ picks' = picks /\ debt' = debt
  BY ChoiceFacts DEF Choice!TakeRead, Choice!Goto, Choice!ChoiceType, Choice!history
<1>4. (overlaps = 0 => Choice!WithinBounds') /\ \A n \in Choice!Nodes : Choice!Owed(n)' = Choice!Owed(n)
  BY <1>3, ChoiceFacts, ChoiceOwedSame
<1>5. Choice!Accounted(g)'
  <2> SUFFICES ASSUME NEW n \in Choice!Nodes PROVE cw'[n] = Choice!Owed(n)' + debt'[n] + Choice!Added(g, n)'
    BY DEF Choice!Accounted
  <2>1. Choice!Added(g, n)' = Choice!Added(g, n)
    BY <1>1, <1>3 DEF Choice!Added
  <2>2. cw[n] = Choice!Owed(n) + debt[n] + Choice!Added(g, n)
    BY ChoiceFacts DEF Choice!Accounted
  <2> QED BY <1>3, <1>4, <2>1, <2>2
<1>6. Choice!InCall(g)'
  BY <1>1, <1>3, ChoiceFacts DEF Choice!InCall
<1> QED BY <1>4, <1>5, <1>6

\* and takes a whole call from it.
LEMMA ChoiceTakeWrite ==
    ASSUME Choice!ChoiceInv, ~mixed, NEW g \in Goroutines, Choice!OthersIdle(g), Choice!TakeWrite(g)
    PROVE  Choice!Accounted(g)' /\ Choice!InCall(g)' /\ (overlaps = 0 => Choice!WithinBounds')
<1> DEFINE S == Choice!Nodes
           L == Len(Weights)
           T == Choice!Total
           b == best[g]
           d == Choice!Done
<1>1. at[g] = "takeWrite" /\ idx[g] = L + 1 /\ reg[g] = cw[b]
  BY ChoiceFacts DEF Choice!TakeWrite, Choice!InCall, Choice!InRange
<1>4. picks \in [S -> Nat] /\ cw \in [S -> Int] /\ DOMAIN picks = S
  BY ChoiceFacts DEF Choice!ChoiceType
<1>2. L \in Nat /\ L >= 1 /\ S = 1 .. L /\ T \in Nat /\ T >= 1 /\ d \in Nat /\ d = SumOf(picks, S)[S]
      /\ \A n \in S : Weights[n] \in Nat /\ Weights[n] <= T /\ cw[n] \in Int /\ debt[n] \in Int
  BY <1>4, ChoiceConstants, ChoiceFacts, ChoiceOwedInt
<1>3. b \in S /\ \A n \in S : cw[n] <= cw[b]
  <2>1. L + 1 # 1 /\ (L + 1) - 1 = L
    BY <1>2
  <2>2. b \in 1 .. L /\ \A n \in 1 .. L : cw[n] <= cw[b]
    <3> HIDE DEF L
    <3> QED BY <1>1, <2>1, ChoiceFacts DEF Choice!InCall, Choice!InRange
  <2> QED BY <1>2, <2>2
<1>5. /\ at'[g] = "idle" /\ cw' = [cw EXCEPT ![b] = cw[b] - T] /\ picks' = [picks EXCEPT ![b] = picks[b] + 1]
      /\ debt' = debt
  <2>1. at' = [at EXCEPT ![g] = "idle"] /\ cw' = [cw EXCEPT ![b] = reg[g] - T]
        /\ picks' = [picks EXCEPT ![b] = picks[b] + 1] /\ debt' = debt
    BY DEF Choice!TakeWrite, Choice!Goto
  <2>2. at'[g] = "idle"
    BY <2>1, ChoiceFacts DEF Choice!ChoiceType
  <2> QED BY <1>1, <2>1, <2>2
<1>6. /\ cw'[b] = cw[b] - T /\ picks'[b] = picks[b] + 1
      /\ \A n \in S : n # b => cw'[n] = cw[n] /\ picks'[n] = picks[n]
      /\ picks' \in [S -> Nat]
  <2>1. T \in Int /\ cw[b] - T \in Int /\ picks[b] + 1 \in Nat
    BY <1>2, <1>3, <1>4
  <2> HIDE DEF S, T, b
  <2> QED BY <1>3, <1>4, <1>5, <2>1
<1>8. Choice!Done' = d + 1
  <2>2. Choice!Done' = SumOf(picks', S)[S]
    BY <1>6, ChoiceOwedPrime
  <2>4. picks \in [S -> Int] /\ picks' \in [S -> Int]
        /\ \A n \in S : picks'[n] = IF n = b THEN picks[n] + 1 ELSE picks[n]
    BY <1>4, <1>6
  <2>5. IsFiniteSet(S)
    BY ChoiceConstants
  <2> DEFINE r == picks'
  <2>6. r \in [S -> Int] /\ \A n \in S : r[n] = IF n = b THEN picks[n] + 1 ELSE picks[n]
    BY <2>4
  <2> HIDE DEF r, S, b, d
  <2>7. SumOf(r, S)[S] = SumOf(picks, S)[S] + 1
    BY <1>3, <2>4, <2>5, <2>6, SumBump
  <2> QED BY <1>2, <2>2, <2>7 DEF r
<1>9. ASSUME NEW n \in S
      PROVE  Choice!Owed(n) \in Int /\ cw[n] = Choice!Owed(n) + debt[n] + Weights[n]
  <2>2. cw[n] = Choice!Owed(n) + debt[n] + Choice!Added(g, n)
    BY ChoiceFacts DEF Choice!Accounted
  <2>3. n < idx[g]
    BY <1>1, <1>2
  <2>4. Choice!Added(g, n) = Weights[n]
    BY <1>1, <2>3 DEF Choice!Added
  <2> QED BY <2>2, <2>4, ChoiceFacts
<1>10. ASSUME NEW n \in S
       PROVE  /\ Choice!Owed(n) + Weights[n] = (d + 1) * Weights[n] - picks[n] * T
              /\ Choice!Owed(n)' = IF n = b THEN (Choice!Owed(n) + Weights[n]) - T ELSE Choice!Owed(n) + Weights[n]
  <2> DEFINE w == Weights[n]
             p == picks[n]
  <2>1. w \in Int /\ p \in Int /\ T \in Int /\ d \in Int
    BY <1>2, <1>4
  <2>2. Choice!Owed(n) = d * w - p * T
    BY DEF Choice!Owed
  <2>3. Choice!Owed(n)' = (d + 1) * w - picks'[n] * T
    BY <1>8 DEF Choice!Owed
  <2>4. picks'[n] = IF n = b THEN p + 1 ELSE p
    BY <1>6
  <2> HIDE DEF w, p, d, T, b
  <2>6. (d * w - p * T) + w = (d + 1) * w - p * T
    BY <2>1
  <2>7. (d + 1) * w - (p + 1) * T = ((d * w - p * T) + w) - T
    BY <2>1
  <2>8. Choice!Owed(n) + w = (d + 1) * w - p * T
    BY <2>2, <2>6
  <2>9. CASE n = b
    <3>1. Choice!Owed(n)' = (d + 1) * w - (p + 1) * T
      BY <2>3, <2>4, <2>9
    <3>2. Choice!Owed(n)' = (Choice!Owed(n) + w) - T
      BY <2>2, <2>7, <3>1
    <3> QED BY <2>8, <2>9, <3>2 DEF w, p
  <2>10. CASE n # b
    <3>1. Choice!Owed(n)' = Choice!Owed(n) + w
      BY <2>3, <2>4, <2>8, <2>10
    <3> QED BY <2>8, <2>10, <3>1 DEF w, p
  <2> QED BY <2>9, <2>10
<1>13. ASSUME overlaps = 0 PROVE Choice!WithinBounds'
  <2> DEFINE B == T + (T - 1) * (L - 2)
  <2>1. B \in Int
    BY <1>2
  <2>2. ASSUME NEW n \in S
        PROVE  /\ cw[n] \in Int /\ Choice!Owed(n) \in Int /\ -T < Choice!Owed(n) /\ 2 * Choice!Owed(n) <= B
               /\ cw[n] = Choice!Owed(n) + Weights[n]
               /\ Choice!Owed(n)' = IF n = b THEN cw[n] - T ELSE cw[n]
    <3>1. debt[n] = 0 /\ Choice!Owed(n) \in Choice!Bounds
      BY <1>13, ChoiceFacts DEF Choice!WithinBounds
    <3>2. Weights[n] \in Int /\ cw[n] \in Int
      BY <1>2
    <3>3. cw[n] = Choice!Owed(n) + Weights[n]
      BY <1>9, <3>1, <3>2
    <3>4. /\ Choice!Owed(n) \in Int /\ -T < Choice!Owed(n) /\ 2 * Choice!Owed(n) <= B
      BY <3>1 DEF Choice!Bounds
    <3>5. Choice!Owed(n)' = IF n = b THEN cw[n] - T ELSE cw[n]
      <4>1. Choice!Owed(n)' = IF n = b THEN (Choice!Owed(n) + Weights[n]) - T ELSE Choice!Owed(n) + Weights[n]
        BY <1>10
      <4> HIDE DEF T, b
      <4> QED BY <3>3, <4>1
    <3> QED BY <3>2, <3>3, <3>4, <3>5
  <2>3. \A n \in S : -T < cw[n]
    <3> SUFFICES ASSUME NEW n \in S PROVE -T < cw[n]
      OBVIOUS
    <3>1. Weights[n] \in Nat /\ T \in Nat
      BY <1>2
    <3> HIDE DEF T
    <3> QED BY <2>2, <3>1
  <2>4. cw[b] > 0 /\ \A k \in S : k # b => 2 * cw[k] <= B
    <3>1. \A n \in S : cw[n] = (d + 1) * Weights[n] - picks[n] * T
      BY <1>10, <2>2
    <3>2. d \in Nat /\ d = SumOf(picks, S)[S]
      BY <1>2
    <3> HIDE DEF d, b
    <3> QED BY <1>3, <1>4, <2>3, <3>1, <3>2, ChoiceBest
  <2> SUFFICES ASSUME NEW n \in S PROVE Choice!Owed(n)' \in Choice!Bounds
    BY DEF Choice!WithinBounds
  <2>5. T \in Int /\ cw[n] \in Int /\ Weights[n] \in Nat /\ Weights[n] <= T
    BY <1>2
  <2>6. CASE n = b
    <3>1. Choice!Owed(n)' = cw[n] - T /\ cw[n] > 0
      BY <2>2, <2>4, <2>6
    <3>2. Choice!Owed(n) \in Int /\ 2 * Choice!Owed(n) <= B /\ cw[n] = Choice!Owed(n) + Weights[n]
      BY <2>2
    <3> HIDE DEF B, T
    <3>3. cw[n] - T \in Int /\ -T < cw[n] - T /\ 2 * (cw[n] - T) <= B
      BY <2>1, <2>5, <3>1, <3>2
    <3> QED BY <3>1, <3>3 DEF Choice!Bounds, B, T
  <2>7. CASE n # b
    <3>1. Choice!Owed(n)' = cw[n] /\ -T < cw[n] /\ 2 * cw[n] <= B
      BY <2>2, <2>3, <2>4, <2>7
    <3> QED BY <2>5, <3>1 DEF Choice!Bounds
  <2> QED BY <2>6, <2>7
<1>14. Choice!Accounted(g)'
  <2> SUFFICES ASSUME NEW n \in S PROVE cw'[n] = Choice!Owed(n)' + debt'[n] + Choice!Added(g, n)'
    BY DEF Choice!Accounted
  <2>1. Choice!Added(g, n)' = 0
    BY <1>5 DEF Choice!Added
  <2>2. cw'[n] = IF n = b THEN cw[n] - T ELSE cw[n]
    BY <1>6
  <2>3. cw[n] \in Int /\ T \in Int /\ debt[n] \in Int /\ Weights[n] \in Int
    BY <1>2
  <2>4. Choice!Owed(n) \in Int /\ cw[n] = Choice!Owed(n) + debt[n] + Weights[n]
    BY <1>9
  <2>5. Choice!Owed(n)' = IF n = b THEN (Choice!Owed(n) + Weights[n]) - T ELSE Choice!Owed(n) + Weights[n]
    BY <1>10
  <2> HIDE DEF T, b
  <2> QED BY <1>5, <2>1, <2>2, <2>3, <2>4, <2>5
<1>15. Choice!InCall(g)'
  BY <1>5 DEF Choice!InCall
<1> QED BY <1>13, <1>14, <1>15

\* A step of a call that no other one overlaps.
LEMMA ChoiceLone ==
    ASSUME Choice!ChoiceInv, ~mixed, NEW g \in Goroutines, Choice!OthersIdle(g),
           \/ Choice!Call(g) \/ Choice!AddRead(g) \/ Choice!AddWrite(g)
           \/ Choice!Compare(g) \/ Choice!TakeRead(g) \/ Choice!TakeWrite(g)
    PROVE  Choice!ChoiceInv'
<1>1. /\ Choice!ChoiceType' /\ \A h \in Goroutines : Choice!InRange(h)'
      /\ \A h \in Goroutines \ {g} : at'[h] = at[h]
  BY ChoiceRange
<1>2. Choice!Accounted(g)' /\ Choice!InCall(g)' /\ (overlaps = 0 => Choice!WithinBounds')
  BY ChoiceCall, ChoiceAddRead, ChoiceAddWrite, ChoiceCompare, ChoiceTakeRead, ChoiceTakeWrite
<1>3. mixed' = FALSE /\ debt' = debt /\ overlaps' = overlaps
  BY ChoiceFacts DEF Choice!Call, Choice!AddRead, Choice!AddWrite, Choice!Compare, Choice!TakeRead,
     Choice!TakeWrite, Choice!history, Choice!ChoiceType
<1>4. \A h \in Goroutines \ {g} : at'[h] = "idle"
  BY <1>1 DEF Choice!OthersIdle
<1>5. Choice!OthersIdle(g)'
  BY <1>4 DEF Choice!OthersIdle
<1>6. \A h \in Goroutines : at'[h] = "idle" \/ Choice!OthersIdle(h)'
  <2> SUFFICES ASSUME NEW h \in Goroutines PROVE at'[h] = "idle" \/ Choice!OthersIdle(h)'
    OBVIOUS
  <2>1. CASE h = g
    BY <1>5, <2>1
  <2>2. CASE h # g
    BY <1>4, <2>2
  <2> QED BY <2>1, <2>2
<1>7. ASSUME NEW h \in Goroutines, Choice!OthersIdle(h)' PROVE Choice!Accounted(h)' /\ Choice!InCall(h)'
  <2>1. CASE h = g
    BY <1>2, <2>1
  <2>2. CASE h # g
    <3>1. at'[g] = "idle" /\ at'[h] = "idle"
      BY <1>4, <1>7, <2>2 DEF Choice!OthersIdle
    <3>2. \A n \in Choice!Nodes : Choice!Added(h, n)' = Choice!Added(g, n)'
      BY <3>1 DEF Choice!Added
    <3>3. Choice!Accounted(h)'
      BY <1>2, <3>2 DEF Choice!Accounted
    <3> QED BY <3>1, <3>3 DEF Choice!InCall
  <2> QED BY <2>1, <2>2
<1>8. Choice!Lone'
  BY <1>6, <1>7 DEF Choice!Lone
<1>9. overlaps' = 0 => Choice!WithinBounds' /\ \A n \in Choice!Nodes : debt'[n] = 0
  BY <1>2, <1>3, ChoiceFacts
<1> QED BY <1>1, <1>3, <1>8, <1>9 DEF Choice!ChoiceInv

\* A call that begins during another one.
LEMMA ChoiceBeginsMixed ==
    ASSUME Choice!ChoiceInv, NEW g \in Goroutines, ~Choice!OthersIdle(g), Choice!Call(g)
    PROVE  Choice!ChoiceInv'
<1>1. Choice!ChoiceType' /\ \A h \in Goroutines : Choice!InRange(h)'
  BY ChoiceRange
<1>2. overlaps \in Nat /\ at \in [Goroutines -> {"idle", "read", "write", "compare", "takeRead", "takeWrite"}]
  BY DEF Choice!ChoiceInv, Choice!ChoiceType
<1>3. mixed' = TRUE /\ overlaps' = overlaps + 1 /\ at' = [at EXCEPT ![g] = "read"]
  BY DEF Choice!Call, Choice!Goto
<1>4. at'[g] # "idle" /\ overlaps' # 0
  BY <1>2, <1>3
<1>5. ~Choice!Idle'
  BY <1>4 DEF Choice!Idle
<1> QED BY <1>1, <1>3, <1>4, <1>5 DEF Choice!ChoiceInv

\* While calls overlap, nothing is claimed; the last of them to return leaves its
\* currentWeights as the new debt.
LEMMA ChoiceMixed ==
    ASSUME Choice!ChoiceInv, mixed, NEW g \in Goroutines,
           \/ Choice!Call(g) \/ Choice!AddRead(g) \/ Choice!AddWrite(g)
           \/ Choice!Compare(g) \/ Choice!TakeRead(g) \/ Choice!TakeWrite(g)
    PROVE  Choice!ChoiceInv'
<1>1. /\ Choice!ChoiceType' /\ \A h \in Goroutines : Choice!InRange(h)'
      /\ \A h \in Goroutines \ {g} : at'[h] = at[h]
  BY ChoiceRange
<1>2. /\ ~Choice!Idle /\ overlaps # 0
      /\ at \in [Goroutines -> {"idle", "read", "write", "compare", "takeRead", "takeWrite"}]
  BY DEF Choice!ChoiceInv, Choice!ChoiceType
<1>3. CASE Choice!Call(g)
  <2>1. ~Choice!OthersIdle(g)
    BY <1>2, <1>3 DEF Choice!Idle, Choice!OthersIdle, Choice!Call
  <2> QED BY <1>3, <2>1, ChoiceBeginsMixed
<1>4. CASE \/ Choice!AddRead(g) \/ Choice!AddWrite(g) \/ Choice!Compare(g) \/ Choice!TakeRead(g)
  <2>1. mixed' = mixed /\ overlaps' = overlaps
    BY <1>4 DEF Choice!AddRead, Choice!AddWrite, Choice!Compare, Choice!TakeRead, Choice!history
  <2>2. at'[g] # "idle"
    BY <1>2, <1>4 DEF Choice!AddRead, Choice!AddWrite, Choice!Compare, Choice!TakeRead, Choice!Goto
  <2>3. ~Choice!Idle'
    BY <2>2 DEF Choice!Idle
  <2> QED BY <1>1, <1>2, <2>1, <2>3 DEF Choice!ChoiceInv
<1>5. CASE Choice!TakeWrite(g)
  <2>1. mixed' = ~Choice!OthersIdle(g) /\ overlaps' = overlaps /\ at'[g] = "idle"
    BY <1>2, <1>5 DEF Choice!TakeWrite, Choice!Goto
  <2>2. CASE ~Choice!OthersIdle(g)
    <3>1. ~Choice!Idle'
      BY <1>1, <2>2 DEF Choice!Idle, Choice!OthersIdle
    <3> QED BY <1>1, <1>2, <2>1, <2>2, <3>1 DEF Choice!ChoiceInv
  <2>3. CASE Choice!OthersIdle(g)
    <3>1. \A h \in Goroutines : at'[h] = "idle"
      BY <1>1, <2>1, <2>3 DEF Choice!OthersIdle
    <3>2. debt' = [n \in Choice!Nodes |-> cw'[n] - Choice!Owed(n)']
      BY <1>5, <2>3 DEF Choice!TakeWrite
    <3>3. \A n \in Choice!Nodes : Choice!Owed(n)' \in Int /\ cw'[n] \in Int
      BY <1>1, ChoiceOwedPrime DEF Choice!ChoiceType
    <3>4. \A h \in Goroutines : Choice!Accounted(h)'
      <4> SUFFICES ASSUME NEW h \in Goroutines, NEW n \in Choice!Nodes
                   PROVE  cw'[n] = Choice!Owed(n)' + debt'[n] + Choice!Added(h, n)'
        BY DEF Choice!Accounted
      <4>1. Choice!Added(h, n)' = 0
        BY <3>1 DEF Choice!Added
      <4> QED BY <3>2, <3>3, <4>1
    <3>5. \A h \in Goroutines : Choice!InCall(h)'
      BY <3>1 DEF Choice!InCall
    <3>6. Choice!Lone'
      BY <3>1, <3>4, <3>5 DEF Choice!Lone
    <3> QED BY <1>1, <1>2, <2>1, <2>3, <3>6 DEF Choice!ChoiceInv
  <2> QED BY <2>2, <2>3
<1> QED BY <1>3, <1>4, <1>5

\* For any weights, any number of goroutines and of calls of Next
\* (WeightRoundRobinBalancer.Next): a call that overlaps no other one changes every
\* currentWeight by the change of what its node is owed, and by nothing else; so what
\* overlapping calls have lost or added twice is there for good, and does not grow.
\* Before any two calls overlap, no node gets a whole call more than its share, and
\* none falls behind by half as many calls as there are other nodes.
THEOREM ChoiceIsAccounted == Choice!Spec => []Choice!ChoiceInv
<1>1. Choice!Init => Choice!ChoiceInv
  BY ChoiceInit
<1>2. Choice!ChoiceInv /\ [Choice!Next]_(Choice!vars) => Choice!ChoiceInv'
  <2> SUFFICES ASSUME Choice!ChoiceInv, [Choice!Next]_(Choice!vars) PROVE Choice!ChoiceInv'
    OBVIOUS
  <2>1. CASE Choice!Next
    <3>1. PICK h \in Goroutines : \/ Choice!Call(h) \/ Choice!AddRead(h) \/ Choice!AddWrite(h)
                                  \/ Choice!Compare(h) \/ Choice!TakeRead(h) \/ Choice!TakeWrite(h)
      BY <2>1, Zenon DEF Choice!Next
    <3>2. CASE mixed
      BY <3>1, <3>2, ChoiceMixed
    <3>3. CASE ~mixed /\ Choice!OthersIdle(h)
      BY <3>1, <3>3, ChoiceLone
    <3>4. CASE ~mixed /\ ~Choice!OthersIdle(h)
      <4>1. at[h] = "idle"
        BY <3>4 DEF Choice!ChoiceInv, Choice!Lone
      <4>2. Choice!Call(h)
        BY <3>1, <4>1 DEF Choice!AddRead, Choice!AddWrite, Choice!Compare, Choice!TakeRead, Choice!TakeWrite
      <4> QED BY <3>4, <4>2, ChoiceBeginsMixed
    <3> QED BY <3>2, <3>3, <3>4
  <2>2. CASE UNCHANGED Choice!vars
    <3>1. /\ cw' = cw /\ at' = at /\ idx' = idx /\ best' = best /\ reg' = reg /\ picks' = picks
          /\ overlaps' = overlaps /\ mixed' = mixed /\ debt' = debt
      BY <2>2 DEF Choice!vars, Choice!local, Choice!history
    <3>2. (Choice!WithinBounds => Choice!WithinBounds')
          /\ \A n \in Choice!Nodes : Choice!Owed(n)' = Choice!Owed(n)
      BY <3>1, ChoiceOwedSame
    <3>3. \A h \in Goroutines : /\ Choice!OthersIdle(h)' = Choice!OthersIdle(h)
                                /\ Choice!InCall(h)' = Choice!InCall(h)
                                /\ Choice!InRange(h)' = Choice!InRange(h)
      BY <3>1, Zenon DEF Choice!OthersIdle, Choice!InCall, Choice!InRange
    <3>4. \A h \in Goroutines : Choice!Accounted(h) => Choice!Accounted(h)'
      <4>1. \A h \in Goroutines, n \in Choice!Nodes : Choice!Added(h, n)' = Choice!Added(h, n)
        BY <3>1, Zenon DEF Choice!Added
      <4> QED BY <3>1, <3>2, <4>1 DEF Choice!Accounted
    <3>5. Choice!Lone => Choice!Lone'
      BY <3>1, <3>3, <3>4 DEF Choice!Lone
    <3>6. Choice!ChoiceType'
      BY <3>1, Zenon DEF Choice!ChoiceType, Choice!ChoiceInv
    <3>7. Choice!Idle' = Choice!Idle
      BY <3>1, Zenon DEF Choice!Idle
    <3> QED BY <3>1, <3>2, <3>3, <3>5, <3>6, <3>7 DEF Choice!ChoiceInv
  <2> QED BY <2>1, <2>2
<1> QED BY <1>1, <1>2, PTL DEF Choice!Spec

\* The property that TLC checks, for any weights and any number of goroutines: the
\* choice is proportional after every call of Next until two calls have overlapped,
\* and from then on it is off by what the overlaps left and by no more.
THEOREM ChoiceProportional ==
    ASSUME Goroutines # {}
    PROVE  Choice!Spec => []ProportionalAtAllTimes
<1>1. Choice!ChoiceInv => ProportionalAtAllTimes
  <2> SUFFICES ASSUME Choice!ChoiceInv, Choice!Idle, NEW n \in Choice!Nodes
               PROVE  /\ cw[n] = Choice!Owed(n) + debt[n]
                      /\ overlaps = 0 => debt[n] = 0 /\ Choice!Owed(n) \in Choice!Bounds
    BY DEF ProportionalAtAllTimes, Choice!ProportionalAtAllTimes
  <2>1. PICK g \in Goroutines : TRUE
    OBVIOUS
  <2>2. ~mixed /\ at[g] = "idle" /\ Choice!OthersIdle(g)
    BY <2>1 DEF Choice!ChoiceInv, Choice!Idle, Choice!OthersIdle
  <2>3. /\ cw[n] = Choice!Owed(n) + debt[n] + Choice!Added(g, n)
        /\ Choice!Owed(n) \in Int /\ debt[n] \in Int
        /\ overlaps = 0 => debt[n] = 0 /\ Choice!Owed(n) \in Choice!Bounds
    BY <2>2, ChoiceFacts DEF Choice!Accounted, Choice!WithinBounds
  <2>4. Choice!Added(g, n) = 0
    BY <2>2 DEF Choice!Added
  <2> QED BY <2>3, <2>4
<1> QED BY <1>1, ChoiceIsAccounted, PTL
=============================================================================
