------------------------------ MODULE Lifecycle ------------------------------
(***************************************************************************)
(* Start, hot upgrade and shutdown of the agent: ProxyCmd.Run              *)
(* (cmd/proxy/server.go), ServerManager (cmd/server/server.go), upgrade.go *)
(* and the accept loop and Shutdown of each server.  A SIGHUP or the       *)
(* /upgrade handler starts a second process that inherits the TCP          *)
(* listeners; it starts its servers one after the other, and each accepts  *)
(* connections from then on.  When all are started it is ready, and the    *)
(* first process shuts its servers down one after the other.  Only the     *)
(* management server stops accepting: the accept loops of the inbound and  *)
(* outbound proxies run until their process has gone.  The UDP socket is   *)
(* not inherited and is bound without an option to share its port.         *)
(*                                                                         *)
(* tableflip is modelled from how the code uses it: Upgrade starts a child *)
(* unless one is starting or has taken over, the exit channel closes when  *)
(* the child has called Ready, and Ready fails when the parent has gone.   *)
(***************************************************************************)
EXTENDS Naturals, Sequences, SequencesExt

CONSTANTS
    MaxGen,         \* bound on process generations
    Link            \* client connections

VARIABLES
    udpFixed,       \* udp-proxy-port is a number (15009 by default) and not 0
    stage,          \* per generation: "none", "boot", "serve", "drain" or "gone"
    started,        \* per generation: how many servers Startup has started
    draining,       \* per generation: the server whose Shutdown is running
    link,           \* per connection: [gen, server, counted], gen 0 when there is none
    ended,          \* history: how processes ended, and whether that cut connections
    served          \* history: some process has been ready

lifeVars == <<udpFixed, stage, started, draining, link, ended, served>>

Gens == 1 .. MaxGen
\* The order of RegisterServer in ProxyCmd.Run.
ServerList == <<"mgr", "inbound", "outbound", "udp">>
NoLink == [gen |-> 0, server |-> "mgr", counted |-> FALSE]

Init ==
    /\ stage = [g \in Gens |-> IF g = 1 THEN "boot" ELSE "none"]
    /\ udpFixed \in BOOLEAN
    /\ started = [g \in Gens |-> 0]
    /\ draining = [g \in Gens |-> 0]
    /\ link = [k \in Link |-> NoLink]
    /\ ended = {}
    /\ served = FALSE

Of(g) == {k \in Link : link[k].gen = g}

\* The process ends, and with it the connections it has.
Exit(g, why) ==
    /\ stage' = [stage EXCEPT ![g] = "gone"]
    /\ ended' = ended \cup {[why |-> why, cut |-> Of(g) # {}]}
    /\ link' = [k \in Link |-> IF k \in Of(g) THEN NoLink ELSE link[k]]

\* The exit channel of the process that is being replaced closes.
DrainParent(g) ==
    draining' = [h \in Gens |-> IF h # g /\ stage[h] = "serve" THEN 1 ELSE draining[h]]

AfterReady(g, own) ==
    [h \in Gens |-> IF h = g THEN own ELSE IF stage[h] = "serve" THEN "drain" ELSE stage[h]]

\* The UDP port is taken from its Startup to its Shutdown.
HoldsUdp(g) ==
    /\ stage[g] \in {"boot", "serve", "drain"}
    /\ started[g] = Len(ServerList) /\ draining[g] <= Len(ServerList)

\* ServerManager.Startup starts the next server, which accepts from now on.
StartServer(g) ==
    /\ stage[g] = "boot" /\ started[g] < Len(ServerList)
    /\ (udpFixed /\ ServerList[started[g] + 1] = "udp") => \A h \in Gens : ~HoldsUdp(h)
    /\ started' = [started EXCEPT ![g] = @ + 1]
    /\ UNCHANGED <<udpFixed, stage, draining, link, ended, served>>

HasParent(g) == g = 1 \/ \E h \in Gens : stage[h] = "serve"

\* Fault: Ready is called before Startup.
ReadyFirst(g) ==
    /\ stage[g] = "boot" /\ HasParent(g)
    /\ DrainParent(g)
    /\ stage' = AfterReady(g, IF \E h \in Gens : stage[h] = "serve" THEN "boot" ELSE "serve")
    /\ served' = TRUE
    /\ UNCHANGED <<udpFixed, started, link, ended>>

\* All Startups have returned: upgrade.Ready tells the parent.
Ready(g) ==
    /\ stage[g] = "boot" /\ started[g] = Len(ServerList) /\ HasParent(g)
    /\ DrainParent(g)
    /\ stage' = AfterReady(g, "serve")
    /\ served' = TRUE
    /\ UNCHANGED <<udpFixed, started, link, ended>>

\* upgrade.Ready panics when it cannot tell the parent.
ReadyFails(g) ==
    /\ stage[g] = "boot" /\ started[g] = Len(ServerList) /\ ~HasParent(g)
    /\ Exit(g, "panic")
    /\ UNCHANGED <<udpFixed, started, draining, served>>

\* log.Fatal on the way: a missing option, no CA within CAInitTimeout, a Startup
\* that cannot open its listener, though servers before it are accepting; or the
\* parent kills a child that takes too long.  The parent's Upgrade returns an error.
BootFails(g) ==
    /\ stage[g] = "boot"
    /\ Exit(g, "fatal")
    /\ UNCHANGED <<udpFixed, started, draining, served>>

\* SIGHUP or /upgrade: refused while a child starts.
Upgrade(g) ==
    /\ stage[g] = "serve" /\ \A h \in Gens : stage[h] # "boot"
    /\ \E child \in Gens :
         /\ stage[child] = "none" /\ \A h \in 1 .. child - 1 : stage[h] # "none"
         /\ stage' = [stage EXCEPT ![child] = "boot"]
    /\ UNCHANGED <<udpFixed, started, draining, link, ended, served>>

-----------------------------------------------------------------------------
\* Accept: http.Server.Shutdown closes its listener, the proxies never do.
Accept(k, g, server) ==
    /\ link[k] = NoLink
    /\ server \in ToSet(SubSeq(ServerList, 1, started[g])) \ {"udp"}
    /\ stage[g] \in {"boot", "serve"} \/ (stage[g] = "drain" /\ server # "mgr")
    /\ link' = [link EXCEPT ![k] = [gen |-> g, server |-> server, counted |-> server = "mgr"]]
    /\ UNCHANGED <<udpFixed, stage, started, draining, ended, served>>

\* The goroutine of a proxy connection adds itself to NumOpen.
Count(k) ==
    /\ link[k].gen # 0 /\ ~link[k].counted
    /\ link' = [link EXCEPT ![k].counted = TRUE]
    /\ UNCHANGED <<udpFixed, stage, started, draining, ended, served>>

Finish(k) ==
    /\ link[k].gen # 0 /\ link[k].counted
    /\ link' = [link EXCEPT ![k] = NoLink]
    /\ UNCHANGED <<udpFixed, stage, started, draining, ended, served>>

\* An Accept error is ignored by the inbound proxy: the goroutine panics on
\* the nil connection and util.GO's log.Panic ends the process.
AcceptFails(g) ==
    /\ stage[g] \in {"boot", "serve", "drain"}
    /\ "inbound" \in ToSet(SubSeq(ServerList, 1, started[g]))
    /\ Exit(g, "panic")
    /\ UNCHANGED <<udpFixed, started, draining, served>>

-----------------------------------------------------------------------------
\* ServerManager.Shutdown: each server waits for the connections it counts;
\* the UDP proxy closes its sessions at once.
Shutdown(g) ==
    /\ stage[g] = "drain" /\ draining[g] <= Len(ServerList)
    /\ \A k \in Of(g) : ~(link[k].server = ServerList[draining[g]] /\ link[k].counted)
    /\ draining' = [draining EXCEPT ![g] = @ + 1]
    /\ UNCHANGED <<udpFixed, stage, started, link, ended, served>>

\* Run returns and main with it.
RunReturns(g) ==
    /\ stage[g] = "drain" /\ draining[g] > Len(ServerList)
    /\ Exit(g, "return")
    /\ UNCHANGED <<udpFixed, started, draining, served>>

\* The timer of upgrade.Stop: os.Exit 30 seconds after the drain began.
TimerFires(g) ==
    /\ stage[g] = "drain"
    /\ Exit(g, "timer")
    /\ UNCHANGED <<udpFixed, started, draining, served>>

Next ==
    \/ \E g \in Gens :
         \/ StartServer(g) \/ Ready(g) \/ ReadyFails(g) \/ BootFails(g)
         \/ Upgrade(g) \/ AcceptFails(g)
         \/ Shutdown(g) \/ RunReturns(g) \/ TimerFires(g)
         \/ \E k \in Link, s \in {"mgr", "inbound", "outbound"} : Accept(k, g, s)
    \/ \E k \in Link : Count(k) \/ Finish(k)

Spec == Init /\ [][Next]_lifeVars

-----------------------------------------------------------------------------
\* Through any number of upgrades, whatever fails while a new process starts
\* (server.go:105-193) and however the old one ends (upgrade.go:48-59), there
\* is a process in service once there has been one, unless it panicked.
AlwaysInService ==
    served => (\E g \in Gens : stage[g] = "serve") \/ (\E e \in ended : e.why = "panic")

\* With a fixed UDP port, which is the default (server.go:365), no process is ever
\* replaced: the child cannot bind the port (udp.go:58) while its parent has it,
\* and it cannot become ready without its parent.
FixedPortNeverHandsOver == udpFixed => \A g \in Gens : stage[g] # "drain"

\* A process starts its servers, is ready with all of them and then shuts them
\* down; the first one is ready before there is another.
InOrder(g) ==
    /\ stage[g] = "none" => started[g] = 0 /\ g # 1
    /\ stage[g] \in {"serve", "drain"} => started[g] = Len(ServerList)
    /\ stage[g] \notin {"drain", "gone"} => draining[g] = 0
    /\ (g = 1 /\ stage[g] = "boot") => \A h \in Gens \ {1} : stage[h] = "none"

\* What every step keeps: one process is in service and one starts at most, a
\* connection is with a process that lives, and one process at most has a fixed
\* UDP port.
LifeInv ==
    /\ udpFixed \in BOOLEAN
    /\ stage \in [Gens -> {"none", "boot", "serve", "drain", "gone"}]
    /\ started \in [Gens -> 0 .. Len(ServerList)]
    /\ draining \in [Gens -> Nat]
    /\ link \in [Link -> [gen : 0 .. MaxGen, server : {"mgr", "inbound", "outbound"},
                          counted : BOOLEAN]]
    /\ \A g, h \in Gens : (stage[g] = stage[h] /\ stage[g] \in {"boot", "serve"}) => g = h
    /\ \A k \in Link : link[k].gen # 0 => stage[link[k].gen] \in {"boot", "serve", "drain"}
    /\ \A g \in Gens : InOrder(g)
    /\ udpFixed => \A g, h \in Gens : HoldsUdp(g) /\ HoldsUdp(h) => g = h
    /\ FixedPortNeverHandsOver
    /\ AlwaysInService

\* readme.md:28 promises an upgrade that does not break connections in
\* progress.  The process that shuts down still accepts: a connection that
\* comes to a server whose Shutdown has returned is cut when Run returns, long
\* before the timer of 30 seconds.
UpgradeCutsNothing == [why |-> "return", cut |-> TRUE] \notin ended
=============================================================================
