------------------------------ MODULE MCAgent ------------------------------
(* Parts of the agent that share no state: the tunnel, service routing,    *)
(* the weighted choice, the connection pool, the life of the process and   *)
(* the replacement of its executable.  A behaviour runs one of them (part) *)
(* and leaves the others as they start.                                    *)
EXTENDS Tunnel, RoutingInputs

CONSTANTS Files, Requests, Lower, Wrap, MaxStarts, Goroutines, Weights, MaxPicks, MaxOverlaps,
          Client, Conn, MaxCap, MaxIdle, MaxGen, Link, Download, MaxVer, Inode, MaxBak

ASSUME LifeAssumption == MaxGen \in Nat
ASSUME PoolAssumption == MaxCap \in Nat
ASSUME WeightsAssumption == Weights \in Seq(Nat) /\ \E n \in DOMAIN Weights : Weights[n] > 0
ASSUME UpdateAssumption == MaxVer \in Nat /\ MaxBak \in Nat /\ 1 \in Inode /\ 0 \notin Inode

VARIABLES part,
          file, cache, up, maps, next, saveC, saver, saveFailed, timer, starts, loaded,
          cw, at, idx, best, reg, picks, overlaps, mixed, debt,
          hasPing, conns, chClosed, released, openedCount, sockets, where, hand,
          release, abandoned, panicked,
          udpFixed, stage, started, draining, link, ended, served,
          dir, image, running, runName, get, exeLost

routingVars == <<file, cache, up, maps, next, saveC, saver, saveFailed, timer, starts, loaded>>
choiceVars == <<cw, at, idx, best, reg, picks, overlaps, mixed, debt>>
poolVars == <<hasPing, conns, chClosed, released, openedCount, sockets, where, hand,
              release, abandoned, panicked>>
lifeVars == <<udpFixed, stage, started, draining, link, ended, served>>
updateVars == <<dir, image, running, runName, get, exeLost>>

Router == INSTANCE Routing
Choice == INSTANCE WeightedRR
Pool == INSTANCE ConnPool
Life == INSTANCE Lifecycle
Update == INSTANCE SelfUpdate

ASSUME RoutingAssumption == Router!FilesAssumption

MCWeights == <<5, 1, 2>>

MCInit ==
    /\ part \in {"tunnel", "routing", "choice", "pool", "life", "update"}
    /\ Init /\ Choice!Init /\ Life!Init /\ Update!Init
    /\ Router!Init /\ (part # "routing" => file = <<>>)
    /\ Pool!Init /\ (part # "pool" => hasPing) /\ (part # "life" => udpFixed)

MCNext ==
    \/ part = "tunnel" /\ Next
       /\ UNCHANGED <<part, routingVars, choiceVars, poolVars, lifeVars, updateVars>>
    \/ part = "routing" /\ Router!Next
       /\ UNCHANGED <<part, vars, choiceVars, poolVars, lifeVars, updateVars>>
    \/ part = "choice" /\ Choice!Next
       /\ UNCHANGED <<part, vars, routingVars, poolVars, lifeVars, updateVars>>
    \/ part = "pool" /\ Pool!Next
       /\ UNCHANGED <<part, vars, routingVars, choiceVars, lifeVars, updateVars>>
    \/ part = "life" /\ Life!Next
       /\ UNCHANGED <<part, vars, routingVars, choiceVars, poolVars, updateVars>>
    \/ part = "update" /\ Update!Next
       /\ UNCHANGED <<part, vars, routingVars, choiceVars, poolVars, lifeVars>>

\* The fairness of Tunnel and of Routing; what it speaks of is not enabled in
\* the initial state of a part that does not run.
MCSpec ==
    /\ MCInit
    /\ [][MCNext]_<<part, vars, routingVars, choiceVars, poolVars, lifeVars, updateVars>>
    /\ Fairness /\ Router!Fairness

\* Match (data/config.go) does not depend on what earlier runs left in the cache.
HistoryFree == Router!HistoryFree

\* Match panics in three situations only.
PanicIsExplained == Router!PanicIsExplained

\* A running agent gets its tables into the cache file, unless its saves fail.
CacheCatchesUp == Router!CacheCatchesUp

\* WeightRoundRobinBalancer.Next is fair after every call.
ProportionalAtAllTimes == Choice!ProportionalAtAllTimes

\* No connection of the pool is lost, shared or counted wrongly (pool.go).
EachConnInOnePlace == Pool!EachConnInOnePlace

\* An upgrade never leaves the machine without a serving process (upgrade.go).
AlwaysInService == Life!AlwaysInService

\* An update never leaves the machine without an image to start (download.go).
AlwaysAnImage == Update!AlwaysAnImage
=============================================================================
