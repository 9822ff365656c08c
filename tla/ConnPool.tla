------------------------------ MODULE ConnPool ------------------------------
(***************************************************************************)
(* The connection pool (pkg/pool/pool.go): a buffered channel of idle      *)
(* connections, a count of the open ones and a mutex that covers the       *)
(* fields but not the channel, so that Get works on a channel that Release *)
(* is closing.  One step is one region under the mutex or one channel      *)
(* operation.  Clients hold one connection at a time and give it back with *)
(* Put or Close once; an idle connection may have timed out whenever Get   *)
(* looks at it.                                                            *)
(***************************************************************************)
EXTENDS Naturals, Sequences, FiniteSets

CONSTANTS
    Client,
    Conn,           \* identities of connections, used again once they are closed
    MaxCap, MaxIdle \* the Config that NewChannelPool accepts: MaxIdle =< MaxCap

VARIABLES
    hasPing,        \* the Config has a Ping function
    conns,          \* the channel of idle connections
    chClosed,       \* close(conns)
    released,       \* idleConnections, factory, ping and close are nil
    openedCount,
    sockets,        \* the connections that are open
    where,          \* per client: where it is
    hand,           \* per client: {} or the one connection it has
    release,        \* where the call of Release is
    abandoned,      \* connections given back after Release
    panicked        \* a goroutine called a nil function

poolVars == <<hasPing, conns, chClosed, released, openedCount, sockets, where, hand,
              release, abandoned, panicked>>

Init ==
    /\ hasPing \in BOOLEAN
    /\ conns = <<>> /\ chClosed = FALSE /\ released = FALSE
    /\ openedCount = 0
    /\ sockets = {}
    /\ where = [c \in Client |-> "away"]
    /\ hand = [c \in Client |-> {}]
    /\ release = "none"
    /\ abandoned = {}
    /\ panicked = FALSE

Goes(c, to) == where' = [where EXCEPT ![c] = to]
Fixed == <<hasPing, chClosed, released, release>>

\* getConns under the mutex: nil after Release.
Get(c) ==
    /\ where[c] = "away"
    /\ ~released
    /\ Goes(c, "select")
    /\ UNCHANGED <<Fixed, conns, openedCount, sockets, hand, abandoned, panicked>>

\* An idle connection is received; a closed channel still has its buffer.
GetReceives(c) ==
    /\ where[c] = "select" /\ conns # <<>>
    /\ conns' = Tail(conns)
    /\ hand' = [hand EXCEPT ![c] = {Head(conns)}]
    /\ Goes(c, "check")
    /\ UNCHANGED <<Fixed, openedCount, sockets, abandoned, panicked>>

\* The closed and empty channel gives nil; otherwise select takes its default.
GetReceivesNothing(c) ==
    /\ where[c] = "select" /\ conns = <<>>
    /\ Goes(c, IF chClosed THEN "away" ELSE "dial")
    /\ UNCHANGED <<Fixed, conns, openedCount, sockets, hand, abandoned, panicked>>

\* The idle timeout, the ping and the Closed flag.
GetChecks(c) ==
    /\ where[c] = "check"
    /\ \/ Goes(c, "discard") /\ UNCHANGED hand
       \/ hasPing /\ ~released /\ Goes(c, "ping") /\ UNCHANGED hand
       \/ /\ ~hasPing \/ released
          /\ hand[c] \subseteq sockets /\ Goes(c, "use") /\ UNCHANGED hand
       \/ /\ ~hasPing \/ released
          /\ ~(hand[c] \subseteq sockets)
          /\ Goes(c, "select") /\ hand' = [hand EXCEPT ![c] = {}]
    /\ UNCHANGED <<Fixed, conns, openedCount, sockets, abandoned, panicked>>

\* Ping reads c.ping again, without the mutex: Release may have cleared it.
Ping(c) ==
    /\ where[c] = "ping"
    /\ IF released THEN panicked' = TRUE /\ UNCHANGED where
       ELSE (Goes(c, "use") \/ Goes(c, "discard")) /\ UNCHANGED panicked
    /\ UNCHANGED <<Fixed, conns, openedCount, sockets, hand, abandoned>>

\* The default branch under the mutex: the limit, a released pool, the dial.
GetDials(c) ==
    /\ where[c] = "dial"
    /\ \/ /\ openedCount >= MaxCap \/ released
          /\ Goes(c, "away")
          /\ UNCHANGED <<openedCount, sockets, hand>>
       \/ /\ openedCount < MaxCap /\ ~released
          /\ \/ Goes(c, "away") /\ UNCHANGED <<openedCount, sockets, hand>>
             \/ \E s \in Conn :
                  /\ s \notin sockets
                  /\ sockets' = sockets \cup {s}
                  /\ hand' = [hand EXCEPT ![c] = {s}]
                  /\ openedCount' = openedCount + 1
                  /\ Goes(c, "use")
    /\ UNCHANGED <<Fixed, conns, abandoned, panicked>>

\* Fault: a connection that finds the pool full is dropped.
PutDrops(c) ==
    /\ where[c] = "use"
    /\ \/ /\ ~released /\ Len(conns) < MaxIdle
          /\ conns' = Append(conns, CHOOSE s \in hand[c] : TRUE)
          /\ hand' = [hand EXCEPT ![c] = {}]
          /\ Goes(c, "away")
       \/ /\ released \/ Len(conns) >= MaxIdle
          /\ Goes(c, "away")
          /\ hand' = [hand EXCEPT ![c] = {}]
          /\ UNCHANGED conns
    /\ UNCHANGED <<Fixed, openedCount, sockets, abandoned, panicked>>

\* Put under the mutex; a full or released pool closes the connection after it.
Put(c) ==
    /\ where[c] = "use"
    /\ \/ /\ ~released /\ Len(conns) < MaxIdle
          /\ conns' = Append(conns, CHOOSE s \in hand[c] : TRUE)
          /\ hand' = [hand EXCEPT ![c] = {}]
          /\ Goes(c, "away")
       \/ /\ released \/ Len(conns) >= MaxIdle
          /\ Goes(c, "close")
          /\ UNCHANGED <<conns, hand>>
    /\ UNCHANGED <<Fixed, openedCount, sockets, abandoned, panicked>>

\* Close, called by a client, by Put or by Get (which goes on to select).
\* After Release there is no function to close with.
Close(c) ==
    /\ where[c] \in {"use", "close", "discard"}
    /\ IF released
         THEN abandoned' = abandoned \cup hand[c] /\ UNCHANGED <<openedCount, sockets>>
         ELSE /\ openedCount' = openedCount - 1
              /\ sockets' = sockets \ hand[c]
              /\ UNCHANGED abandoned
    /\ hand' = [hand EXCEPT ![c] = {}]
    /\ Goes(c, IF where[c] = "discard" THEN "select" ELSE "away")
    /\ UNCHANGED <<Fixed, conns, panicked>>

\* Release: the fields under the mutex, then close(conns), then the buffer.
Release ==
    /\ release = "none"
    /\ released' = TRUE
    /\ release' = "unlocked"
    /\ UNCHANGED <<hasPing, conns, chClosed, openedCount, sockets, where, hand, abandoned, panicked>>

ReleaseCloses ==
    /\ release = "unlocked"
    /\ chClosed' = TRUE
    /\ release' = "draining"
    /\ UNCHANGED <<hasPing, conns, released, openedCount, sockets, where, hand, abandoned, panicked>>

ReleaseDrains ==
    /\ release = "draining"
    /\ IF conns = <<>> THEN release' = "done" /\ UNCHANGED <<conns, sockets>>
       ELSE /\ sockets' = sockets \ {Head(conns)}
            /\ conns' = Tail(conns)
            /\ UNCHANGED release
    /\ UNCHANGED <<hasPing, chClosed, released, openedCount, where, hand, abandoned, panicked>>

Next ==
    /\ ~panicked
    /\ \/ \E c \in Client :
            \/ Get(c) \/ GetReceives(c) \/ GetReceivesNothing(c) \/ GetChecks(c)
            \/ Ping(c) \/ GetDials(c) \/ Put(c) \/ Close(c)
       \/ Release \/ ReleaseCloses \/ ReleaseDrains

Spec == Init /\ [][Next]_poolVars

-----------------------------------------------------------------------------
\* Whatever Get, Put, Close and Release do at once: every open connection is
\* in one place, the channel or one client's hands, or was given back after
\* Release (pool.go:240, the one way to leak it); the count is exact until
\* Release and the limit holds; and the only panic is a Get that was past its
\* test of c.ping when Release cleared it (pool.go:161, 252).
EachConnInOnePlace ==
    /\ \A s \in sockets :
         Cardinality({c \in Client : s \in hand[c]})
           + Cardinality({i \in DOMAIN conns : conns[i] = s})
           = IF s \in abandoned THEN 0 ELSE 1
    /\ ~released => openedCount = Cardinality(sockets)
    /\ Cardinality(sockets) <= MaxCap
    /\ panicked => hasPing /\ released

\* Where a client has a connection in hand.
Holding == {"check", "ping", "use", "close", "discard"}

PoolTypeOK ==
    /\ where \in [Client -> {"away", "select", "dial"} \cup Holding]
    /\ hand \in [Client -> SUBSET Conn]
    /\ conns \in Seq(Conn) /\ \A i \in DOMAIN conns : conns[i] \in sockets
    /\ sockets \subseteq Conn /\ IsFiniteSet(sockets)
    /\ openedCount \in Nat
    /\ hasPing \in BOOLEAN /\ released \in BOOLEAN /\ panicked \in BOOLEAN
    /\ abandoned \subseteq sockets

\* No two clients, no two places of the channel, and no client and the channel
\* have the same connection, and none of them has one given back after Release.
Apart ==
    /\ \A c, d \in Client : c # d => hand[c] \cap hand[d] = {}
    /\ \A i, j \in DOMAIN conns : conns[i] = conns[j] => i = j
    /\ \A c \in Client, i \in DOMAIN conns : conns[i] \notin hand[c]
    /\ \A c \in Client : hand[c] \cap abandoned = {}
    /\ \A i \in DOMAIN conns : conns[i] \notin abandoned

\* A client has one open connection in hand, or none, as its place says.
HandsMatch ==
    \A c \in Client : IF where[c] \in Holding THEN \E s \in sockets : hand[c] = {s}
                      ELSE hand[c] = {}

NoneLost ==
    \A s \in sockets : \/ s \in abandoned
                       \/ \E c \in Client : s \in hand[c]
                       \/ \E i \in DOMAIN conns : conns[i] = s

Counted ==
    /\ release # "none" => released
    /\ ~released => abandoned = {} /\ openedCount = Cardinality(sockets)
    /\ Cardinality(sockets) <= MaxCap

OnlyPingPanics ==
    /\ \A c \in Client : where[c] = "ping" => hasPing
    /\ panicked => hasPing /\ released

\* EachConnInOnePlace with what it takes for every step to keep it.
PoolInv == PoolTypeOK /\ HandsMatch /\ Apart /\ NoneLost /\ Counted /\ OnlyPingPanics
=============================================================================
