----------------------------- MODULE WeightedRR -----------------------------
(***************************************************************************)
(* The weighted choice among the destinations of an HTTP rule,             *)
(* WeightRoundRobinBalancer in cmd/config.  Connection goroutines call     *)
(* Next on the same balancer without a lock: every read and every write of *)
(* a currentWeight is a step, so two calls may interleave anywhere.        *)
(* effectiveWeight always equals Weight: no code lowers it.                *)
(***************************************************************************)
EXTENDS Integers, Sequences, SequencesExt, FiniteSets

CONSTANTS Goroutines,   \* connections that select concurrently
          Weights,      \* Weights[i] is the Weight of node rss[i]
          MaxPicks,     \* bound: calls of Next
          MaxOverlaps   \* bound: calls of Next that begin during another one

Nodes == DOMAIN Weights
Total == FoldFunction(LAMBDA a, b : a + b, 0, Weights)

VARIABLES cw,       \* currentWeight of every node
          at,       \* "idle", "read", "write", "compare", "takeRead", "takeWrite"
          idx,      \* loop index
          best,     \* index of the best node so far, 0 for nil
          reg,      \* the value the goroutine has read
          picks,    \* picks[n]: calls of Next that returned node n's cluster
          overlaps, \* history: calls that began during another one
          mixed,    \* history: of the calls in progress, two have overlapped
          debt      \* history: what overlapping calls have left in currentWeight

local == <<idx, best, reg>>
history == <<overlaps, mixed, debt>>
vars == <<cw, at, local, picks, history>>

Done == FoldFunction(LAMBDA a, b : a + b, 0, picks)

OthersIdle(g) == \A h \in Goroutines \ {g} : at[h] = "idle"

\* What node n is owed: its share of the completed calls, less what it got, in
\* calls of which every one counts Total.
Owed(n) == Done * Weights[n] - picks[n] * Total

Init == /\ cw = [n \in Nodes |-> 0] /\ picks = [n \in Nodes |-> 0]
        /\ at = [g \in Goroutines |-> "idle"]
        /\ idx = [g \in Goroutines |-> 0] /\ best = idx /\ reg = idx
        /\ overlaps = 0 /\ mixed = FALSE /\ debt = cw

Goto(g, l) == at' = [at EXCEPT ![g] = l]

\* Next is called.
Call(g) == /\ at[g] = "idle" /\ Done + Cardinality({h \in Goroutines : at[h] # "idle"}) < MaxPicks
           /\ OthersIdle(g) \/ overlaps < MaxOverlaps
           /\ idx' = [idx EXCEPT ![g] = 1] /\ best' = [best EXCEPT ![g] = 0]
           /\ Goto(g, "read")
           /\ mixed' = ~OthersIdle(g)
           /\ overlaps' = IF OthersIdle(g) THEN overlaps ELSE overlaps + 1
           /\ UNCHANGED <<cw, reg, picks, debt>>

\* w.currentWeight += w.effectiveWeight: the read.
AddRead(g) == /\ at[g] = "read"
              /\ reg' = [reg EXCEPT ![g] = cw[idx[g]]]
              /\ Goto(g, "write")
              /\ UNCHANGED <<cw, idx, best, picks, history>>

\* Fault: the first node's weight is added on the first call only.
AddWriteOnce(g) == /\ at[g] = "write"
                   /\ cw' = [cw EXCEPT ![idx[g]] = IF idx[g] = 1 /\ Done > 0 THEN reg[g] ELSE reg[g] + Weights[idx[g]]]
                   /\ Goto(g, "compare")
                   /\ UNCHANGED <<local, picks, history>>

\* w.currentWeight += w.effectiveWeight: the write.
AddWrite(g) == /\ at[g] = "write"
               /\ cw' = [cw EXCEPT ![idx[g]] = reg[g] + Weights[idx[g]]]
               /\ Goto(g, "compare")
               /\ UNCHANGED <<local, picks, history>>

\* best becomes w if it weighs more; the loop goes on or ends.
Compare(g) == /\ at[g] = "compare"
              /\ best' = [best EXCEPT ![g] = IF @ = 0 \/ cw[idx[g]] > cw[IF @ = 0 THEN 1 ELSE @] THEN idx[g] ELSE @]
              /\ idx' = [idx EXCEPT ![g] = @ + 1]
              /\ Goto(g, IF idx[g] < Len(Weights) THEN "read" ELSE "takeRead")
              /\ UNCHANGED <<cw, reg, picks, history>>

\* best.currentWeight -= total: the read.
TakeRead(g) == /\ at[g] = "takeRead"
               /\ reg' = [reg EXCEPT ![g] = cw[best[g]]]
               /\ Goto(g, "takeWrite")
               /\ UNCHANGED <<cw, idx, best, picks, history>>

\* best.currentWeight -= total: the write; Next returns best's cluster.
TakeWrite(g) == /\ at[g] = "takeWrite"
                /\ cw' = [cw EXCEPT ![best[g]] = reg[g] - Total]
                /\ picks' = [picks EXCEPT ![best[g]] = @ + 1]
                /\ Goto(g, "idle")
                /\ mixed' = (mixed /\ ~OthersIdle(g))
                /\ debt' = IF mixed /\ OthersIdle(g) THEN [n \in Nodes |-> (cw[n] - Owed(n))'] ELSE debt
                /\ UNCHANGED <<local, overlaps>>

Next == \E g \in Goroutines : \/ Call(g) \/ AddRead(g) \/ AddWrite(g) \/ Compare(g)
                              \/ TakeRead(g) \/ TakeWrite(g)

Spec == Init /\ [][Next]_vars

----------------------------------------------------------------------------
Idle == \A g \in Goroutines : at[g] = "idle"

\* How far a node may be ahead and behind: by less than one call, and by at most
\* about half as many calls as there are other nodes.
Bounds == {x \in Int : -Total < x /\ 2 * x <= Total + (Total - 1) * (Len(Weights) - 2)}
WithinBounds == \A n \in Nodes : Owed(n) \in Bounds

\* The choice is fair at every moment, not only on average, however many
\* goroutines call Next, as long as no two calls overlap: after k calls node n has
\* been returned as often as its share k * Weight / Total says, to within one call
\* more and, of three nodes, one call less.  What overlapping calls have done to a
\* currentWeight (weightRoundRobinBalancer.go:45 and :61 are not atomic) stays in
\* it: later calls that do not overlap neither repair it nor make it worse.
ProportionalAtAllTimes ==
    Idle => \A n \in Nodes : /\ cw[n] = Owed(n) + debt[n]
                             /\ overlaps = 0 => debt[n] = 0 /\ Owed(n) \in Bounds

\* What g has added to currentWeight of n in the call that it is in.
Added(g, n) ==
    IF at[g] # "idle" /\ (n < idx[g] \/ (n = idx[g] /\ at[g] = "compare")) THEN Weights[n] ELSE 0

ChoiceType ==
    /\ cw \in [Nodes -> Int] /\ picks \in [Nodes -> Nat]
    /\ at \in [Goroutines -> {"idle", "read", "write", "compare", "takeRead", "takeWrite"}]
    /\ idx \in [Goroutines -> Int] /\ best \in [Goroutines -> Int] /\ reg \in [Goroutines -> Int]
    /\ overlaps \in Nat /\ mixed \in BOOLEAN /\ debt \in [Nodes -> Int]

\* Where a call is; whatever others do, it has a best node when it needs one.
InRange(g) ==
    /\ at[g] \in {"read", "write", "compare"} => idx[g] \in Nodes
    /\ at[g] \in {"takeRead", "takeWrite"} => idx[g] = Len(Weights) + 1
    /\ at[g] # "idle" => IF idx[g] = 1 THEN best[g] = 0 ELSE best[g] \in 1 .. (idx[g] - 1)

\* With no other call in progress, every currentWeight is what the node is owed,
\* what earlier overlaps left and what this call has added;
Accounted(g) == \A n \in Nodes : cw[n] = Owed(n) + debt[n] + Added(g, n)

\* best has the most of those looked at, and what was read is still there.
InCall(g) ==
    /\ at[g] # "idle" => \A n \in 1 .. (idx[g] - 1) : cw[n] <= cw[best[g]]
    /\ at[g] = "write" => reg[g] = cw[idx[g]]
    /\ at[g] = "takeWrite" => reg[g] = cw[best[g]]

\* The calls in progress have not overlapped: there is one at most.
Lone == /\ \A g \in Goroutines : at[g] = "idle" \/ OthersIdle(g)
        /\ \A g \in Goroutines : OthersIdle(g) => Accounted(g) /\ InCall(g)

ChoiceInv ==
    /\ ChoiceType
    /\ \A g \in Goroutines : InRange(g)
    /\ mixed => ~Idle
    /\ ~mixed => Lone
    /\ overlaps = 0 => ~mixed /\ WithinBounds /\ \A n \in Nodes : debt[n] = 0
=============================================================================
