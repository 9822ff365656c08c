-------------------------- MODULE IptablesProofs --------------------------
(***************************************************************************)
(* Proofs about the two iptables programs and the validation, for any      *)
(* options, any packets and any number of runs, failures and interrupted   *)
(* runs.                                                                   *)
(*                                                                         *)
(* The connections of the proxy are never sent back to it: the rules of    *)
(* the proxy's users and groups shelter those behind them, which could     *)
(* send a connection back, in the configuration, in every prefix of the    *)
(* commands, and in every kernel that the programs leave (ProgramsInv).    *)
(* An accepted connection to the probe port was redirected (ProbeInv).     *)
(* Behind a cleaner that could run all its commands, no chain that could   *)
(* redirect a TCP connection has a rule left (CleanInv).                   *)
(***************************************************************************)
EXTENDS MCIptables, LeastElement, SequenceTheorems, TLAPS

\* What FlattenSeq computes step by step.
LEMMA FlattenSteps ==
    ASSUME NEW R, NEW ss \in Seq(Seq(R)), ss # <<>>
    PROVE  \E f : /\ f = [i \in 1 .. Len(ss) |-> IF i = 1 THEN ss[i] ELSE f[i - 1] \o ss[i]]
                  /\ FlattenSeq(ss) = f[Len(ss)]
<1>1. Len(ss) \in Nat \ {0}
  BY EmptySeq
<1>2. \E f : f = [i \in 1 .. Len(ss) |-> IF i = 1 THEN ss[i] ELSE f[i - 1] \o ss[i]]
  BY <1>1, ConcatLoop
<1> DEFINE f0 == CHOOSE f : f = [i \in 1 .. Len(ss) |-> IF i = 1 THEN ss[i] ELSE f[i - 1] \o ss[i]]
<1>6. f0 = [i \in 1 .. Len(ss) |-> IF i = 1 THEN ss[i] ELSE f0[i - 1] \o ss[i]]
  BY <1>2, Zenon
<1>7. FlattenSeq(ss) = f0[Len(ss)]
  <2>1. Len(ss) # 0
    BY <1>1
  <2> QED BY <2>1, Zenon DEF FlattenSeq
<1> HIDE DEF f0
<1> QED BY <1>6, <1>7, Zenon
-----------------------------------------------------------------------------
(***************************************************************************)
(* What a chain does with a packet.                                        *)
(***************************************************************************)

\* The strings; the provers do not know of a literal that it is one.
Text == STRING \cup {
    "fam", "dir", "proto", "sport", "dport", "src", "dst", "iif", "oif", "uid", "gid", "ct",
    "mark", "connmark", "zone", "tcp", "udp", "lo", "none", "1", "2", "53", "15053", "15008",
    "1337", "1338", "lo1", "lo6", "INVALID", "ESTABLISHED", "RELATED", "raw", "mangle", "nat",
    "INPUT", "FORWARD", "POSTROUTING", "PREROUTING", "OUTPUT", "ISTIO_OUTPUT", "ISTIO_INBOUND",
    "ISTIO_REDIRECT", "ISTIO_IN_REDIRECT", "ISTIO_DIVERT", "ISTIO_TPROXY", "RETURN", "ACCEPT",
    "DROP", "REDIRECT", "TPROXY", "MARK", "CT", "NFLOG", "SAVEMARK", "RESTOREMARK"}

Fixed == {"fam", "dir", "proto", "sport", "dport", "src", "dst", "iif", "oif", "uid", "gid", "ct"}
PacketType == [Fixed \cup {"mark", "connmark", "zone"} -> Text]
Condition == Text \X BOOLEAN \X SUBSET Text
RuleType == [t : Text, c : Text, pos : Nat, m : SUBSET Condition, j : Text \X Text]

\* The same packet up to its marks.
Like(p, q) == \A f \in Fixed : q[f] = p[f]

\* No rule before rule i makes every packet like p leave the chain.
Reached(rules, i, p) ==
    \A h \in 1 .. (i - 1) : rules[h].j = Return =>
        \E q \in PacketType : Like(p, q) /\ ~Matches(rules[h].m, q)

\* Rule i decides: packet q, which is like p, gets verdict v from it, or from the
\* chain it names, which gives it verdict w.
Decides(rules, i, p, q, v, w) ==
    /\ i \in 1 .. Len(rules) /\ q \in PacketType /\ Like(p, q)
    /\ Matches(rules[i].m, q) /\ Reached(rules, i, p)
    /\ \/ rules[i].j[1] \in Verdicts /\ v = rules[i].j
       \/ ~Builtin(rules[i].j[1]) /\ v = w

\* What one rule makes of the state s of a traversal.
StepGives(r, s, b, x) ==
    /\ x = [over |-> x.over, v |-> x.v, p |-> x.p] /\ x.over \in BOOLEAN
    /\ x.p \in PacketType /\ Like(s.p, x.p)
    /\ s.over => x = s
    /\ ~s.over => /\ ~x.over => x.v \in {s.v, Return}
                  /\ r.j = Return /\ Matches(r.m, s.p) => x.over
                  /\ x.over /\ x.v # Return =>
                         /\ Matches(r.m, s.p)
                         /\ \/ r.j[1] \in Verdicts /\ x.v = r.j
                            \/ ~Builtin(r.j[1]) /\ x.v = b.v

\* One rule keeps the packet a packet, but for its marks.
LEMMA StepLike ==
    ASSUME NEW r \in RuleType, NEW s, s.p \in PacketType, s.over \in BOOLEAN,
           s = [over |-> s.over, v |-> s.v, p |-> s.p], NEW b,
           ~Builtin(r.j[1]) => b.p \in PacketType /\ Like(s.p, b.p)
    PROVE  StepGives(r, s, b, Step(r, s, b))
<1> USE DEF StepGives
<1> DEFINE marked(f, y) == [s EXCEPT !.p = [s.p EXCEPT ![f] = y]]
           Goal(x) == StepGives(r, s, b, x)
<1>0. r.j[1] \in Text /\ r.j[2] \in Text /\ r.j = <<r.j[1], r.j[2]>>
  BY DEF RuleType
<1>1. ASSUME NEW f \in {"mark", "connmark", "zone"}, NEW y \in Text
      PROVE  /\ marked(f, y) = [over |-> s.over, v |-> s.v, p |-> [s.p EXCEPT ![f] = y]]
             /\ [s.p EXCEPT ![f] = y] \in PacketType
             /\ Like(s.p, [s.p EXCEPT ![f] = y])
  <2>1. s.p \in [Fixed \cup {"mark", "connmark", "zone"} -> Text]
    BY DEF PacketType
  <2>2. [s.p EXCEPT ![f] = y] \in [Fixed \cup {"mark", "connmark", "zone"} -> Text]
    BY <2>1
  <2>3. Like(s.p, [s.p EXCEPT ![f] = y])
    BY <2>1 DEF Like, Fixed
  <2> QED BY <2>2, <2>3 DEF PacketType
<1>2. Like(s.p, s.p)
  BY DEF Like
<1>3. s.p["mark"] \in Text /\ s.p["connmark"] \in Text
  BY DEF PacketType
<1>4. CASE s.over \/ ~Matches(r.m, s.p)
  BY <1>2, <1>4 DEF Step, Verdicts
<1>5. CASE ~s.over /\ Matches(r.m, s.p)
  <2> DEFINE x == Step(r, s, b)
  <2>8. ASSUME NEW y \in PacketType, Like(s.p, y), x = [over |-> s.over, v |-> s.v, p |-> y], r.j # Return
        PROVE  Goal(x)
    <3> HIDE DEF x
    <3>9. Goal(x)
      BY <1>5, <2>8
    <3> QED BY <3>9 DEF x
  <2>1. CASE r.j[1] = "NFLOG"
    <3>1. x = s
      BY <1>5, <2>1 DEF Step, Verdicts
    <3>2. r.j # Return
      BY <2>1 DEF Return, Jump
    <3> QED BY <1>2, <2>8, <3>1, <3>2
  <2>2. CASE r.j[1] = "MARK"
    <3>1. x = marked("mark", r.j[2])
      BY <1>5, <2>2 DEF Step, Verdicts
    <3>2. r.j # Return
      BY <2>2 DEF Return, Jump
    <3> QED BY <1>0, <1>1, <1>3, <1>5, <2>8, <3>1, <3>2
  <2>3. CASE r.j[1] = "SAVEMARK"
    <3>1. x = marked("connmark", s.p["mark"])
      BY <1>5, <2>3 DEF Step, Verdicts
    <3>2. r.j # Return
      BY <2>3 DEF Return, Jump
    <3> QED BY <1>0, <1>1, <1>3, <1>5, <2>8, <3>1, <3>2
  <2>4. CASE r.j[1] = "RESTOREMARK"
    <3>1. x = marked("mark", s.p["connmark"])
      BY <1>5, <2>4 DEF Step, Verdicts
    <3>2. r.j # Return
      BY <2>4 DEF Return, Jump
    <3> QED BY <1>0, <1>1, <1>3, <1>5, <2>8, <3>1, <3>2
  <2>5. CASE r.j[1] = "CT"
    <3>1. x = IF s.p["zone"] = "0" THEN marked("zone", r.j[2]) ELSE s
      BY <1>5, <2>5 DEF Step, Verdicts
    <3>2. r.j # Return
      BY <2>5 DEF Return, Jump
    <3>3. CASE s.p["zone"] = "0"
      BY <1>0, <1>1, <2>8, <3>1, <3>2, <3>3
    <3>4. CASE s.p["zone"] # "0"
      BY <1>2, <2>8, <3>1, <3>2, <3>4
    <3> QED BY <3>3, <3>4
  <2>6. CASE r.j[1] \in Verdicts
    <3>1. x = [s EXCEPT !.over = TRUE, !.v = r.j]
      BY <1>5, <2>6 DEF Step, Verdicts
    <3>2. x = [over |-> TRUE, v |-> r.j, p |-> s.p]
      BY <3>1
    <3> HIDE DEF x
    <3>9. Goal(x)
      BY <1>0, <1>2, <1>5, <2>6, <3>2
    <3> QED BY <3>9 DEF x
  <2>7. CASE ~Builtin(r.j[1])
    <3>1. x = [over |-> b.v # Return, v |-> b.v, p |-> b.p]
      BY <1>5, <2>7 DEF Step, Builtin, Verdicts
    <3>2. r.j # Return
      BY <2>7 DEF Builtin, Verdicts, Return, Jump
    <3> HIDE DEF x
    <3>9. Goal(x)
      BY <1>5, <2>7, <3>1, <3>2
    <3> QED BY <3>9 DEF x
  <2> QED BY <2>1, <2>2, <2>3, <2>4, <2>5, <2>6, <2>7 DEF Builtin
<1> QED BY <1>4, <1>5

\* The traversal f of a chain, in which b[i] is what the chain that rule i names
\* would do: a verdict comes from a rule that the packet reaches and matches.
LEMMA TraceDecides ==
    ASSUME NEW rules \in Seq(RuleType), NEW p \in PacketType, NEW f, NEW b,
           f[0] = Undecided(p),
           \A i \in 1 .. Len(rules) : f[i] = Step(rules[i], f[i - 1], b[i]),
           \A i \in 1 .. Len(rules) : f[i - 1].p \in PacketType /\ ~Builtin(rules[i].j[1]) =>
                b[i].p \in PacketType /\ Like(f[i - 1].p, b[i].p)
    PROVE  /\ f[Len(rules)].p \in PacketType /\ Like(p, f[Len(rules)].p)
           /\ f[Len(rules)].v # Return =>
                \E i \in 1 .. Len(rules) :
                    Decides(rules, i, p, f[i - 1].p, f[Len(rules)].v, b[i].v)
<1> DEFINE Shape(m) == /\ f[m] = [over |-> f[m].over, v |-> f[m].v, p |-> f[m].p]
                       /\ f[m].over \in BOOLEAN
                       /\ f[m].p \in PacketType /\ Like(p, f[m].p)
           Open(m) == ~f[m].over => f[m].v = Return /\ Reached(rules, m + 1, p)
           By(m, v) == \E i \in 1 .. m : Decides(rules, i, p, f[i - 1].p, v, b[i].v)
           Good(m) == Shape(m) /\ Open(m) /\ (f[m].over /\ f[m].v # Return => By(m, f[m].v))
           S == {m \in Nat : m <= Len(rules) => Good(m)}
<1>1. Good(0)
  <2>1. f[0] = [over |-> FALSE, v |-> Return, p |-> p] /\ Like(p, p)
    BY DEF Undecided, Like
  <2>2. Reached(rules, 0 + 1, p)
    BY DEF Reached
  <2> QED BY <2>1, <2>2
<1>2. ASSUME NEW m \in Nat, m + 1 <= Len(rules), Good(m) PROVE Good(m + 1)
  <2>1. m + 1 \in 1 .. Len(rules) /\ (m + 1) - 1 = m /\ Len(rules) \in Nat
    BY <1>2
  <2> DEFINE r == rules[m + 1]
             s == f[m]
             x == f[m + 1]
             c == b[m + 1]
  <2>2. r \in RuleType /\ s.p \in PacketType /\ x = Step(r, s, c) /\ Like(p, s.p)
    BY <1>2, <2>1
  <2>3. ~Builtin(r.j[1]) => c.p \in PacketType /\ Like(s.p, c.p)
    BY <2>1, <2>2
  <2>4. s = [over |-> s.over, v |-> s.v, p |-> s.p] /\ s.over \in BOOLEAN
    BY <1>2
  <2>5. StepGives(r, s, c, x)
    <3> HIDE DEF r, s, x, c
    <3> QED BY <2>2, <2>3, <2>4, StepLike
  <2>6. Shape(m + 1)
    BY <2>2, <2>5 DEF StepGives, Like
  <2>7. CASE s.over
    <3>1. x = s
      BY <2>5, <2>7 DEF StepGives
    <3>2. By(m, s.v) => By(m + 1, s.v)
      <4> HIDE DEF s
      <4> QED OBVIOUS
    <3> QED BY <1>2, <2>6, <2>7, <3>1, <3>2
  <2>8. CASE ~s.over
    <3>1. s.v = Return /\ Reached(rules, m + 1, p)
      BY <1>2, <2>8
    <3>2. ~x.over => x.v = Return
      BY <2>5, <2>8, <3>1 DEF StepGives
    <3>3. ~x.over => Reached(rules, (m + 1) + 1, p)
      <4> SUFFICES ASSUME ~x.over, NEW h \in 1 .. (((m + 1) + 1) - 1), rules[h].j = Return
                   PROVE  \E q \in PacketType : Like(p, q) /\ ~Matches(rules[h].m, q)
        BY DEF Reached
      <4>1. CASE h = m + 1
        <5>1. ~Matches(rules[h].m, s.p)
          BY <2>5, <2>8, <4>1 DEF StepGives
        <5> QED BY <2>2, <5>1
      <4>2. CASE h \in 1 .. (m + 1) - 1
        BY <3>1, <4>2 DEF Reached
      <4> QED BY <4>1, <4>2
    <3>4. x.over /\ x.v # Return => Decides(rules, m + 1, p, f[(m + 1) - 1].p, x.v, c.v)
      BY <2>1, <2>2, <2>5, <2>8, <3>1 DEF StepGives, Decides
    <3>5. x.over /\ x.v # Return => By(m + 1, x.v)
      <4> HIDE DEF x
      <4>1. m + 1 \in 1 .. m + 1
        OBVIOUS
      <4> QED BY <3>4, <4>1
    <3> QED BY <2>6, <3>2, <3>3, <3>5
  <2> QED BY <2>4, <2>7, <2>8
<1>3. \A m \in Nat : m \in S
  <2> HIDE DEF Good
  <2>1. S \in SUBSET Nat /\ 0 \in S
    BY <1>1
  <2>2. ASSUME NEW m \in S PROVE m + 1 \in S
    BY <1>2
  <2> HIDE DEF S
  <2> QED BY <2>1, <2>2, SetInduction
<1>4. Len(rules) \in Nat
  OBVIOUS
<1>5. Good(Len(rules))
  <2> HIDE DEF Good
  <2> QED BY <1>3, <1>4
<1> QED BY <1>4, <1>5

\* What the traversal of an inmost chain computes step by step.
LEMMA InmostSteps ==
    ASSUME NEW k, NEW t, NEW c, NEW p, Len(k[<<t, c>>]) \in Nat
    PROVE  \E f : /\ f[0] = Undecided(p)
                  /\ \A i \in 1 .. Len(k[<<t, c>>]) : f[i] = Step(k[<<t, c>>][i], f[i - 1], Undecided(f[i - 1].p))
                  /\ Inmost(k, t, c, p) = f[Len(k[<<t, c>>])]
<1> DEFINE Next1(i, y) == Step(k[<<t, c>>][i], y, Undecided(y.p))
           Made(m) == \E f : f = [i \in 0 .. m |-> IF i = 0 THEN Undecided(p) ELSE Next1(i, f[i - 1])]
           S == {m \in Nat : Made(m)}
<1> HIDE DEF Next1
<1>1. Made(0)
  <2> DEFINE g == [i \in 0 .. 0 |-> Undecided(p)]
  <2>1. g = [i \in 0 .. 0 |-> IF i = 0 THEN Undecided(p) ELSE Next1(i, g[i - 1])]
    BY \A i \in 0 .. 0 : i = 0
  <2> HIDE DEF g
  <2> QED BY <2>1, Zenon
<1>2. ASSUME NEW m \in Nat, Made(m) PROVE Made(m + 1)
  <2>1. PICK f : f = [i \in 0 .. m |-> IF i = 0 THEN Undecided(p) ELSE Next1(i, f[i - 1])]
    BY <1>2
  <2>2. \A i \in 0 .. m : f[i] = IF i = 0 THEN Undecided(p) ELSE Next1(i, f[i - 1])
    BY <2>1, Zenon
  <2> DEFINE g == [i \in 0 .. m + 1 |-> IF i <= m THEN f[i] ELSE Next1(i, f[m])]
  <2>3. ASSUME NEW i \in 0 .. m + 1 PROVE g[i] = IF i = 0 THEN Undecided(p) ELSE Next1(i, g[i - 1])
    <3>1. CASE i <= m
      <4>1. i \in 0 .. m /\ (i # 0 => i - 1 \in 0 .. m + 1 /\ i - 1 <= m)
        BY <3>1
      <4> QED BY <2>2, <3>1, <4>1
    <3>2. CASE i = m + 1
      <4>1. i # 0 /\ i - 1 = m /\ ~(i <= m) /\ m \in 0 .. m + 1 /\ m <= m
        BY <3>2
      <4>2. g[i - 1] = f[m] /\ g[i] = Next1(i, f[m])
        BY <4>1
      <4> QED BY <4>1, <4>2
    <3>3. i <= m \/ i = m + 1
      OBVIOUS
    <3> QED BY <3>1, <3>2, <3>3
  <2>4. g = [i \in 0 .. m + 1 |-> IF i = 0 THEN Undecided(p) ELSE Next1(i, g[i - 1])]
    BY <2>3, Zenon
  <2> HIDE DEF g
  <2> QED BY <2>4, Zenon
<1>3. Made(Len(k[<<t, c>>]))
  <2> HIDE DEF Made
  <2>1. S \in SUBSET Nat /\ 0 \in S /\ \A m \in S : m + 1 \in S
    BY <1>1, <1>2
  <2> HIDE DEF S
  <2>2. Len(k[<<t, c>>]) \in S
    BY <2>1, SetInduction
  <2> QED BY <2>2 DEF S
<1> DEFINE f0 == CHOOSE f : f = [i \in 0 .. Len(k[<<t, c>>]) |-> IF i = 0 THEN Undecided(p) ELSE Next1(i, f[i - 1])]
<1>4. f0 = [i \in 0 .. Len(k[<<t, c>>]) |-> IF i = 0 THEN Undecided(p) ELSE Next1(i, f0[i - 1])]
  BY <1>3, Zenon
<1>5. Inmost(k, t, c, p) = f0[Len(k[<<t, c>>])]
  BY Zenon DEF Inmost, Traverse, Next1
<1> HIDE DEF f0
<1>6. f0[0] = Undecided(p) /\ \A i \in 1 .. Len(k[<<t, c>>]) : f0[i] = Next1(i, f0[i - 1])
  <2>1. \A i \in 0 .. Len(k[<<t, c>>]) : f0[i] = IF i = 0 THEN Undecided(p) ELSE Next1(i, f0[i - 1])
    BY <1>4, Zenon
  <2>2. 0 \in 0 .. Len(k[<<t, c>>]) /\ \A i \in 1 .. Len(k[<<t, c>>]) : i # 0 /\ i \in 0 .. Len(k[<<t, c>>])
    OBVIOUS
  <2> QED BY <2>1, <2>2, Zenon
<1> QED BY <1>5, <1>6, Zenon DEF Next1

\* The same of a chain in the middle.
LEMMA InnerSteps ==
    ASSUME NEW k, NEW t, NEW c, NEW p, Len(k[<<t, c>>]) \in Nat
    PROVE  \E f : /\ f[0] = Undecided(p)
                  /\ \A i \in 1 .. Len(k[<<t, c>>]) : f[i] = Step(k[<<t, c>>][i], f[i - 1], Inmost(k, t, k[<<t, c>>][i].j[1], f[i - 1].p))
                  /\ Inner(k, t, c, p) = f[Len(k[<<t, c>>])]
<1> DEFINE Next1(i, y) == Step(k[<<t, c>>][i], y, Inmost(k, t, k[<<t, c>>][i].j[1], y.p))
           Made(m) == \E f : f = [i \in 0 .. m |-> IF i = 0 THEN Undecided(p) ELSE Next1(i, f[i - 1])]
           S == {m \in Nat : Made(m)}
<1> HIDE DEF Next1
<1>1. Made(0)
  <2> DEFINE g == [i \in 0 .. 0 |-> Undecided(p)]
  <2>1. g = [i \in 0 .. 0 |-> IF i = 0 THEN Undecided(p) ELSE Next1(i, g[i - 1])]
    BY \A i \in 0 .. 0 : i = 0
  <2> HIDE DEF g
  <2> QED BY <2>1, Zenon
<1>2. ASSUME NEW m \in Nat, Made(m) PROVE Made(m + 1)
  <2>1. PICK f : f = [i \in 0 .. m |-> IF i = 0 THEN Undecided(p) ELSE Next1(i, f[i - 1])]
    BY <1>2
  <2>2. \A i \in 0 .. m : f[i] = IF i = 0 THEN Undecided(p) ELSE Next1(i, f[i - 1])
    BY <2>1, Zenon
  <2> DEFINE g == [i \in 0 .. m + 1 |-> IF i <= m THEN f[i] ELSE Next1(i, f[m])]
  <2>3. ASSUME NEW i \in 0 .. m + 1 PROVE g[i] = IF i = 0 THEN Undecided(p) ELSE Next1(i, g[i - 1])
    <3>1. CASE i <= m
      <4>1. i \in 0 .. m /\ (i # 0 => i - 1 \in 0 .. m + 1 /\ i - 1 <= m)
        BY <3>1
      <4> QED BY <2>2, <3>1, <4>1
    <3>2. CASE i = m + 1
      <4>1. i # 0 /\ i - 1 = m /\ ~(i <= m) /\ m \in 0 .. m + 1 /\ m <= m
        BY <3>2
      <4>2. g[i - 1] = f[m] /\ g[i] = Next1(i, f[m])
        BY <4>1
      <4> QED BY <4>1, <4>2
    <3>3. i <= m \/ i = m + 1
      OBVIOUS
    <3> QED BY <3>1, <3>2, <3>3
  <2>4. g = [i \in 0 .. m + 1 |-> IF i = 0 THEN Undecided(p) ELSE Next1(i, g[i - 1])]
    BY <2>3, Zenon
  <2> HIDE DEF g
  <2> QED BY <2>4, Zenon
<1>3. Made(Len(k[<<t, c>>]))
  <2> HIDE DEF Made
  <2>1. S \in SUBSET Nat /\ 0 \in S /\ \A m \in S : m + 1 \in S
    BY <1>1, <1>2
  <2> HIDE DEF S
  <2>2. Len(k[<<t, c>>]) \in S
    BY <2>1, SetInduction
  <2> QED BY <2>2 DEF S
<1> DEFINE f0 == CHOOSE f : f = [i \in 0 .. Len(k[<<t, c>>]) |-> IF i = 0 THEN Undecided(p) ELSE Next1(i, f[i - 1])]
<1>4. f0 = [i \in 0 .. Len(k[<<t, c>>]) |-> IF i = 0 THEN Undecided(p) ELSE Next1(i, f0[i - 1])]
  BY <1>3, Zenon
<1>5. Inner(k, t, c, p) = f0[Len(k[<<t, c>>])]
  BY Zenon DEF Inner, Traverse, Next1
<1> HIDE DEF f0
<1>6. f0[0] = Undecided(p) /\ \A i \in 1 .. Len(k[<<t, c>>]) : f0[i] = Next1(i, f0[i - 1])
  <2>1. \A i \in 0 .. Len(k[<<t, c>>]) : f0[i] = IF i = 0 THEN Undecided(p) ELSE Next1(i, f0[i - 1])
    BY <1>4, Zenon
  <2>2. 0 \in 0 .. Len(k[<<t, c>>]) /\ \A i \in 1 .. Len(k[<<t, c>>]) : i # 0 /\ i \in 0 .. Len(k[<<t, c>>])
    OBVIOUS
  <2> QED BY <2>1, <2>2, Zenon
<1> QED BY <1>5, <1>6, Zenon DEF Next1

\* The same of a hook.
LEMMA WalkSteps ==
    ASSUME NEW k, NEW t, NEW c, NEW p, Len(k[<<t, c>>]) \in Nat
    PROVE  \E f : /\ f[0] = Undecided(p)
                  /\ \A i \in 1 .. Len(k[<<t, c>>]) : f[i] = Step(k[<<t, c>>][i], f[i - 1], Inner(k, t, k[<<t, c>>][i].j[1], f[i - 1].p))
                  /\ Walk(k, t, c, p) = f[Len(k[<<t, c>>])]
<1> DEFINE Next1(i, y) == Step(k[<<t, c>>][i], y, Inner(k, t, k[<<t, c>>][i].j[1], y.p))
           Made(m) == \E f : f = [i \in 0 .. m |-> IF i = 0 THEN Undecided(p) ELSE Next1(i, f[i - 1])]
           S == {m \in Nat : Made(m)}
<1> HIDE DEF Next1
<1>1. Made(0)
  <2> DEFINE g == [i \in 0 .. 0 |-> Undecided(p)]
  <2>1. g = [i \in 0 .. 0 |-> IF i = 0 THEN Undecided(p) ELSE Next1(i, g[i - 1])]
    BY \A i \in 0 .. 0 : i = 0
  <2> HIDE DEF g
  <2> QED BY <2>1, Zenon
<1>2. ASSUME NEW m \in Nat, Made(m) PROVE Made(m + 1)
  <2>1. PICK f : f = [i \in 0 .. m |-> IF i = 0 THEN Undecided(p) ELSE Next1(i, f[i - 1])]
    BY <1>2
  <2>2. \A i \in 0 .. m : f[i] = IF i = 0 THEN Undecided(p) ELSE Next1(i, f[i - 1])
    BY <2>1, Zenon
  <2> DEFINE g == [i \in 0 .. m + 1 |-> IF i <= m THEN f[i] ELSE Next1(i, f[m])]
  <2>3. ASSUME NEW i \in 0 .. m + 1 PROVE g[i] = IF i = 0 THEN Undecided(p) ELSE Next1(i, g[i - 1])
    <3>1. CASE i <= m
      <4>1. i \in 0 .. m /\ (i # 0 => i - 1 \in 0 .. m + 1 /\ i - 1 <= m)
        BY <3>1
      <4> QED BY <2>2, <3>1, <4>1
    <3>2. CASE i = m + 1
      <4>1. i # 0 /\ i - 1 = m /\ ~(i <= m) /\ m \in 0 .. m + 1 /\ m <= m
        BY <3>2
      <4>2. g[i - 1] = f[m] /\ g[i] = Next1(i, f[m])
        BY <4>1
      <4> QED BY <4>1, <4>2
    <3>3. i <= m \/ i = m + 1
      OBVIOUS
    <3> QED BY <3>1, <3>2, <3>3
  <2>4. g = [i \in 0 .. m + 1 |-> IF i = 0 THEN Undecided(p) ELSE Next1(i, g[i - 1])]
    BY <2>3, Zenon
  <2> HIDE DEF g
  <2> QED BY <2>4, Zenon
<1>3. Made(Len(k[<<t, c>>]))
  <2> HIDE DEF Made
  <2>1. S \in SUBSET Nat /\ 0 \in S /\ \A m \in S : m + 1 \in S
    BY <1>1, <1>2
  <2> HIDE DEF S
  <2>2. Len(k[<<t, c>>]) \in S
    BY <2>1, SetInduction
  <2> QED BY <2>2 DEF S
<1> DEFINE f0 == CHOOSE f : f = [i \in 0 .. Len(k[<<t, c>>]) |-> IF i = 0 THEN Undecided(p) ELSE Next1(i, f[i - 1])]
<1>4. f0 = [i \in 0 .. Len(k[<<t, c>>]) |-> IF i = 0 THEN Undecided(p) ELSE Next1(i, f0[i - 1])]
  BY <1>3, Zenon
<1>5. Walk(k, t, c, p) = f0[Len(k[<<t, c>>])]
  BY Zenon DEF Walk, Traverse, Next1
<1> HIDE DEF f0
<1>6. f0[0] = Undecided(p) /\ \A i \in 1 .. Len(k[<<t, c>>]) : f0[i] = Next1(i, f0[i - 1])
  <2>1. \A i \in 0 .. Len(k[<<t, c>>]) : f0[i] = IF i = 0 THEN Undecided(p) ELSE Next1(i, f0[i - 1])
    BY <1>4, Zenon
  <2>2. 0 \in 0 .. Len(k[<<t, c>>]) /\ \A i \in 1 .. Len(k[<<t, c>>]) : i # 0 /\ i \in 0 .. Len(k[<<t, c>>])
    OBVIOUS
  <2> QED BY <2>1, <2>2, Zenon
<1> QED BY <1>5, <1>6, Zenon DEF Next1

\* Every chain is a sequence of rules, and every chain that a rule names exists.
WellFormed(k) ==
    /\ DOMAIN k \subseteq Text \X Text
    /\ k \in [DOMAIN k -> Seq(RuleType)]
    /\ \A o \in DOMAIN k : \A i \in 1 .. Len(k[o]) :
            Builtin(k[o][i].j[1]) \/ <<o[1], k[o][i].j[1]>> \in DOMAIN k

\* The verdict of an inmost chain is that of one of its rules.
LEMMA InmostDecides ==
    ASSUME NEW k, WellFormed(k), NEW t, NEW c, <<t, c>> \in DOMAIN k, NEW p \in PacketType
    PROVE  /\ Inmost(k, t, c, p).p \in PacketType /\ Like(p, Inmost(k, t, c, p).p)
           /\ Inmost(k, t, c, p).v # Return =>
                \E i \in 1 .. Len(k[<<t, c>>]), q \in PacketType :
                    Decides(k[<<t, c>>], i, p, q, Inmost(k, t, c, p).v, Return)
<1> DEFINE rules == k[<<t, c>>]
<1>1. rules \in Seq(RuleType) /\ Len(rules) \in Nat
  BY DEF WellFormed
<1>2. PICK f : /\ f[0] = Undecided(p)
               /\ \A i \in 1 .. Len(rules) :
                    f[i] = Step(rules[i], f[i - 1], Undecided(f[i - 1].p))
               /\ Inmost(k, t, c, p) = f[Len(rules)]
  BY <1>1, InmostSteps
<1> DEFINE b == [i \in 1 .. Len(rules) |-> Undecided(f[i - 1].p)]
<1> HIDE DEF rules
<1>3. \A i \in 1 .. Len(rules) : b[i].p = f[i - 1].p /\ b[i].v = Return
  BY DEF Undecided
<1>4. f[0] = Undecided(p) /\ \A i \in 1 .. Len(rules) : f[i] = Step(rules[i], f[i - 1], b[i])
  BY <1>2
<1> HIDE DEF b
<1>5. \A i \in 1 .. Len(rules) : f[i - 1].p \in PacketType /\ ~Builtin(rules[i].j[1]) =>
                b[i].p \in PacketType /\ Like(f[i - 1].p, b[i].p)
  BY <1>3 DEF Like
<1>6. /\ f[Len(rules)].p \in PacketType /\ Like(p, f[Len(rules)].p)
      /\ f[Len(rules)].v # Return =>
                \E i \in 1 .. Len(rules) :
                    Decides(rules, i, p, f[i - 1].p, f[Len(rules)].v, b[i].v)
  BY <1>1, <1>4, <1>5, TraceDecides
<1>7. ASSUME NEW i \in 1 .. Len(rules), Decides(rules, i, p, f[i - 1].p, f[Len(rules)].v, b[i].v)
      PROVE  f[i - 1].p \in PacketType /\ Decides(rules, i, p, f[i - 1].p, f[Len(rules)].v, Return)
  BY <1>3, <1>7 DEF Decides
<1> QED BY <1>2, <1>6, <1>7 DEF rules

\* The verdict of a chain in the middle is that of one of its rules, or of the
\* inmost chain that the rule names.
LEMMA InnerDecides ==
    ASSUME NEW k, WellFormed(k), NEW t, NEW c, <<t, c>> \in DOMAIN k, NEW p \in PacketType
    PROVE  /\ Inner(k, t, c, p).p \in PacketType /\ Like(p, Inner(k, t, c, p).p)
           /\ Inner(k, t, c, p).v # Return =>
                \E i \in 1 .. Len(k[<<t, c>>]), q \in PacketType :
                    Decides(k[<<t, c>>], i, p, q, Inner(k, t, c, p).v,
                            Inmost(k, t, k[<<t, c>>][i].j[1], q).v)
<1> DEFINE rules == k[<<t, c>>]
<1>1. rules \in Seq(RuleType) /\ Len(rules) \in Nat
  BY DEF WellFormed
<1>2. PICK f : /\ f[0] = Undecided(p)
               /\ \A i \in 1 .. Len(rules) :
                    f[i] = Step(rules[i], f[i - 1], Inmost(k, t, rules[i].j[1], f[i - 1].p))
               /\ Inner(k, t, c, p) = f[Len(rules)]
  BY <1>1, InnerSteps
<1> DEFINE b == [i \in 1 .. Len(rules) |-> Inmost(k, t, rules[i].j[1], f[i - 1].p)]
<1> HIDE DEF rules
<1>3. \A i \in 1 .. Len(rules) : b[i] = Inmost(k, t, rules[i].j[1], f[i - 1].p)
  OBVIOUS
<1>4. f[0] = Undecided(p) /\ \A i \in 1 .. Len(rules) : f[i] = Step(rules[i], f[i - 1], b[i])
  BY <1>2
<1> HIDE DEF b
<1>5. ASSUME NEW i \in 1 .. Len(rules), f[i - 1].p \in PacketType, ~Builtin(rules[i].j[1])
      PROVE  b[i].p \in PacketType /\ Like(f[i - 1].p, b[i].p)
  <2>1. <<t, rules[i].j[1]>> \in DOMAIN k
    BY <1>5 DEF WellFormed, rules
  <2>2. Inmost(k, t, rules[i].j[1], f[i - 1].p).p \in PacketType
        /\ Like(f[i - 1].p, Inmost(k, t, rules[i].j[1], f[i - 1].p).p)
    BY <1>5, <2>1, InmostDecides
  <2> QED BY <1>3, <2>2
<1>6. /\ f[Len(rules)].p \in PacketType /\ Like(p, f[Len(rules)].p)
      /\ f[Len(rules)].v # Return =>
                \E i \in 1 .. Len(rules) :
                    Decides(rules, i, p, f[i - 1].p, f[Len(rules)].v, b[i].v)
  BY <1>1, <1>4, <1>5, TraceDecides
<1>7. ASSUME NEW i \in 1 .. Len(rules), Decides(rules, i, p, f[i - 1].p, f[Len(rules)].v, b[i].v)
      PROVE  /\ f[i - 1].p \in PacketType
             /\ Decides(rules, i, p, f[i - 1].p, f[Len(rules)].v,
                         Inmost(k, t, rules[i].j[1], f[i - 1].p).v)
  BY <1>3, <1>7 DEF Decides
<1> QED BY <1>2, <1>6, <1>7 DEF rules

\* The verdict of a hook, in the same way.
LEMMA WalkDecides ==
    ASSUME NEW k, WellFormed(k), NEW t, NEW c, <<t, c>> \in DOMAIN k, NEW p \in PacketType
    PROVE  /\ Walk(k, t, c, p).p \in PacketType /\ Like(p, Walk(k, t, c, p).p)
           /\ Walk(k, t, c, p).v # Return =>
                \E i \in 1 .. Len(k[<<t, c>>]), q \in PacketType :
                    Decides(k[<<t, c>>], i, p, q, Walk(k, t, c, p).v,
                            Inner(k, t, k[<<t, c>>][i].j[1], q).v)
<1> DEFINE rules == k[<<t, c>>]
<1>1. rules \in Seq(RuleType) /\ Len(rules) \in Nat
  BY DEF WellFormed
<1>2. PICK f : /\ f[0] = Undecided(p)
               /\ \A i \in 1 .. Len(rules) :
                    f[i] = Step(rules[i], f[i - 1], Inner(k, t, rules[i].j[1], f[i - 1].p))
               /\ Walk(k, t, c, p) = f[Len(rules)]
  BY <1>1, WalkSteps
<1> DEFINE b == [i \in 1 .. Len(rules) |-> Inner(k, t, rules[i].j[1], f[i - 1].p)]
<1> HIDE DEF rules
<1>3. \A i \in 1 .. Len(rules) : b[i] = Inner(k, t, rules[i].j[1], f[i - 1].p)
  OBVIOUS
<1>4. f[0] = Undecided(p) /\ \A i \in 1 .. Len(rules) : f[i] = Step(rules[i], f[i - 1], b[i])
  BY <1>2
<1> HIDE DEF b
<1>5. ASSUME NEW i \in 1 .. Len(rules), f[i - 1].p \in PacketType, ~Builtin(rules[i].j[1])
      PROVE  b[i].p \in PacketType /\ Like(f[i - 1].p, b[i].p)
  <2>1. <<t, rules[i].j[1]>> \in DOMAIN k
    BY <1>5 DEF WellFormed, rules
  <2>2. Inner(k, t, rules[i].j[1], f[i - 1].p).p \in PacketType
        /\ Like(f[i - 1].p, Inner(k, t, rules[i].j[1], f[i - 1].p).p)
    BY <1>5, <2>1, InnerDecides
  <2> QED BY <1>3, <2>2
<1>6. /\ f[Len(rules)].p \in PacketType /\ Like(p, f[Len(rules)].p)
      /\ f[Len(rules)].v # Return =>
                \E i \in 1 .. Len(rules) :
                    Decides(rules, i, p, f[i - 1].p, f[Len(rules)].v, b[i].v)
  BY <1>1, <1>4, <1>5, TraceDecides
<1>7. ASSUME NEW i \in 1 .. Len(rules), Decides(rules, i, p, f[i - 1].p, f[Len(rules)].v, b[i].v)
      PROVE  /\ f[i - 1].p \in PacketType
             /\ Decides(rules, i, p, f[i - 1].p, f[Len(rules)].v,
                         Inner(k, t, rules[i].j[1], f[i - 1].p).v)
  BY <1>3, <1>7 DEF Decides
<1> QED BY <1>2, <1>6, <1>7 DEF rules

\* Where the elements of a flattened sequence come from, in which order.
FlattenPlaced(ss, m, s) ==
    /\ \A q \in 1 .. Len(s) : \E i \in 1 .. m : \E j \in 1 .. Len(ss[i]) :
            /\ s[q] = ss[i][j]
            /\ \A h \in 1 .. (i - 1) : \A l \in 1 .. Len(ss[h]) : \E o \in 1 .. (q - 1) : s[o] = ss[h][l]
            /\ \A l \in 1 .. (j - 1) : \E o \in 1 .. (q - 1) : s[o] = ss[i][l]
    /\ \A i \in 1 .. m : \A j \in 1 .. Len(ss[i]) : \E q \in 1 .. Len(s) : s[q] = ss[i][j]

\* A flattened sequence has the elements of the sequences it is made of, and
\* those of an earlier one before those of a later one.
LEMMA FlattenElements ==
    ASSUME NEW R, NEW ss \in Seq(Seq(R))
    PROVE  FlattenSeq(ss) \in Seq(R) /\ FlattenPlaced(ss, Len(ss), FlattenSeq(ss))
<1>1. CASE ss = <<>>
  <2>1. FlattenSeq(ss) = <<>>
    BY <1>1 DEF FlattenSeq
  <2>2. Len(ss) = 0 /\ <<>> \in Seq(R) /\ Len(<<>>) = 0 /\ 1 .. 0 = {}
    BY <1>1
  <2> QED BY <2>1, <2>2, Zenon DEF FlattenPlaced
<1>2. CASE ss # <<>>
  <2>1. PICK f : /\ f = [i \in 1 .. Len(ss) |-> IF i = 1 THEN ss[i] ELSE f[i - 1] \o ss[i]]
                 /\ FlattenSeq(ss) = f[Len(ss)]
    BY <1>2, FlattenSteps
  <2>2. \A i \in 1 .. Len(ss) : f[i] = IF i = 1 THEN ss[i] ELSE f[i - 1] \o ss[i]
    BY <2>1, Zenon
  <2>3. Len(ss) \in Nat /\ Len(ss) >= 1 /\ \A i \in 1 .. Len(ss) : ss[i] \in Seq(R)
    BY <1>2, EmptySeq
  <2> DEFINE Good(m) == f[m] \in Seq(R) /\ FlattenPlaced(ss, m, f[m])
             S == {m \in Nat : m + 1 <= Len(ss) => Good(m + 1)}
  <2>4. Good(1)
    <3>1. f[1] = ss[1] /\ ss[1] \in Seq(R) /\ Len(ss[1]) \in Nat
      BY <2>2, <2>3
    <3>2. \A i \in 1 .. 1 : i = 1
      OBVIOUS
    <3>3. \A q \in 1 .. Len(ss[1]) : \A l \in 1 .. (q - 1) : l \in 1 .. Len(ss[1])
      BY <3>1
    <3>4. \A l \in 1 .. (1 - 1) : FALSE
      OBVIOUS
    <3> QED BY <3>1, <3>2, <3>3, <3>4 DEF FlattenPlaced
  <2>5. ASSUME NEW m \in Nat \ {0}, m + 1 <= Len(ss), Good(m) PROVE Good(m + 1)
    <3> DEFINE s == f[m]
               t == ss[m + 1]
               u == f[m + 1]
    <3>1. u = s \o t /\ s \in Seq(R) /\ t \in Seq(R) /\ FlattenPlaced(ss, m, s)
      <4>1. m + 1 \in 1 .. Len(ss) /\ m + 1 # 1 /\ (m + 1) - 1 = m
        BY <2>3, <2>5
      <4> QED BY <2>2, <2>3, <2>5, <4>1
    <3> HIDE DEF s, u
    <3>2. /\ Len(s) \in Nat /\ Len(t) \in Nat /\ Len(u) = Len(s) + Len(t)
          /\ \A q \in 1 .. Len(s) : u[q] = s[q]
          /\ \A j \in 1 .. Len(t) : u[Len(s) + j] = t[j]
      BY <3>1
    <3>3. ASSUME NEW q \in 1 .. Len(u)
          PROVE  \E i \in 1 .. m + 1 : \E j \in 1 .. Len(ss[i]) :
                    /\ u[q] = ss[i][j]
                    /\ \A h \in 1 .. (i - 1) : \A l \in 1 .. Len(ss[h]) :
                            \E o \in 1 .. (q - 1) : u[o] = ss[h][l]
                    /\ \A l \in 1 .. (j - 1) : \E o \in 1 .. (q - 1) : u[o] = ss[i][l]
      <4>1. CASE q <= Len(s)
        <5>0. PICK i \in 1 .. m : \E j \in 1 .. Len(ss[i]) :
                    /\ s[q] = ss[i][j]
                    /\ \A h \in 1 .. (i - 1) : \A l \in 1 .. Len(ss[h]) :
                            \E o \in 1 .. (q - 1) : s[o] = ss[h][l]
                    /\ \A l \in 1 .. (j - 1) : \E o \in 1 .. (q - 1) : s[o] = ss[i][l]
          <6>1. q \in 1 .. Len(s)
            BY <3>2, <4>1
          <6> QED BY <3>1, <6>1 DEF FlattenPlaced
        <5>1. PICK j \in 1 .. Len(ss[i]) :
                    /\ s[q] = ss[i][j]
                    /\ \A h \in 1 .. (i - 1) : \A l \in 1 .. Len(ss[h]) :
                            \E o \in 1 .. (q - 1) : s[o] = ss[h][l]
                    /\ \A l \in 1 .. (j - 1) : \E o \in 1 .. (q - 1) : s[o] = ss[i][l]
          BY <5>0
        <5>2. i \in 1 .. m + 1 /\ u[q] = s[q] /\ \A o \in 1 .. (q - 1) : u[o] = s[o]
          BY <3>2, <4>1
        <5>3. \A h \in 1 .. (i - 1) : \A l \in 1 .. Len(ss[h]) : \E o \in 1 .. (q - 1) : u[o] = ss[h][l]
          BY <5>1, <5>2
        <5>4. \A l \in 1 .. (j - 1) : \E o \in 1 .. (q - 1) : u[o] = ss[i][l]
          BY <5>1, <5>2
        <5>5. u[q] = ss[i][j]
          BY <5>1, <5>2
        <5> QED BY <5>2, <5>3, <5>4, <5>5, Zenon
      <4>2. CASE q > Len(s)
        <5> DEFINE j == q - Len(s)
        <5>1. j \in 1 .. Len(t) /\ u[q] = t[j] /\ m + 1 \in 1 .. m + 1 /\ (m + 1) - 1 = m
          BY <3>2, <4>2
        <5>2. \A h \in 1 .. m : \A l \in 1 .. Len(ss[h]) : \E o \in 1 .. (q - 1) : u[o] = ss[h][l]
          <6> SUFFICES ASSUME NEW h \in 1 .. m, NEW l \in 1 .. Len(ss[h])
                       PROVE  \E o \in 1 .. (q - 1) : u[o] = ss[h][l]
            OBVIOUS
          <6>1. PICK o \in 1 .. Len(s) : s[o] = ss[h][l]
            BY <3>1 DEF FlattenPlaced
          <6>2. o \in 1 .. (q - 1) /\ u[o] = s[o]
            BY <3>2, <4>2
          <6> QED BY <6>1, <6>2
        <5>3. \A l \in 1 .. (j - 1) : \E o \in 1 .. (q - 1) : u[o] = t[l]
          <6> SUFFICES ASSUME NEW l \in 1 .. (j - 1) PROVE \E o \in 1 .. (q - 1) : u[o] = t[l]
            OBVIOUS
          <6>1. Len(s) + l \in 1 .. (q - 1) /\ l \in 1 .. Len(t)
            BY <3>2, <4>2, <5>1
          <6> QED BY <3>2, <6>1
        <5>4. \A h \in 1 .. ((m + 1) - 1) : \A l \in 1 .. Len(ss[h]) : \E o \in 1 .. (q - 1) : u[o] = ss[h][l]
          BY <5>1, <5>2
        <5> HIDE DEF j
        <5> QED BY <5>1, <5>3, <5>4, Zenon
      <4> QED BY <3>2, <4>1, <4>2
    <3>4. ASSUME NEW i \in 1 .. m + 1, NEW j \in 1 .. Len(ss[i])
          PROVE  \E q \in 1 .. Len(u) : u[q] = ss[i][j]
      <4>1. CASE i <= m
        <5>1. PICK q \in 1 .. Len(s) : s[q] = ss[i][j]
          BY <3>1, <4>1 DEF FlattenPlaced
        <5>2. q \in 1 .. Len(u) /\ u[q] = s[q]
          BY <3>2
        <5> QED BY <5>1, <5>2
      <4>2. CASE i = m + 1
        <5>1. Len(s) + j \in 1 .. Len(u) /\ u[Len(s) + j] = t[j]
          BY <3>2, <4>2
        <5> QED BY <4>2, <5>1
      <4> QED BY <4>1, <4>2
    <3>5. u \in Seq(R)
      BY <3>1
    <3>6. FlattenPlaced(ss, m + 1, u)
      <4> HIDE DEF t
      <4> QED BY <3>3, <3>4 DEF FlattenPlaced
    <3> QED BY <3>5, <3>6 DEF u
  <2>6. \A m \in Nat : m \in S
    <3> HIDE DEF Good
    <3>1. S \in SUBSET Nat /\ 0 \in S
      BY <2>4
    <3>2. ASSUME NEW m \in S PROVE m + 1 \in S
      <4>1. m \in Nat /\ m + 1 \in Nat \ {0}
        OBVIOUS
      <4>2. (m + 1) + 1 <= Len(ss) => m + 1 <= Len(ss)
        BY <2>3, <4>1
      <4> QED BY <2>5, <4>1, <4>2
    <3> HIDE DEF S
    <3> QED BY <3>1, <3>2, SetInduction
  <2>7. Good(Len(ss))
    <3> HIDE DEF Good
    <3>1. Len(ss) - 1 \in Nat /\ (Len(ss) - 1) + 1 = Len(ss)
      BY <2>3
    <3>2. (Len(ss) - 1) + 1 <= Len(ss) => Good((Len(ss) - 1) + 1)
      BY <2>6, <3>1
    <3> QED BY <2>3, <3>1, <3>2
  <2>8. FlattenSeq(ss) = f[Len(ss)]
    BY <2>1
  <2> QED BY <2>7, <2>8, Zenon
<1> QED BY <1>1, <1>2

-----------------------------------------------------------------------------
(***************************************************************************)
(* What the rules of a configuration may look like.                        *)
(***************************************************************************)

\* The targets of the rules of one chain.
Targets(g, t, c) ==
    CASE <<t, c>> = <<"nat", "OUTPUT">> ->
            {Return, Jump("ISTIO_OUTPUT"), Redirect(AgentDNSPort)}
      [] <<t, c>> = <<"nat", "PREROUTING">> ->
            {Return, Jump("ISTIO_INBOUND"), Jump("ISTIO_REDIRECT")}
      [] <<t, c>> = <<"nat", "ISTIO_OUTPUT">> ->
            {Return, Jump("ISTIO_REDIRECT"), Jump("ISTIO_IN_REDIRECT"), Redirect(AgentDNSPort)}
      [] <<t, c>> = <<"nat", "ISTIO_INBOUND">> -> {Return, Jump("ISTIO_IN_REDIRECT")}
      [] <<t, c>> = <<"nat", "ISTIO_REDIRECT">> -> {Redirect(g.ProxyPort)}
      [] <<t, c>> = <<"nat", "ISTIO_IN_REDIRECT">> -> {Redirect(g.InboundCapturePort)}
      [] <<t, c>> = <<"mangle", "PREROUTING">> ->
            {Return, Jump("ISTIO_INBOUND"), Jump("DROP"), Jump("SAVEMARK")}
      [] <<t, c>> = <<"mangle", "OUTPUT">> ->
            {Return, <<"MARK", outboundMark>>, Jump("RESTOREMARK")}
      [] <<t, c>> = <<"mangle", "ISTIO_INBOUND">> ->
            {Return, Jump("ISTIO_DIVERT"), Jump("ISTIO_TPROXY")}
      [] <<t, c>> = <<"mangle", "ISTIO_DIVERT">> -> {<<"MARK", TProxyMark>>, Jump("ACCEPT")}
      [] <<t, c>> = <<"mangle", "ISTIO_TPROXY">> -> {<<"TPROXY", g.InboundCapturePort>>}
      [] <<t, c>> \in {<<"raw", "OUTPUT">>, <<"raw", "PREROUTING">>} -> {<<"CT", "1">>, <<"CT", "2">>}
      [] OTHER -> {}

\* A rule of the capture program: its target is one of its chain's (or logs),
\* the chains of outgoing packets are only appended to, and a redirection in
\* the hook itself is of DNS over UDP.
Good(g) ==
    {r \in RuleType :
        /\ r.j \in Targets(g, r.t, r.c) \cup {Jump("NFLOG")}
        /\ Targets(g, r.t, r.c) # {}
        /\ r.c \in {"OUTPUT", "ISTIO_OUTPUT"} => r.pos = 0
        /\ r.c = "OUTPUT" /\ r.j = Redirect(AgentDNSPort) => Is("proto", "udp") \in r.m}

\* A rule that sends what reaches it in ISTIO_OUTPUT to the agent.
Captures(r) == /\ r.t = "nat" /\ r.c = "ISTIO_OUTPUT"
               /\ r.j \in {Jump("ISTIO_REDIRECT"), Redirect(AgentDNSPort)}
Calm(g) == {r \in Good(g) : ~Captures(r)}

Names == Seq(Text)
Server == [fam : Text, addr : Text]
Block == [fam : Text, addrs : SUBSET Text, loopback : BOOLEAN]
\* The types of the options (config.go).
DNSTyped(g) ==
    /\ g.ProxyUID \in Names /\ g.ProxyGID \in Names
    /\ g.OwnerGroupsInclude \in Names /\ g.OwnerGroupsExclude \in Names
    /\ g.DNSServers \in Seq(Server)
WellTyped(g) ==
    /\ DNSTyped(g)
    /\ g.InboundPortsInclude \in Names /\ g.InboundPortsExclude \in Names
    /\ g.OutboundPortsInclude \in Names /\ g.OutboundPortsExclude \in Names
    /\ g.KubeVirtInterfaces \in Names /\ g.ExcludeInterfaces \in Names
    /\ g.OutboundIPRangesInclude \in Seq(Block) /\ g.OutboundIPRangesExclude \in Seq(Block)
    /\ g.ProxyPort \in Text /\ g.InboundCapturePort \in Text

\* Conditions are conditions.
LEMMA ConditionTypes ==
    /\ \A f, x \in Text : Is(f, x) \in Condition /\ Not(f, x) \in Condition
    /\ \A f \in Text, S \in SUBSET Text : Among(f, S) \in Condition
    /\ Tcp \in Condition /\ Established \in Condition
<1>1. \A f \in Text, b \in BOOLEAN, S \in SUBSET Text : <<f, b, S>> \in Condition
  BY Zenon DEF Condition
<1>2. \A x \in Text : {x} \in SUBSET Text
  OBVIOUS
<1>3. TRUE \in BOOLEAN /\ FALSE \in BOOLEAN
  OBVIOUS
<1>4. \A f, x \in Text : Is(f, x) \in Condition /\ Not(f, x) \in Condition
  BY <1>1, <1>2, <1>3, Zenon DEF Is, Not
<1>5. \A f \in Text, S \in SUBSET Text : Among(f, S) \in Condition
  BY <1>1, <1>3, Zenon DEF Among
<1>6. "proto" \in Text /\ "tcp" \in Text /\ "ct" \in Text
      /\ {"ESTABLISHED", "RELATED"} \in SUBSET Text
  BY DEF Text
<1> QED BY <1>4, <1>5, <1>6, Zenon DEF Tcp, Established

\* A rule, with or without its log rule, is a sequence of rules of that kind.
LEMMA AppendGood ==
    ASSUME NEW g, NEW named, NEW t \in Text, NEW c \in Text, NEW m \in SUBSET Condition,
           NEW j \in Text \X Text, j \in Targets(g, t, c),
           c = "OUTPUT" /\ j = Redirect(AgentDNSPort) => Is("proto", "udp") \in m
    PROVE  /\ AppendRule(g, named, t, c, m, j) \in Seq(Good(g))
           /\ ~Captures(Rule(t, c, 0, m, j)) => AppendRule(g, named, t, c, m, j) \in Seq(Calm(g))
<1>1. Rule(t, c, 0, m, j) \in Good(g)
  BY DEF Rule, Good, RuleType
<1>2. Rule(t, c, 0, m, Jump("NFLOG")) \in Good(g) /\ ~Captures(Rule(t, c, 0, m, Jump("NFLOG")))
  <2>1. Jump("NFLOG") \in Text \X Text /\ Jump("NFLOG") # Redirect(AgentDNSPort)
        /\ Jump("NFLOG") # Jump("ISTIO_REDIRECT")
    BY DEF Text, Jump, Redirect, AgentDNSPort
  <2> QED BY <2>1 DEF Rule, Good, RuleType, Captures
<1>3. ASSUME NEW S, NEW r \in S, NEW l \in S PROVE <<l>> \o <<r>> \in Seq(S) /\ <<>> \o <<r>> \in Seq(S)
  OBVIOUS
<1> QED BY <1>1, <1>2, <1>3 DEF AppendRule, Calm

\* So is an insertion.
LEMMA InsertGood ==
    ASSUME NEW g, NEW named, NEW t \in Text, NEW c \in Text, NEW n \in Nat, NEW m \in SUBSET Condition,
           NEW j \in Text \X Text, j \in Targets(g, t, c),
           c \notin {"OUTPUT", "ISTIO_OUTPUT"}
    PROVE  InsertRule(g, named, t, c, n, m, j) \in Seq(Calm(g))
<1>1. Rule(t, c, n, m, j) \in Calm(g)
  BY DEF Rule, Good, Calm, Captures, RuleType
<1>2. Rule(t, c, n, m, Jump("NFLOG")) \in Calm(g)
  <2>1. Jump("NFLOG") \in Text \X Text
    BY DEF Text, Jump
  <2> QED BY <2>1 DEF Rule, Good, Calm, Captures, RuleType
<1>3. ASSUME NEW S, NEW r \in S, NEW l \in S PROVE <<r>> \o <<l>> \in Seq(S) /\ <<r>> \o <<>> \in Seq(S)
  OBVIOUS
<1> QED BY <1>1, <1>2, <1>3 DEF InsertRule

\* Sequences of rules of one kind, put together.
LEMMA SeqParts ==
    ASSUME NEW S
    PROVE  /\ <<>> \in Seq(S)
           /\ \A s, t \in Seq(S) : s \o t \in Seq(S)
           /\ \A c, s : (c => s \in Seq(S)) => When(c, s) \in Seq(S)
           /\ \A ss \in Seq(Seq(S)) : FlattenSeq(ss) \in Seq(S)
<1>1. \A ss \in Seq(Seq(S)) : FlattenSeq(ss) \in Seq(S)
  BY FlattenElements
<1>2. \A c, s : (c => s \in Seq(S)) => When(c, s) \in Seq(S)
  BY DEF When
<1> QED BY <1>1, <1>2

\* The targets of each chain.
LEMMA TargetsOf ==
    ASSUME NEW g
    PROVE  /\ Targets(g, "nat", "OUTPUT") = {Return, Jump("ISTIO_OUTPUT"), Redirect(AgentDNSPort)}
           /\ Targets(g, "nat", "PREROUTING") = {Return, Jump("ISTIO_INBOUND"), Jump("ISTIO_REDIRECT")}
           /\ Targets(g, "nat", "ISTIO_OUTPUT") =
                {Return, Jump("ISTIO_REDIRECT"), Jump("ISTIO_IN_REDIRECT"), Redirect(AgentDNSPort)}
           /\ Targets(g, "nat", "ISTIO_INBOUND") = {Return, Jump("ISTIO_IN_REDIRECT")}
           /\ Targets(g, "nat", "ISTIO_REDIRECT") = {Redirect(g.ProxyPort)}
           /\ Targets(g, "nat", "ISTIO_IN_REDIRECT") = {Redirect(g.InboundCapturePort)}
           /\ Targets(g, "mangle", "PREROUTING") =
                {Return, Jump("ISTIO_INBOUND"), Jump("DROP"), Jump("SAVEMARK")}
           /\ Targets(g, "mangle", "OUTPUT") = {Return, <<"MARK", outboundMark>>, Jump("RESTOREMARK")}
           /\ Targets(g, "mangle", "ISTIO_INBOUND") = {Return, Jump("ISTIO_DIVERT"), Jump("ISTIO_TPROXY")}
           /\ Targets(g, "mangle", "ISTIO_DIVERT") = {<<"MARK", TProxyMark>>, Jump("ACCEPT")}
           /\ Targets(g, "mangle", "ISTIO_TPROXY") = {<<"TPROXY", g.InboundCapturePort>>}
           /\ Targets(g, "raw", "OUTPUT") = {<<"CT", "1">>, <<"CT", "2">>}
           /\ Targets(g, "raw", "PREROUTING") = {<<"CT", "1">>, <<"CT", "2">>}
BY DEF Targets

\* A chain with a target is one of the program's, and a target is a pair of
\* strings.
LEMMA TargetTypes ==
    ASSUME NEW g, WellTyped(g), NEW t, NEW c, NEW j \in Targets(g, t, c)
    PROVE  j \in Text \X Text /\ t \in Text /\ c \in Text
<1>1. \A s \in Text : Jump(s) \in Text \X Text
  BY DEF Jump, Text
<1>2. \A s \in Text : Redirect(s) \in Text \X Text
  BY DEF Redirect, Text
<1>3. Return \in Text \X Text
  BY DEF Return, Jump, Text
<1>4. g.ProxyPort \in Text /\ g.InboundCapturePort \in Text
  BY DEF WellTyped, DNSTyped
<1>5. /\ <<"MARK", outboundMark>> \in Text \X Text /\ <<"MARK", TProxyMark>> \in Text \X Text
      /\ <<"CT", "1">> \in Text \X Text /\ <<"CT", "2">> \in Text \X Text
  BY DEF outboundMark, TProxyMark, Text
<1>6. <<"TPROXY", g.InboundCapturePort>> \in Text \X Text
  BY <1>4 DEF Text
<1>7. /\ "ISTIO_OUTPUT" \in Text /\ "ISTIO_INBOUND" \in Text /\ "ISTIO_REDIRECT" \in Text
      /\ "ISTIO_IN_REDIRECT" \in Text /\ "ISTIO_DIVERT" \in Text /\ "ISTIO_TPROXY" \in Text
      /\ "DROP" \in Text /\ "SAVEMARK" \in Text /\ "RESTOREMARK" \in Text /\ "ACCEPT" \in Text
      /\ AgentDNSPort \in Text /\ "nat" \in Text /\ "mangle" \in Text /\ "raw" \in Text
      /\ "OUTPUT" \in Text /\ "PREROUTING" \in Text
  BY DEF Text, AgentDNSPort
<1> QED BY <1>1, <1>2, <1>3, <1>4, <1>5, <1>6, <1>7 DEF Targets

\* A rule outside ISTIO_OUTPUT captures nothing there.
LEMMA AppendCalm ==
    ASSUME NEW g, WellTyped(g), NEW named, NEW t, NEW c, NEW m \in SUBSET Condition,
           NEW j \in Targets(g, t, c), c # "ISTIO_OUTPUT",
           c = "OUTPUT" /\ j = Redirect(AgentDNSPort) => Is("proto", "udp") \in m
    PROVE  AppendRule(g, named, t, c, m, j) \in Seq(Calm(g))
<1>1. ~Captures(Rule(t, c, 0, m, j))
  BY DEF Captures, Rule
<1> QED BY <1>1, TargetTypes, AppendGood

\* An inserted rule is calm if an appended one is.
LEMMA InsertCalm ==
    ASSUME NEW g, WellTyped(g), NEW named, NEW t, NEW c, NEW n \in Nat, NEW m \in SUBSET Condition,
           NEW j \in Targets(g, t, c), c \notin {"OUTPUT", "ISTIO_OUTPUT"}
    PROVE  InsertRule(g, named, t, c, n, m, j) \in Seq(Calm(g))
BY TargetTypes, InsertGood

\* The rules of ISTIO_OUTPUT.
LEMMA OutputGood ==
    ASSUME NEW g, WellTyped(g), NEW m \in SUBSET Condition,
           NEW j \in {Return, Jump("ISTIO_REDIRECT"), Jump("ISTIO_IN_REDIRECT"), Redirect(AgentDNSPort)}
    PROVE  /\ OutputRule(g, m, j) \in Seq(Good(g))
           /\ j \in {Return, Jump("ISTIO_IN_REDIRECT")} => OutputRule(g, m, j) \in Seq(Calm(g))
           /\ Len(OutputRule(g, m, j)) = 1 /\ OutputRule(g, m, j)[1] = Rule("nat", "ISTIO_OUTPUT", 0, m, j)
<1>1. j \in Targets(g, "nat", "ISTIO_OUTPUT")
  BY TargetsOf
<1>2. j \in Text \X Text /\ "nat" \in Text /\ "ISTIO_OUTPUT" \in Text
  BY <1>1, TargetTypes
<1>3. j \in {Return, Jump("ISTIO_IN_REDIRECT")} => ~Captures(Rule("nat", "ISTIO_OUTPUT", 0, m, j))
  BY DEF Captures, Rule, Return, Jump, Redirect
<1>4. OutputRule(g, m, j) = <<>> \o <<Rule("nat", "ISTIO_OUTPUT", 0, m, j)>>
  BY DEF OutputRule, AppendRule
<1>5. OutputRule(g, m, j) = AppendRule(g, FALSE, "nat", "ISTIO_OUTPUT", m, j)
  BY DEF OutputRule
<1>6. /\ AppendRule(g, FALSE, "nat", "ISTIO_OUTPUT", m, j) \in Seq(Good(g))
      /\ ~Captures(Rule("nat", "ISTIO_OUTPUT", 0, m, j)) =>
            AppendRule(g, FALSE, "nat", "ISTIO_OUTPUT", m, j) \in Seq(Calm(g))
  <2>1. ~("ISTIO_OUTPUT" = "OUTPUT")
    OBVIOUS
  <2> QED BY <1>1, <1>2, <2>1, AppendGood, Zenon
<1>7. ASSUME NEW r PROVE Len(<<>> \o <<r>>) = 1 /\ (<<>> \o <<r>>)[1] = r
  OBVIOUS
<1>8. Len(OutputRule(g, m, j)) = 1 /\ OutputRule(g, m, j)[1] = Rule("nat", "ISTIO_OUTPUT", 0, m, j)
  BY <1>4, <1>7, Zenon
<1> QED BY <1>3, <1>5, <1>6, <1>8, Zenon

\* Literals that conditions mention.
LEMMA Conditions ==
    /\ \A f \in Fixed \cup {"mark", "connmark"} : \A x \in Text : Is(f, x) \in Condition /\ Not(f, x) \in Condition
    /\ Tcp \in Condition /\ Established \in Condition
    /\ \A S \in SUBSET Text : Among("dst", S) \in Condition
    /\ \A f \in {"proto", "sport", "dport", "src", "dst", "iif", "oif", "uid", "gid", "ct"} : f \in Fixed
    /\ TunnelPort \in Text /\ DNSPort \in Text /\ AgentDNSPort \in Text /\ TProxyMark \in Text
    /\ outboundMark \in Text /\ Lo1 \in Text /\ Lo6 \in Text /\ "lo" \in Text /\ "udp" \in Text
    /\ "INVALID" \in Text
<1>1. \A f \in Fixed \cup {"mark", "connmark"} : f \in Text
  BY DEF Fixed, Text
<1>2. /\ TunnelPort \in Text /\ DNSPort \in Text /\ AgentDNSPort \in Text /\ TProxyMark \in Text
      /\ outboundMark \in Text /\ Lo1 \in Text /\ Lo6 \in Text /\ "lo" \in Text /\ "udp" \in Text
      /\ "INVALID" \in Text /\ "dst" \in Text
  BY DEF TunnelPort, DNSPort, AgentDNSPort, TProxyMark, outboundMark, Lo1, Lo6, Text
<1>3. \A f \in {"proto", "sport", "dport", "src", "dst", "iif", "oif", "uid", "gid", "ct"} : f \in Fixed
  BY DEF Fixed
<1> QED BY <1>1, <1>2, <1>3, ConditionTypes

\* The rules made for the members of a list.
LEMMA EachIn ==
    ASSUME NEW S, NEW E, NEW list \in Seq(E), NEW ss, ss = [i \in DOMAIN list |-> ss[i]],
           \A i \in DOMAIN list : ss[i] \in Seq(S)
    PROVE  FlattenSeq(ss) \in Seq(S)
<1>1. ss \in Seq(Seq(S))
  OBVIOUS
<1> QED BY <1>1, FlattenElements

\* The rules of the excluded interfaces redirect nothing.
LEMMA ExcludeCalm ==
    ASSUME NEW g, WellTyped(g) PROVE shortCircuitExcludeInterfaces(g) \in Seq(Calm(g))
<1> DEFINE one(t, i) == AppendRule(g, TRUE, t, "PREROUTING", {Is("iif", i)}, Return)
                        \o AppendRule(g, TRUE, t, "OUTPUT", {Is("oif", i)}, Return)
           ss(t) == [i \in DOMAIN g.ExcludeInterfaces |-> one(t, g.ExcludeInterfaces[i])]
<1>1. g.ExcludeInterfaces \in Seq(Text)
  BY DEF WellTyped, DNSTyped, Names
<1>2. ASSUME NEW t \in {"nat", "mangle"}, NEW i \in Text PROVE one(t, i) \in Seq(Calm(g))
  <2>1. {Is("iif", i)} \in SUBSET Condition /\ {Is("oif", i)} \in SUBSET Condition
    BY Conditions
  <2>2. Return \in Targets(g, t, "PREROUTING") /\ Return \in Targets(g, t, "OUTPUT")
        /\ Return # Redirect(AgentDNSPort)
    BY TargetsOf DEF Return, Jump, Redirect
  <2>3. AppendRule(g, TRUE, t, "PREROUTING", {Is("iif", i)}, Return) \in Seq(Calm(g))
    BY <2>1, <2>2, AppendCalm
  <2>4. AppendRule(g, TRUE, t, "OUTPUT", {Is("oif", i)}, Return) \in Seq(Calm(g))
    BY <2>1, <2>2, AppendCalm
  <2> QED BY <2>3, <2>4, SeqParts
<1> HIDE DEF one
<1>3. ASSUME NEW t \in {"nat", "mangle"} PROVE FlattenSeq(ss(t)) \in Seq(Calm(g))
  <2> DEFINE s == ss(t)
  <2>1. s = [i \in DOMAIN g.ExcludeInterfaces |-> s[i]] /\ \A i \in DOMAIN g.ExcludeInterfaces : s[i] \in Seq(Calm(g))
    BY <1>1, <1>2
  <2> HIDE DEF s
  <2>2. FlattenSeq(s) \in Seq(Calm(g))
    BY <1>1, <2>1, EachIn
  <2> QED BY <2>2 DEF s
<1>4. shortCircuitExcludeInterfaces(g)
        = FlattenSeq(ss("nat")) \o When(g.InboundInterceptionMode = "TPROXY", FlattenSeq(ss("mangle")))
  BY DEF shortCircuitExcludeInterfaces, Each, one
<1> HIDE DEF ss
<1> QED BY <1>3, <1>4 DEF When

\* Nor do those of the virtual machines' interfaces.
LEMMA KubeCalm ==
    ASSUME NEW g, WellTyped(g)
    PROVE  shortCircuitKubeInternalInterface(g) \in Seq(Calm(g))
<1> DEFINE one1(x) == InsertRule(g, TRUE, "nat", "PREROUTING", 1, {Is("iif", x)}, Return)
           all1 == [i \in DOMAIN g.KubeVirtInterfaces |-> one1(g.KubeVirtInterfaces[i])]
<1> HIDE DEF one1, all1
<1>1. FlattenSeq(all1) \in Seq(Calm(g))
  <2>1. g.KubeVirtInterfaces \in Seq(Text)
    BY DEF WellTyped, DNSTyped, Names
  <2>2. ASSUME NEW x \in Text PROVE one1(x) \in Seq(Calm(g))
    <3>1. InsertRule(g, TRUE, "nat", "PREROUTING", 1, {Is("iif", x)}, Return) \in Seq(Calm(g))
      <4>1. {Is("iif", x)} \in SUBSET Condition
        BY <2>2, Conditions
      <4>2. Return \in Targets(g, "nat", "PREROUTING") /\ "PREROUTING" \notin {"OUTPUT", "ISTIO_OUTPUT"}
        BY TargetsOf
      <4> QED BY <4>1, <4>2, InsertCalm
    <3> QED BY <3>1 DEF one1
  <2>3. all1 = [i \in DOMAIN g.KubeVirtInterfaces |-> all1[i]] /\ \A i \in DOMAIN g.KubeVirtInterfaces : all1[i] \in Seq(Calm(g))
    BY <2>1, <2>2 DEF all1
  <2> QED BY <2>1, <2>3, EachIn
<1>2. shortCircuitKubeInternalInterface(g) = FlattenSeq(all1)
  BY DEF shortCircuitKubeInternalInterface, Each, one1, all1
<1> QED BY <1>1, <1>2

\* The rules of the inbound ports are calm.
LEMMA InboundPortsCalm ==
    ASSUME NEW g, WellTyped(g)
    PROVE  handleInboundPortsInclude(g) \in Seq(Calm(g))
<1> DEFINE table == IF g.InboundInterceptionMode = "TPROXY" THEN "mangle" ELSE "nat"
           divert == AppendRule(g, FALSE, "mangle", "ISTIO_DIVERT", {}, <<"MARK", TProxyMark>>) \o AppendRule(g, FALSE, "mangle", "ISTIO_DIVERT", {}, Jump("ACCEPT")) \o AppendRule(g, FALSE, "mangle", "ISTIO_TPROXY", {Not("dst", Lo1), Tcp}, <<"TPROXY", g.InboundCapturePort>>)
           one1(x) == AppendRule(g, TRUE, table, "ISTIO_INBOUND", {Tcp} \cup {Is("dport", x)}, Return)
           all1 == [i \in DOMAIN g.InboundPortsExclude |-> one1(g.InboundPortsExclude[i])]
           rest == (IF g.InboundInterceptionMode = "TPROXY" THEN AppendRule(g, FALSE, table, "ISTIO_INBOUND", {Tcp} \cup ({} \cup {Established}), Jump("ISTIO_DIVERT")) \o AppendRule(g, FALSE, table, "ISTIO_INBOUND", {Tcp} \cup {}, Jump("ISTIO_TPROXY")) ELSE AppendRule(g, FALSE, table, "ISTIO_INBOUND", {Tcp} \cup {}, Jump("ISTIO_IN_REDIRECT")))
           port(x) == (IF g.InboundInterceptionMode = "TPROXY" THEN AppendRule(g, TRUE, table, "ISTIO_INBOUND", {Tcp} \cup ({Is("dport", x)} \cup {Established}), Jump("ISTIO_DIVERT")) \o AppendRule(g, TRUE, table, "ISTIO_INBOUND", {Tcp} \cup {Is("dport", x)}, Jump("ISTIO_TPROXY")) ELSE AppendRule(g, TRUE, table, "ISTIO_INBOUND", {Tcp} \cup {Is("dport", x)}, Jump("ISTIO_IN_REDIRECT")))
           one2(x) == port(x)
           all2 == [i \in DOMAIN g.InboundPortsInclude |-> one2(g.InboundPortsInclude[i])]
           ports == (IF g.InboundPortsInclude = <<"*">> THEN FlattenSeq(all1) \o rest ELSE FlattenSeq(all2))
<1> HIDE DEF table, divert, one1, all1, rest, port, one2, all2, ports
<1>1. When(g.InboundPortsInclude # <<>>, When(g.InboundInterceptionMode = "TPROXY", divert) \o AppendRule(g, TRUE, table, "PREROUTING", {Tcp}, Jump("ISTIO_INBOUND")) \o ports) \in Seq(Calm(g))
  <2>1. When(g.InboundInterceptionMode = "TPROXY", divert) \o AppendRule(g, TRUE, table, "PREROUTING", {Tcp}, Jump("ISTIO_INBOUND")) \o ports \in Seq(Calm(g))
    <3>1. When(g.InboundInterceptionMode = "TPROXY", divert) \in Seq(Calm(g))
      <4>1. divert \in Seq(Calm(g))
        <5>1. AppendRule(g, FALSE, "mangle", "ISTIO_DIVERT", {}, <<"MARK", TProxyMark>>) \o AppendRule(g, FALSE, "mangle", "ISTIO_DIVERT", {}, Jump("ACCEPT")) \o AppendRule(g, FALSE, "mangle", "ISTIO_TPROXY", {Not("dst", Lo1), Tcp}, <<"TPROXY", g.InboundCapturePort>>) \in Seq(Calm(g))
          <6>1. AppendRule(g, FALSE, "mangle", "ISTIO_DIVERT", {}, <<"MARK", TProxyMark>>) \in Seq(Calm(g))
            <7>1. {} \in SUBSET Condition
              BY Conditions
            <7>2. <<"MARK", TProxyMark>> \in Targets(g, "mangle", "ISTIO_DIVERT") /\ "ISTIO_DIVERT" \notin {"OUTPUT", "ISTIO_OUTPUT"}
              BY TargetsOf
            <7> QED BY <7>1, <7>2, AppendCalm
          <6>2. AppendRule(g, FALSE, "mangle", "ISTIO_DIVERT", {}, Jump("ACCEPT")) \in Seq(Calm(g))
            <7>1. {} \in SUBSET Condition
              BY Conditions
            <7>2. Jump("ACCEPT") \in Targets(g, "mangle", "ISTIO_DIVERT") /\ "ISTIO_DIVERT" \notin {"OUTPUT", "ISTIO_OUTPUT"}
              BY TargetsOf
            <7> QED BY <7>1, <7>2, AppendCalm
          <6>3. AppendRule(g, FALSE, "mangle", "ISTIO_TPROXY", {Not("dst", Lo1), Tcp}, <<"TPROXY", g.InboundCapturePort>>) \in Seq(Calm(g))
            <7>1. {Not("dst", Lo1), Tcp} \in SUBSET Condition
              BY Conditions
            <7>2. <<"TPROXY", g.InboundCapturePort>> \in Targets(g, "mangle", "ISTIO_TPROXY") /\ "ISTIO_TPROXY" \notin {"OUTPUT", "ISTIO_OUTPUT"}
              BY TargetsOf
            <7> QED BY <7>1, <7>2, AppendCalm
          <6> QED BY <6>1, <6>2, <6>3, SeqParts
        <5> QED BY <5>1 DEF divert
      <4> QED BY <4>1, SeqParts DEF When
    <3>2. AppendRule(g, TRUE, table, "PREROUTING", {Tcp}, Jump("ISTIO_INBOUND")) \in Seq(Calm(g))
      <4>1. {Tcp} \in SUBSET Condition
        BY Conditions
      <4>2. Jump("ISTIO_INBOUND") \in Targets(g, table, "PREROUTING") /\ "PREROUTING" \notin {"OUTPUT", "ISTIO_OUTPUT"}
        BY TargetsOf DEF table
      <4> QED BY <4>1, <4>2, AppendCalm
    <3>3. ports \in Seq(Calm(g))
      <4>1. (IF g.InboundPortsInclude = <<"*">> THEN FlattenSeq(all1) \o rest ELSE FlattenSeq(all2)) \in Seq(Calm(g))
        <5>1. ASSUME g.InboundPortsInclude = <<"*">> PROVE FlattenSeq(all1) \o rest \in Seq(Calm(g))
          <6>1. FlattenSeq(all1) \in Seq(Calm(g))
            <7>1. g.InboundPortsExclude \in Seq(Text)
              BY <5>1 DEF WellTyped, DNSTyped, Names
            <7>2. ASSUME NEW x \in Text PROVE one1(x) \in Seq(Calm(g))
              <8>1. AppendRule(g, TRUE, table, "ISTIO_INBOUND", {Tcp} \cup {Is("dport", x)}, Return) \in Seq(Calm(g))
                <9>1. {Tcp} \cup {Is("dport", x)} \in SUBSET Condition
                  BY <5>1, <7>2, Conditions
                <9>2. Return \in Targets(g, table, "ISTIO_INBOUND") /\ "ISTIO_INBOUND" \notin {"OUTPUT", "ISTIO_OUTPUT"}
                  BY <5>1, <7>2, TargetsOf DEF table
                <9> QED BY <9>1, <9>2, AppendCalm
              <8> QED BY <8>1 DEF one1
            <7>3. all1 = [i \in DOMAIN g.InboundPortsExclude |-> all1[i]] /\ \A i \in DOMAIN g.InboundPortsExclude : all1[i] \in Seq(Calm(g))
              BY <7>1, <7>2 DEF all1
            <7> QED BY <7>1, <7>3, EachIn
          <6>2. rest \in Seq(Calm(g))
            <7>1. (IF g.InboundInterceptionMode = "TPROXY" THEN AppendRule(g, FALSE, table, "ISTIO_INBOUND", {Tcp} \cup ({} \cup {Established}), Jump("ISTIO_DIVERT")) \o AppendRule(g, FALSE, table, "ISTIO_INBOUND", {Tcp} \cup {}, Jump("ISTIO_TPROXY")) ELSE AppendRule(g, FALSE, table, "ISTIO_INBOUND", {Tcp} \cup {}, Jump("ISTIO_IN_REDIRECT"))) \in Seq(Calm(g))
              <8>1. ASSUME g.InboundInterceptionMode = "TPROXY" PROVE AppendRule(g, FALSE, table, "ISTIO_INBOUND", {Tcp} \cup ({} \cup {Established}), Jump("ISTIO_DIVERT")) \o AppendRule(g, FALSE, table, "ISTIO_INBOUND", {Tcp} \cup {}, Jump("ISTIO_TPROXY")) \in Seq(Calm(g))
                <9>1. AppendRule(g, FALSE, table, "ISTIO_INBOUND", {Tcp} \cup ({} \cup {Established}), Jump("ISTIO_DIVERT")) \in Seq(Calm(g))
                  <10>1. {Tcp} \cup ({} \cup {Established}) \in SUBSET Condition
                    BY <5>1, <8>1, Conditions
                  <10>2. Jump("ISTIO_DIVERT") \in Targets(g, table, "ISTIO_INBOUND") /\ "ISTIO_INBOUND" \notin {"OUTPUT", "ISTIO_OUTPUT"}
                    BY <5>1, <8>1, TargetsOf DEF table
                  <10> QED BY <10>1, <10>2, AppendCalm
                <9>2. AppendRule(g, FALSE, table, "ISTIO_INBOUND", {Tcp} \cup {}, Jump("ISTIO_TPROXY")) \in Seq(Calm(g))
                  <10>1. {Tcp} \cup {} \in SUBSET Condition
                    BY <5>1, <8>1, Conditions
                  <10>2. Jump("ISTIO_TPROXY") \in Targets(g, table, "ISTIO_INBOUND") /\ "ISTIO_INBOUND" \notin {"OUTPUT", "ISTIO_OUTPUT"}
                    BY <5>1, <8>1, TargetsOf DEF table
                  <10> QED BY <10>1, <10>2, AppendCalm
                <9> QED BY <9>1, <9>2, SeqParts
              <8>2. ASSUME ~(g.InboundInterceptionMode = "TPROXY") PROVE AppendRule(g, FALSE, table, "ISTIO_INBOUND", {Tcp} \cup {}, Jump("ISTIO_IN_REDIRECT")) \in Seq(Calm(g))
                <9>1. {Tcp} \cup {} \in SUBSET Condition
                  BY <5>1, <8>2, Conditions
                <9>2. Jump("ISTIO_IN_REDIRECT") \in Targets(g, table, "ISTIO_INBOUND") /\ "ISTIO_INBOUND" \notin {"OUTPUT", "ISTIO_OUTPUT"}
                  BY <5>1, <8>2, TargetsOf DEF table
                <9> QED BY <9>1, <9>2, AppendCalm
              <8> QED BY <8>1, <8>2
            <7> QED BY <7>1 DEF rest
          <6> QED BY <6>1, <6>2, SeqParts
        <5>2. ASSUME ~(g.InboundPortsInclude = <<"*">>) PROVE FlattenSeq(all2) \in Seq(Calm(g))
          <6>1. g.InboundPortsInclude \in Seq(Text)
            BY <5>2 DEF WellTyped, DNSTyped, Names
          <6>2. ASSUME NEW x \in Text PROVE one2(x) \in Seq(Calm(g))
            <7>1. port(x) \in Seq(Calm(g))
              <8>1. (IF g.InboundInterceptionMode = "TPROXY" THEN AppendRule(g, TRUE, table, "ISTIO_INBOUND", {Tcp} \cup ({Is("dport", x)} \cup {Established}), Jump("ISTIO_DIVERT")) \o AppendRule(g, TRUE, table, "ISTIO_INBOUND", {Tcp} \cup {Is("dport", x)}, Jump("ISTIO_TPROXY")) ELSE AppendRule(g, TRUE, table, "ISTIO_INBOUND", {Tcp} \cup {Is("dport", x)}, Jump("ISTIO_IN_REDIRECT"))) \in Seq(Calm(g))
                <9>1. ASSUME g.InboundInterceptionMode = "TPROXY" PROVE AppendRule(g, TRUE, table, "ISTIO_INBOUND", {Tcp} \cup ({Is("dport", x)} \cup {Established}), Jump("ISTIO_DIVERT")) \o AppendRule(g, TRUE, table, "ISTIO_INBOUND", {Tcp} \cup {Is("dport", x)}, Jump("ISTIO_TPROXY")) \in Seq(Calm(g))
                  <10>1. AppendRule(g, TRUE, table, "ISTIO_INBOUND", {Tcp} \cup ({Is("dport", x)} \cup {Established}), Jump("ISTIO_DIVERT")) \in Seq(Calm(g))
                    <11>1. {Tcp} \cup ({Is("dport", x)} \cup {Established}) \in SUBSET Condition
                      BY <5>2, <6>2, <9>1, Conditions
                    <11>2. Jump("ISTIO_DIVERT") \in Targets(g, table, "ISTIO_INBOUND") /\ "ISTIO_INBOUND" \notin {"OUTPUT", "ISTIO_OUTPUT"}
                      BY <5>2, <6>2, <9>1, TargetsOf DEF table
                    <11> QED BY <11>1, <11>2, AppendCalm
                  <10>2. AppendRule(g, TRUE, table, "ISTIO_INBOUND", {Tcp} \cup {Is("dport", x)}, Jump("ISTIO_TPROXY")) \in Seq(Calm(g))
                    <11>1. {Tcp} \cup {Is("dport", x)} \in SUBSET Condition
                      BY <5>2, <6>2, <9>1, Conditions
                    <11>2. Jump("ISTIO_TPROXY") \in Targets(g, table, "ISTIO_INBOUND") /\ "ISTIO_INBOUND" \notin {"OUTPUT", "ISTIO_OUTPUT"}
                      BY <5>2, <6>2, <9>1, TargetsOf DEF table
                    <11> QED BY <11>1, <11>2, AppendCalm
                  <10> QED BY <10>1, <10>2, SeqParts
                <9>2. ASSUME ~(g.InboundInterceptionMode = "TPROXY") PROVE AppendRule(g, TRUE, table, "ISTIO_INBOUND", {Tcp} \cup {Is("dport", x)}, Jump("ISTIO_IN_REDIRECT")) \in Seq(Calm(g))
                  <10>1. {Tcp} \cup {Is("dport", x)} \in SUBSET Condition
                    BY <5>2, <6>2, <9>2, Conditions
                  <10>2. Jump("ISTIO_IN_REDIRECT") \in Targets(g, table, "ISTIO_INBOUND") /\ "ISTIO_INBOUND" \notin {"OUTPUT", "ISTIO_OUTPUT"}
                    BY <5>2, <6>2, <9>2, TargetsOf DEF table
                  <10> QED BY <10>1, <10>2, AppendCalm
                <9> QED BY <9>1, <9>2
              <8> QED BY <8>1 DEF port
            <7> QED BY <7>1 DEF one2
          <6>3. all2 = [i \in DOMAIN g.InboundPortsInclude |-> all2[i]] /\ \A i \in DOMAIN g.InboundPortsInclude : all2[i] \in Seq(Calm(g))
            BY <6>1, <6>2 DEF all2
          <6> QED BY <6>1, <6>3, EachIn
        <5> QED BY <5>1, <5>2
      <4> QED BY <4>1 DEF ports
    <3> QED BY <3>1, <3>2, <3>3, SeqParts
  <2> QED BY <2>1, SeqParts DEF When
<1>2. handleInboundPortsInclude(g) = When(g.InboundPortsInclude # <<>>, When(g.InboundInterceptionMode = "TPROXY", divert) \o AppendRule(g, TRUE, table, "PREROUTING", {Tcp}, Jump("ISTIO_INBOUND")) \o ports)
  BY DEF handleInboundPortsInclude, Each, table, divert, one1, all1, rest, port, one2, all2, ports
<1> QED BY <1>1, <1>2

\* The rules up to the jump into ISTIO_OUTPUT capture nothing there.
LEMMA InboundCalm ==
    ASSUME NEW g, WellTyped(g)
    PROVE  InboundRules(g) \in Seq(Calm(g))
<1>1. shortCircuitExcludeInterfaces(g) \o shortCircuitKubeInternalInterface(g) \o When(g.DropInvalid, AppendRule(g, FALSE, "mangle", "PREROUTING", {Is("ct", "INVALID")}, Jump("DROP"))) \o AppendRule(g, FALSE, "nat", "ISTIO_INBOUND", {Tcp, Is("dport", TunnelPort)}, Return) \o AppendRule(g, FALSE, "nat", "ISTIO_REDIRECT", {Tcp}, Redirect(g.ProxyPort)) \o AppendRule(g, TRUE, "nat", "ISTIO_IN_REDIRECT", {Tcp}, Redirect(g.InboundCapturePort)) \o handleInboundPortsInclude(g) \in Seq(Calm(g))
  <2>1. shortCircuitExcludeInterfaces(g) \in Seq(Calm(g))
    BY ExcludeCalm
  <2>2. shortCircuitKubeInternalInterface(g) \in Seq(Calm(g))
    BY KubeCalm
  <2>3. When(g.DropInvalid, AppendRule(g, FALSE, "mangle", "PREROUTING", {Is("ct", "INVALID")}, Jump("DROP"))) \in Seq(Calm(g))
    <3>1. AppendRule(g, FALSE, "mangle", "PREROUTING", {Is("ct", "INVALID")}, Jump("DROP")) \in Seq(Calm(g))
      <4>1. {Is("ct", "INVALID")} \in SUBSET Condition
        BY Conditions
      <4>2. Jump("DROP") \in Targets(g, "mangle", "PREROUTING") /\ "PREROUTING" \notin {"OUTPUT", "ISTIO_OUTPUT"}
        BY TargetsOf
      <4> QED BY <4>1, <4>2, AppendCalm
    <3> QED BY <3>1, SeqParts DEF When
  <2>4. AppendRule(g, FALSE, "nat", "ISTIO_INBOUND", {Tcp, Is("dport", TunnelPort)}, Return) \in Seq(Calm(g))
    <3>1. {Tcp, Is("dport", TunnelPort)} \in SUBSET Condition
      BY Conditions
    <3>2. Return \in Targets(g, "nat", "ISTIO_INBOUND") /\ "ISTIO_INBOUND" \notin {"OUTPUT", "ISTIO_OUTPUT"}
      BY TargetsOf
    <3> QED BY <3>1, <3>2, AppendCalm
  <2>5. AppendRule(g, FALSE, "nat", "ISTIO_REDIRECT", {Tcp}, Redirect(g.ProxyPort)) \in Seq(Calm(g))
    <3>1. {Tcp} \in SUBSET Condition
      BY Conditions
    <3>2. Redirect(g.ProxyPort) \in Targets(g, "nat", "ISTIO_REDIRECT") /\ "ISTIO_REDIRECT" \notin {"OUTPUT", "ISTIO_OUTPUT"}
      BY TargetsOf
    <3> QED BY <3>1, <3>2, AppendCalm
  <2>6. AppendRule(g, TRUE, "nat", "ISTIO_IN_REDIRECT", {Tcp}, Redirect(g.InboundCapturePort)) \in Seq(Calm(g))
    <3>1. {Tcp} \in SUBSET Condition
      BY Conditions
    <3>2. Redirect(g.InboundCapturePort) \in Targets(g, "nat", "ISTIO_IN_REDIRECT") /\ "ISTIO_IN_REDIRECT" \notin {"OUTPUT", "ISTIO_OUTPUT"}
      BY TargetsOf
    <3> QED BY <3>1, <3>2, AppendCalm
  <2>7. handleInboundPortsInclude(g) \in Seq(Calm(g))
    BY InboundPortsCalm
  <2> QED BY <2>1, <2>2, <2>3, <2>4, <2>5, <2>6, <2>7, SeqParts
<1>2. InboundRules(g) = shortCircuitExcludeInterfaces(g) \o shortCircuitKubeInternalInterface(g) \o When(g.DropInvalid, AppendRule(g, FALSE, "mangle", "PREROUTING", {Is("ct", "INVALID")}, Jump("DROP"))) \o AppendRule(g, FALSE, "nat", "ISTIO_INBOUND", {Tcp, Is("dport", TunnelPort)}, Return) \o AppendRule(g, FALSE, "nat", "ISTIO_REDIRECT", {Tcp}, Redirect(g.ProxyPort)) \o AppendRule(g, TRUE, "nat", "ISTIO_IN_REDIRECT", {Tcp}, Redirect(g.InboundCapturePort)) \o handleInboundPortsInclude(g)
  BY DEF InboundRules
<1> QED BY <1>1, <1>2

\* So do those of TPROXY.
LEMMA TProxyLoopCalm ==
    ASSUME NEW g, WellTyped(g)
    PROVE  TProxyLoopRules(g) \in Seq(Calm(g))
<1> DEFINE one1(x) == AppendRule(g, FALSE, "mangle", "OUTPUT", {Tcp} \cup {Not("dst", Lo1), Is("oif", "lo"), Is("uid", x)}, <<"MARK", outboundMark>>)
           all1 == [i \in DOMAIN g.ProxyUID |-> one1(g.ProxyUID[i])]
           one2(x) == AppendRule(g, FALSE, "mangle", "OUTPUT", {Tcp} \cup {Not("dst", Lo1), Is("oif", "lo"), Is("gid", x)}, <<"MARK", outboundMark>>)
           all2 == [i \in DOMAIN g.ProxyGID |-> one2(g.ProxyGID[i])]
<1> HIDE DEF one1, all1, one2, all2
<1>1. When(g.InboundInterceptionMode = "TPROXY", AppendRule(g, FALSE, "mangle", "PREROUTING", {Tcp} \cup {Is("mark", TProxyMark)}, Jump("SAVEMARK")) \o AppendRule(g, FALSE, "mangle", "OUTPUT", {Tcp} \cup {Is("oif", "lo"), Is("mark", TProxyMark)}, Return) \o FlattenSeq(all1) \o FlattenSeq(all2) \o AppendRule(g, FALSE, "mangle", "OUTPUT", {Tcp} \cup {Is("connmark", TProxyMark)}, Jump("RESTOREMARK")) \o InsertRule(g, FALSE, "mangle", "ISTIO_INBOUND", 1, {Tcp} \cup {Is("mark", TProxyMark)}, Return) \o InsertRule(g, FALSE, "mangle", "ISTIO_INBOUND", 2, {Tcp} \cup {Is("src", Lo6), Is("iif", "lo")}, Return) \o InsertRule(g, FALSE, "mangle", "ISTIO_INBOUND", 3, {Tcp} \cup {Is("iif", "lo"), Not("mark", outboundMark)}, Return)) \in Seq(Calm(g))
  <2>1. AppendRule(g, FALSE, "mangle", "PREROUTING", {Tcp} \cup {Is("mark", TProxyMark)}, Jump("SAVEMARK")) \o AppendRule(g, FALSE, "mangle", "OUTPUT", {Tcp} \cup {Is("oif", "lo"), Is("mark", TProxyMark)}, Return) \o FlattenSeq(all1) \o FlattenSeq(all2) \o AppendRule(g, FALSE, "mangle", "OUTPUT", {Tcp} \cup {Is("connmark", TProxyMark)}, Jump("RESTOREMARK")) \o InsertRule(g, FALSE, "mangle", "ISTIO_INBOUND", 1, {Tcp} \cup {Is("mark", TProxyMark)}, Return) \o InsertRule(g, FALSE, "mangle", "ISTIO_INBOUND", 2, {Tcp} \cup {Is("src", Lo6), Is("iif", "lo")}, Return) \o InsertRule(g, FALSE, "mangle", "ISTIO_INBOUND", 3, {Tcp} \cup {Is("iif", "lo"), Not("mark", outboundMark)}, Return) \in Seq(Calm(g))
    <3>1. AppendRule(g, FALSE, "mangle", "PREROUTING", {Tcp} \cup {Is("mark", TProxyMark)}, Jump("SAVEMARK")) \in Seq(Calm(g))
      <4>1. {Tcp} \cup {Is("mark", TProxyMark)} \in SUBSET Condition
        BY Conditions
      <4>2. Jump("SAVEMARK") \in Targets(g, "mangle", "PREROUTING") /\ "PREROUTING" \notin {"OUTPUT", "ISTIO_OUTPUT"}
        BY TargetsOf
      <4> QED BY <4>1, <4>2, AppendCalm
    <3>2. AppendRule(g, FALSE, "mangle", "OUTPUT", {Tcp} \cup {Is("oif", "lo"), Is("mark", TProxyMark)}, Return) \in Seq(Calm(g))
      <4>1. {Tcp} \cup {Is("oif", "lo"), Is("mark", TProxyMark)} \in SUBSET Condition
        BY Conditions
      <4>2. Return \in Targets(g, "mangle", "OUTPUT") /\ Return # Redirect(AgentDNSPort)
        BY TargetsOf DEF Return, Jump, Redirect
      <4> QED BY <4>1, <4>2, AppendCalm
    <3>3. FlattenSeq(all1) \in Seq(Calm(g))
      <4>1. g.ProxyUID \in Seq(Text)
        BY DEF WellTyped, DNSTyped, Names
      <4>2. ASSUME NEW x \in Text PROVE one1(x) \in Seq(Calm(g))
        <5>1. AppendRule(g, FALSE, "mangle", "OUTPUT", {Tcp} \cup {Not("dst", Lo1), Is("oif", "lo"), Is("uid", x)}, <<"MARK", outboundMark>>) \in Seq(Calm(g))
          <6>1. {Tcp} \cup {Not("dst", Lo1), Is("oif", "lo"), Is("uid", x)} \in SUBSET Condition
            BY <4>2, Conditions
          <6>2. <<"MARK", outboundMark>> \in Targets(g, "mangle", "OUTPUT") /\ <<"MARK", outboundMark>> # Redirect(AgentDNSPort)
            BY TargetsOf DEF Return, Jump, Redirect
          <6> QED BY <6>1, <6>2, AppendCalm
        <5> QED BY <5>1 DEF one1
      <4>3. all1 = [i \in DOMAIN g.ProxyUID |-> all1[i]] /\ \A i \in DOMAIN g.ProxyUID : all1[i] \in Seq(Calm(g))
        BY <4>1, <4>2 DEF all1
      <4> QED BY <4>1, <4>3, EachIn
    <3>4. FlattenSeq(all2) \in Seq(Calm(g))
      <4>1. g.ProxyGID \in Seq(Text)
        BY DEF WellTyped, DNSTyped, Names
      <4>2. ASSUME NEW x \in Text PROVE one2(x) \in Seq(Calm(g))
        <5>1. AppendRule(g, FALSE, "mangle", "OUTPUT", {Tcp} \cup {Not("dst", Lo1), Is("oif", "lo"), Is("gid", x)}, <<"MARK", outboundMark>>) \in Seq(Calm(g))
          <6>1. {Tcp} \cup {Not("dst", Lo1), Is("oif", "lo"), Is("gid", x)} \in SUBSET Condition
            BY <4>2, Conditions
          <6>2. <<"MARK", outboundMark>> \in Targets(g, "mangle", "OUTPUT") /\ <<"MARK", outboundMark>> # Redirect(AgentDNSPort)
            BY TargetsOf DEF Return, Jump, Redirect
          <6> QED BY <6>1, <6>2, AppendCalm
        <5> QED BY <5>1 DEF one2
      <4>3. all2 = [i \in DOMAIN g.ProxyGID |-> all2[i]] /\ \A i \in DOMAIN g.ProxyGID : all2[i] \in Seq(Calm(g))
        BY <4>1, <4>2 DEF all2
      <4> QED BY <4>1, <4>3, EachIn
    <3>5. AppendRule(g, FALSE, "mangle", "OUTPUT", {Tcp} \cup {Is("connmark", TProxyMark)}, Jump("RESTOREMARK")) \in Seq(Calm(g))
      <4>1. {Tcp} \cup {Is("connmark", TProxyMark)} \in SUBSET Condition
        BY Conditions
      <4>2. Jump("RESTOREMARK") \in Targets(g, "mangle", "OUTPUT") /\ Jump("RESTOREMARK") # Redirect(AgentDNSPort)
        BY TargetsOf DEF Return, Jump, Redirect
      <4> QED BY <4>1, <4>2, AppendCalm
    <3>6. InsertRule(g, FALSE, "mangle", "ISTIO_INBOUND", 1, {Tcp} \cup {Is("mark", TProxyMark)}, Return) \in Seq(Calm(g))
      <4>1. {Tcp} \cup {Is("mark", TProxyMark)} \in SUBSET Condition
        BY Conditions
      <4>2. Return \in Targets(g, "mangle", "ISTIO_INBOUND") /\ "ISTIO_INBOUND" \notin {"OUTPUT", "ISTIO_OUTPUT"}
        BY TargetsOf
      <4> QED BY <4>1, <4>2, InsertCalm
    <3>7. InsertRule(g, FALSE, "mangle", "ISTIO_INBOUND", 2, {Tcp} \cup {Is("src", Lo6), Is("iif", "lo")}, Return) \in Seq(Calm(g))
      <4>1. {Tcp} \cup {Is("src", Lo6), Is("iif", "lo")} \in SUBSET Condition
        BY Conditions
      <4>2. Return \in Targets(g, "mangle", "ISTIO_INBOUND") /\ "ISTIO_INBOUND" \notin {"OUTPUT", "ISTIO_OUTPUT"}
        BY TargetsOf
      <4> QED BY <4>1, <4>2, InsertCalm
    <3>8. InsertRule(g, FALSE, "mangle", "ISTIO_INBOUND", 3, {Tcp} \cup {Is("iif", "lo"), Not("mark", outboundMark)}, Return) \in Seq(Calm(g))
      <4>1. {Tcp} \cup {Is("iif", "lo"), Not("mark", outboundMark)} \in SUBSET Condition
        BY Conditions
      <4>2. Return \in Targets(g, "mangle", "ISTIO_INBOUND") /\ "ISTIO_INBOUND" \notin {"OUTPUT", "ISTIO_OUTPUT"}
        BY TargetsOf
      <4> QED BY <4>1, <4>2, InsertCalm
    <3> QED BY <3>1, <3>2, <3>3, <3>4, <3>5, <3>6, <3>7, <3>8, SeqParts
  <2> QED BY <2>1, SeqParts DEF When
<1>2. TProxyLoopRules(g) = When(g.InboundInterceptionMode = "TPROXY", AppendRule(g, FALSE, "mangle", "PREROUTING", {Tcp} \cup {Is("mark", TProxyMark)}, Jump("SAVEMARK")) \o AppendRule(g, FALSE, "mangle", "OUTPUT", {Tcp} \cup {Is("oif", "lo"), Is("mark", TProxyMark)}, Return) \o FlattenSeq(all1) \o FlattenSeq(all2) \o AppendRule(g, FALSE, "mangle", "OUTPUT", {Tcp} \cup {Is("connmark", TProxyMark)}, Jump("RESTOREMARK")) \o InsertRule(g, FALSE, "mangle", "ISTIO_INBOUND", 1, {Tcp} \cup {Is("mark", TProxyMark)}, Return) \o InsertRule(g, FALSE, "mangle", "ISTIO_INBOUND", 2, {Tcp} \cup {Is("src", Lo6), Is("iif", "lo")}, Return) \o InsertRule(g, FALSE, "mangle", "ISTIO_INBOUND", 3, {Tcp} \cup {Is("iif", "lo"), Not("mark", outboundMark)}, Return))
  BY DEF TProxyLoopRules, Each, one1, all1, one2, all2
<1> QED BY <1>1, <1>2

\* The rules that the cleaner deletes one by one are in the hooks.
HookKeys == {<<"nat", "OUTPUT">>, <<"nat", "PREROUTING">>, <<"mangle", "PREROUTING">>,
             <<"raw", "OUTPUT">>, <<"raw", "PREROUTING">>}
Hooked(g) == {r \in Calm(g) : <<r.t, r.c>> \in HookKeys /\ r.pos = 0}

\* A rule appended to a hook.
LEMMA AppendHooked ==
    ASSUME NEW g, NEW named, NEW t, NEW c, <<t, c>> \in HookKeys, NEW m \in SUBSET Condition,
           NEW j \in Targets(g, t, c),
           c = "OUTPUT" /\ j = Redirect(AgentDNSPort) => Is("proto", "udp") \in m
    PROVE  /\ AppendRule(g, named, t, c, m, j) \in Seq(Hooked(g))
           /\ Rule(t, c, 0, m, j) \in Hooked(g)
<1>1. t \in Text /\ c \in Text /\ c \in {"OUTPUT", "PREROUTING"}
  BY DEF HookKeys, Text
<1>2. j \in Text \X Text
  <2>1. \A s \in {"RETURN", "ISTIO_OUTPUT", "ISTIO_INBOUND", "ISTIO_REDIRECT", "DROP", "SAVEMARK"} :
            Jump(s) \in Text \X Text
    BY DEF Jump, Text
  <2>2. Redirect(AgentDNSPort) \in Text \X Text /\ <<"CT", "1">> \in Text \X Text
        /\ <<"CT", "2">> \in Text \X Text
    BY DEF Redirect, AgentDNSPort, Text
  <2> QED BY <2>1, <2>2, TargetsOf DEF HookKeys, Return
<1>3. Rule(t, c, 0, m, j) \in Hooked(g)
  BY <1>1, <1>2 DEF Rule, Good, Calm, Hooked, Captures, RuleType
<1>4. Rule(t, c, 0, m, Jump("NFLOG")) \in Hooked(g)
  <2>1. Jump("NFLOG") \in Text \X Text /\ Jump("NFLOG") # Redirect(AgentDNSPort)
    BY DEF Jump, Redirect, AgentDNSPort, Text
  <2> QED BY <1>1, <2>1 DEF Rule, Good, Calm, Hooked, Captures, RuleType
<1>5. ASSUME NEW S, NEW r \in S, NEW l \in S PROVE <<l>> \o <<r>> \in Seq(S) /\ <<>> \o <<r>> \in Seq(S)
  OBVIOUS
<1> QED BY <1>3, <1>4, <1>5 DEF AppendRule

\* Rules in hooks are calm ones.
LEMMA HookedCalm == \A g : Seq(Hooked(g)) \subseteq Seq(Calm(g))
<1>1. \A g : Hooked(g) \subseteq Calm(g)
  BY DEF Hooked
<1>2. ASSUME NEW S, NEW T, S \subseteq T PROVE Seq(S) \subseteq Seq(T)
  BY <1>2
<1> QED BY <1>1, <1>2

\* The members of a list that pass a test are members of the list.
LEMMA SplitType ==
    ASSUME NEW E, NEW list \in Seq(E), NEW f
    PROVE  SplitV4V6(list, f) \in Seq(E)
<1> DEFINE ss == [i \in DOMAIN list |-> When(list[i].fam = f, <<list[i]>>)]
<1>1. ss = [i \in DOMAIN list |-> ss[i]] /\ \A i \in DOMAIN list : ss[i] \in Seq(E)
  BY DEF When
<1>2. SplitV4V6(list, f) = FlattenSeq(ss)
  BY DEF SplitV4V6, Those, Each
<1> HIDE DEF ss
<1> QED BY <1>1, <1>2, EachIn

\* The values of a filter are those of one of its lists.
LEMMA FilterType ==
    ASSUME NEW g, DNSTyped(g)
    PROVE  ParseInterceptFilter(g.OwnerGroupsInclude, g.OwnerGroupsExclude).Values \in Seq(Text)
BY DEF DNSTyped, Names, ParseInterceptFilter

\* A rule for every family.
LEMMA ForAllIn ==
    ASSUME NEW S, NEW E, NEW fams \in Seq(E), NEW r \in Seq(S)
    PROVE  ForAll(fams, r) \in Seq(S)
<1> DEFINE ss == [i \in DOMAIN fams |-> r]
<1>1. ss = [i \in DOMAIN fams |-> ss[i]] /\ \A i \in DOMAIN fams : ss[i] \in Seq(S)
  OBVIOUS
<1>2. ForAll(fams, r) = FlattenSeq(ss)
  BY DEF ForAll, Each
<1> HIDE DEF ss
<1> QED BY <1>1, <1>2, EachIn

\* The rules about DNS over UDP.
LEMMA ZonesHooked ==
    ASSUME NEW g, DNSTyped(g), NEW E, NEW fams \in Seq(E)
    PROVE  addConntrackZoneDNSUDP(g, fams) \in Seq(Hooked(g))
<1> DEFINE one1(x) == ForAll(fams, AppendRule(g, FALSE, "raw", "OUTPUT", {Is("proto", "udp")} \cup {Is("dport", DNSPort), Is("uid", x)}, <<"CT", "1">>)) \o ForAll(fams, AppendRule(g, FALSE, "raw", "OUTPUT", {Is("proto", "udp")} \cup {Is("sport", AgentDNSPort), Is("uid", x)}, <<"CT", "2">>))
           all1 == [i \in DOMAIN g.ProxyUID |-> one1(g.ProxyUID[i])]
           one2(x) == ForAll(fams, AppendRule(g, FALSE, "raw", "OUTPUT", {Is("proto", "udp")} \cup {Is("dport", DNSPort), Is("gid", x)}, <<"CT", "1">>)) \o ForAll(fams, AppendRule(g, FALSE, "raw", "OUTPUT", {Is("proto", "udp")} \cup {Is("sport", AgentDNSPort), Is("gid", x)}, <<"CT", "2">>))
           all2 == [i \in DOMAIN g.ProxyGID |-> one2(g.ProxyGID[i])]
           one4(f, x) == AppendRule(g, FALSE, "raw", "OUTPUT", {Is("proto", "udp")} \cup ({Is("dport", DNSPort)} \cup {Is("dst", x.addr)}), <<"CT", "2">>) \o AppendRule(g, FALSE, "raw", "PREROUTING", {Is("proto", "udp")} \cup ({Is("sport", DNSPort)} \cup {Is("dst", x.addr)}), <<"CT", "1">>)
           all4(f) == [i \in DOMAIN SplitV4V6(g.DNSServers, f) |-> one4(f, SplitV4V6(g.DNSServers, f)[i])]
           one3(f) == FlattenSeq(all4(f))
           all3 == [i \in DOMAIN fams |-> one3(fams[i])]
           last == (IF g.CaptureAllDNS THEN ForAll(fams, AppendRule(g, FALSE, "raw", "OUTPUT", {Is("proto", "udp")} \cup ({Is("dport", DNSPort)} \cup {}), <<"CT", "2">>)) \o ForAll(fams, AppendRule(g, FALSE, "raw", "PREROUTING", {Is("proto", "udp")} \cup ({Is("sport", DNSPort)} \cup {}), <<"CT", "1">>)) ELSE FlattenSeq(all3))
<1> HIDE DEF one1, all1, one2, all2, one4, all4, one3, all3, last
<1>1. FlattenSeq(all1) \o FlattenSeq(all2) \o last \in Seq(Hooked(g))
  <2>1. FlattenSeq(all1) \in Seq(Hooked(g))
    <3>1. g.ProxyUID \in Seq(Text)
      BY DEF DNSTyped, Names
    <3>2. ASSUME NEW x \in Text PROVE one1(x) \in Seq(Hooked(g))
      <4>1. ForAll(fams, AppendRule(g, FALSE, "raw", "OUTPUT", {Is("proto", "udp")} \cup {Is("dport", DNSPort), Is("uid", x)}, <<"CT", "1">>)) \o ForAll(fams, AppendRule(g, FALSE, "raw", "OUTPUT", {Is("proto", "udp")} \cup {Is("sport", AgentDNSPort), Is("uid", x)}, <<"CT", "2">>)) \in Seq(Hooked(g))
        <5>1. ForAll(fams, AppendRule(g, FALSE, "raw", "OUTPUT", {Is("proto", "udp")} \cup {Is("dport", DNSPort), Is("uid", x)}, <<"CT", "1">>)) \in Seq(Hooked(g))
          <6>1. AppendRule(g, FALSE, "raw", "OUTPUT", {Is("proto", "udp")} \cup {Is("dport", DNSPort), Is("uid", x)}, <<"CT", "1">>) \in Seq(Hooked(g))
            <7>1. {Is("proto", "udp")} \cup {Is("dport", DNSPort), Is("uid", x)} \in SUBSET Condition
              BY <3>2, Conditions
            <7>2. <<"CT", "1">> \in Targets(g, "raw", "OUTPUT") /\ <<"CT", "1">> # Redirect(AgentDNSPort)
              BY TargetsOf DEF Return, Jump, Redirect
            <7>3. <<"raw", "OUTPUT">> \in HookKeys
              BY DEF HookKeys
            <7> QED BY <7>1, <7>2, <7>3, AppendHooked
          <6> QED BY <6>1, ForAllIn
        <5>2. ForAll(fams, AppendRule(g, FALSE, "raw", "OUTPUT", {Is("proto", "udp")} \cup {Is("sport", AgentDNSPort), Is("uid", x)}, <<"CT", "2">>)) \in Seq(Hooked(g))
          <6>1. AppendRule(g, FALSE, "raw", "OUTPUT", {Is("proto", "udp")} \cup {Is("sport", AgentDNSPort), Is("uid", x)}, <<"CT", "2">>) \in Seq(Hooked(g))
            <7>1. {Is("proto", "udp")} \cup {Is("sport", AgentDNSPort), Is("uid", x)} \in SUBSET Condition
              BY <3>2, Conditions
            <7>2. <<"CT", "2">> \in Targets(g, "raw", "OUTPUT") /\ <<"CT", "2">> # Redirect(AgentDNSPort)
              BY TargetsOf DEF Return, Jump, Redirect
            <7>3. <<"raw", "OUTPUT">> \in HookKeys
              BY DEF HookKeys
            <7> QED BY <7>1, <7>2, <7>3, AppendHooked
          <6> QED BY <6>1, ForAllIn
        <5> QED BY <5>1, <5>2, SeqParts
      <4> QED BY <4>1 DEF one1
    <3>3. all1 = [i \in DOMAIN g.ProxyUID |-> all1[i]] /\ \A i \in DOMAIN g.ProxyUID : all1[i] \in Seq(Hooked(g))
      BY <3>1, <3>2 DEF all1
    <3> QED BY <3>1, <3>3, EachIn
  <2>2. FlattenSeq(all2) \in Seq(Hooked(g))
    <3>1. g.ProxyGID \in Seq(Text)
      BY DEF DNSTyped, Names
    <3>2. ASSUME NEW x \in Text PROVE one2(x) \in Seq(Hooked(g))
      <4>1. ForAll(fams, AppendRule(g, FALSE, "raw", "OUTPUT", {Is("proto", "udp")} \cup {Is("dport", DNSPort), Is("gid", x)}, <<"CT", "1">>)) \o ForAll(fams, AppendRule(g, FALSE, "raw", "OUTPUT", {Is("proto", "udp")} \cup {Is("sport", AgentDNSPort), Is("gid", x)}, <<"CT", "2">>)) \in Seq(Hooked(g))
        <5>1. ForAll(fams, AppendRule(g, FALSE, "raw", "OUTPUT", {Is("proto", "udp")} \cup {Is("dport", DNSPort), Is("gid", x)}, <<"CT", "1">>)) \in Seq(Hooked(g))
          <6>1. AppendRule(g, FALSE, "raw", "OUTPUT", {Is("proto", "udp")} \cup {Is("dport", DNSPort), Is("gid", x)}, <<"CT", "1">>) \in Seq(Hooked(g))
            <7>1. {Is("proto", "udp")} \cup {Is("dport", DNSPort), Is("gid", x)} \in SUBSET Condition
              BY <3>2, Conditions
            <7>2. <<"CT", "1">> \in Targets(g, "raw", "OUTPUT") /\ <<"CT", "1">> # Redirect(AgentDNSPort)
              BY TargetsOf DEF Return, Jump, Redirect
            <7>3. <<"raw", "OUTPUT">> \in HookKeys
              BY DEF HookKeys
            <7> QED BY <7>1, <7>2, <7>3, AppendHooked
          <6> QED BY <6>1, ForAllIn
        <5>2. ForAll(fams, AppendRule(g, FALSE, "raw", "OUTPUT", {Is("proto", "udp")} \cup {Is("sport", AgentDNSPort), Is("gid", x)}, <<"CT", "2">>)) \in Seq(Hooked(g))
          <6>1. AppendRule(g, FALSE, "raw", "OUTPUT", {Is("proto", "udp")} \cup {Is("sport", AgentDNSPort), Is("gid", x)}, <<"CT", "2">>) \in Seq(Hooked(g))
            <7>1. {Is("proto", "udp")} \cup {Is("sport", AgentDNSPort), Is("gid", x)} \in SUBSET Condition
              BY <3>2, Conditions
            <7>2. <<"CT", "2">> \in Targets(g, "raw", "OUTPUT") /\ <<"CT", "2">> # Redirect(AgentDNSPort)
              BY TargetsOf DEF Return, Jump, Redirect
            <7>3. <<"raw", "OUTPUT">> \in HookKeys
              BY DEF HookKeys
            <7> QED BY <7>1, <7>2, <7>3, AppendHooked
          <6> QED BY <6>1, ForAllIn
        <5> QED BY <5>1, <5>2, SeqParts
      <4> QED BY <4>1 DEF one2
    <3>3. all2 = [i \in DOMAIN g.ProxyGID |-> all2[i]] /\ \A i \in DOMAIN g.ProxyGID : all2[i] \in Seq(Hooked(g))
      BY <3>1, <3>2 DEF all2
    <3> QED BY <3>1, <3>3, EachIn
  <2>3. last \in Seq(Hooked(g))
    <3>1. (IF g.CaptureAllDNS THEN ForAll(fams, AppendRule(g, FALSE, "raw", "OUTPUT", {Is("proto", "udp")} \cup ({Is("dport", DNSPort)} \cup {}), <<"CT", "2">>)) \o ForAll(fams, AppendRule(g, FALSE, "raw", "PREROUTING", {Is("proto", "udp")} \cup ({Is("sport", DNSPort)} \cup {}), <<"CT", "1">>)) ELSE FlattenSeq(all3)) \in Seq(Hooked(g))
      <4>1. ASSUME g.CaptureAllDNS PROVE ForAll(fams, AppendRule(g, FALSE, "raw", "OUTPUT", {Is("proto", "udp")} \cup ({Is("dport", DNSPort)} \cup {}), <<"CT", "2">>)) \o ForAll(fams, AppendRule(g, FALSE, "raw", "PREROUTING", {Is("proto", "udp")} \cup ({Is("sport", DNSPort)} \cup {}), <<"CT", "1">>)) \in Seq(Hooked(g))
        <5>1. ForAll(fams, AppendRule(g, FALSE, "raw", "OUTPUT", {Is("proto", "udp")} \cup ({Is("dport", DNSPort)} \cup {}), <<"CT", "2">>)) \in Seq(Hooked(g))
          <6>1. AppendRule(g, FALSE, "raw", "OUTPUT", {Is("proto", "udp")} \cup ({Is("dport", DNSPort)} \cup {}), <<"CT", "2">>) \in Seq(Hooked(g))
            <7>1. {Is("proto", "udp")} \cup ({Is("dport", DNSPort)} \cup {}) \in SUBSET Condition
              BY <4>1, Conditions
            <7>2. <<"CT", "2">> \in Targets(g, "raw", "OUTPUT") /\ <<"CT", "2">> # Redirect(AgentDNSPort)
              BY TargetsOf DEF Return, Jump, Redirect
            <7>3. <<"raw", "OUTPUT">> \in HookKeys
              BY DEF HookKeys
            <7> QED BY <7>1, <7>2, <7>3, AppendHooked
          <6> QED BY <6>1, ForAllIn
        <5>2. ForAll(fams, AppendRule(g, FALSE, "raw", "PREROUTING", {Is("proto", "udp")} \cup ({Is("sport", DNSPort)} \cup {}), <<"CT", "1">>)) \in Seq(Hooked(g))
          <6>1. AppendRule(g, FALSE, "raw", "PREROUTING", {Is("proto", "udp")} \cup ({Is("sport", DNSPort)} \cup {}), <<"CT", "1">>) \in Seq(Hooked(g))
            <7>1. {Is("proto", "udp")} \cup ({Is("sport", DNSPort)} \cup {}) \in SUBSET Condition
              BY <4>1, Conditions
            <7>2. <<"CT", "1">> \in Targets(g, "raw", "PREROUTING") /\ "PREROUTING" \notin {"OUTPUT", "ISTIO_OUTPUT"}
              BY TargetsOf
            <7>3. <<"raw", "PREROUTING">> \in HookKeys
              BY DEF HookKeys
            <7> QED BY <7>1, <7>2, <7>3, AppendHooked
          <6> QED BY <6>1, ForAllIn
        <5> QED BY <5>1, <5>2, SeqParts
      <4>2. ASSUME ~(g.CaptureAllDNS) PROVE FlattenSeq(all3) \in Seq(Hooked(g))
        <5>1. fams \in Seq(E)
          BY <4>2, SeqParts
        <5>2. ASSUME NEW f \in E PROVE one3(f) \in Seq(Hooked(g))
          <6>1. FlattenSeq(all4(f)) \in Seq(Hooked(g))
            <7>1. SplitV4V6(g.DNSServers, f) \in Seq(Server)
              BY <4>2, <5>2, SplitType DEF DNSTyped
            <7>2. ASSUME NEW x \in Server PROVE one4(f, x) \in Seq(Hooked(g))
              <8>1. AppendRule(g, FALSE, "raw", "OUTPUT", {Is("proto", "udp")} \cup ({Is("dport", DNSPort)} \cup {Is("dst", x.addr)}), <<"CT", "2">>) \o AppendRule(g, FALSE, "raw", "PREROUTING", {Is("proto", "udp")} \cup ({Is("sport", DNSPort)} \cup {Is("dst", x.addr)}), <<"CT", "1">>) \in Seq(Hooked(g))
                <9>1. AppendRule(g, FALSE, "raw", "OUTPUT", {Is("proto", "udp")} \cup ({Is("dport", DNSPort)} \cup {Is("dst", x.addr)}), <<"CT", "2">>) \in Seq(Hooked(g))
                  <10>1. {Is("proto", "udp")} \cup ({Is("dport", DNSPort)} \cup {Is("dst", x.addr)}) \in SUBSET Condition
                    BY <4>2, <5>2, <7>2, Conditions DEF Server
                  <10>2. <<"CT", "2">> \in Targets(g, "raw", "OUTPUT") /\ <<"CT", "2">> # Redirect(AgentDNSPort)
                    BY TargetsOf DEF Return, Jump, Redirect
                  <10>3. <<"raw", "OUTPUT">> \in HookKeys
                    BY DEF HookKeys
                  <10> QED BY <10>1, <10>2, <10>3, AppendHooked
                <9>2. AppendRule(g, FALSE, "raw", "PREROUTING", {Is("proto", "udp")} \cup ({Is("sport", DNSPort)} \cup {Is("dst", x.addr)}), <<"CT", "1">>) \in Seq(Hooked(g))
                  <10>1. {Is("proto", "udp")} \cup ({Is("sport", DNSPort)} \cup {Is("dst", x.addr)}) \in SUBSET Condition
                    BY <4>2, <5>2, <7>2, Conditions DEF Server
                  <10>2. <<"CT", "1">> \in Targets(g, "raw", "PREROUTING") /\ "PREROUTING" \notin {"OUTPUT", "ISTIO_OUTPUT"}
                    BY TargetsOf
                  <10>3. <<"raw", "PREROUTING">> \in HookKeys
                    BY DEF HookKeys
                  <10> QED BY <10>1, <10>2, <10>3, AppendHooked
                <9> QED BY <9>1, <9>2, SeqParts
              <8> QED BY <8>1 DEF one4
            <7>3. all4(f) = [i \in DOMAIN SplitV4V6(g.DNSServers, f) |-> all4(f)[i]] /\ \A i \in DOMAIN SplitV4V6(g.DNSServers, f) : all4(f)[i] \in Seq(Hooked(g))
              BY <7>1, <7>2 DEF all4
            <7> QED BY <7>1, <7>3, EachIn
          <6> QED BY <6>1 DEF one3
        <5>3. all3 = [i \in DOMAIN fams |-> all3[i]] /\ \A i \in DOMAIN fams : all3[i] \in Seq(Hooked(g))
          BY <5>1, <5>2 DEF all3
        <5> QED BY <5>1, <5>3, EachIn
      <4> QED BY <4>1, <4>2
    <3> QED BY <3>1 DEF last
  <2> QED BY <2>1, <2>2, <2>3, SeqParts
<1>2. addConntrackZoneDNSUDP(g, fams) = FlattenSeq(all1) \o FlattenSeq(all2) \o last
  BY DEF addConntrackZoneDNSUDP, ForServers, Each, one1, all1, one2, all2, one4, all4, one3, all3, last
<1> QED BY <1>1, <1>2

\* The DNS rules for UDP are in hooks.
LEMMA DNSUDPHooked ==
    ASSUME NEW g, DNSTyped(g), NEW E, NEW fams \in Seq(E)
    PROVE  HandleDNSUDP(g, fams) \in Seq(Hooked(g))
<1> DEFINE filter == ParseInterceptFilter(g.OwnerGroupsInclude, g.OwnerGroupsExclude)
           one1(x) == ForAll(fams, AppendRule(g, FALSE, "nat", "OUTPUT", {Is("proto", "udp"), Is("dport", DNSPort)} \cup {Is("uid", x)}, Return))
           all1 == [i \in DOMAIN g.ProxyUID |-> one1(g.ProxyUID[i])]
           one2(x) == ForAll(fams, AppendRule(g, FALSE, "nat", "OUTPUT", {Is("proto", "udp"), Is("dport", DNSPort)} \cup {Is("gid", x)}, Return))
           all2 == [i \in DOMAIN g.ProxyGID |-> one2(g.ProxyGID[i])]
           one3(x) == ForAll(fams, AppendRule(g, FALSE, "nat", "OUTPUT", {Is("proto", "udp"), Is("dport", DNSPort)} \cup {Is("gid", x)}, Return))
           all3 == [i \in DOMAIN filter.Values |-> one3(filter.Values[i])]
           groups == (IF filter.Except THEN FlattenSeq(all3) ELSE ForAll(fams, AppendRule(g, FALSE, "nat", "OUTPUT", {Is("proto", "udp"), Is("dport", DNSPort)} \cup {Not("gid", filter.Values[i]) : i \in DOMAIN filter.Values}, Return)))
           one5(f, x) == AppendRule(g, FALSE, "nat", "OUTPUT", {Is("proto", "udp"), Is("dport", DNSPort)} \cup {Is("dst", x.addr)}, Redirect(AgentDNSPort))
           all5(f) == [i \in DOMAIN SplitV4V6(g.DNSServers, f) |-> one5(f, SplitV4V6(g.DNSServers, f)[i])]
           one4(f) == FlattenSeq(all5(f))
           all4 == [i \in DOMAIN fams |-> one4(fams[i])]
           redirected == (IF g.CaptureAllDNS THEN ForAll(fams, AppendRule(g, FALSE, "nat", "OUTPUT", {Is("proto", "udp"), Is("dport", DNSPort)} \cup {}, Redirect(AgentDNSPort))) ELSE FlattenSeq(all4))
<1> HIDE DEF filter, one1, all1, one2, all2, one3, all3, groups, one5, all5, one4, all4, redirected
<1>0. filter.Values \in Seq(Text)
  BY FilterType DEF filter
<1>1. FlattenSeq(all1) \o FlattenSeq(all2) \o groups \o redirected \o addConntrackZoneDNSUDP(g, fams) \in Seq(Hooked(g))
  <2>1. FlattenSeq(all1) \in Seq(Hooked(g))
    <3>1. g.ProxyUID \in Seq(Text)
      BY <1>0 DEF DNSTyped, Names
    <3>2. ASSUME NEW x \in Text PROVE one1(x) \in Seq(Hooked(g))
      <4>1. ForAll(fams, AppendRule(g, FALSE, "nat", "OUTPUT", {Is("proto", "udp"), Is("dport", DNSPort)} \cup {Is("uid", x)}, Return)) \in Seq(Hooked(g))
        <5>1. AppendRule(g, FALSE, "nat", "OUTPUT", {Is("proto", "udp"), Is("dport", DNSPort)} \cup {Is("uid", x)}, Return) \in Seq(Hooked(g))
          <6>1. {Is("proto", "udp"), Is("dport", DNSPort)} \cup {Is("uid", x)} \in SUBSET Condition
            BY <1>0, <3>2, Conditions
          <6>2. Return \in Targets(g, "nat", "OUTPUT") /\ Return # Redirect(AgentDNSPort)
            BY TargetsOf DEF Return, Jump, Redirect
          <6>3. <<"nat", "OUTPUT">> \in HookKeys
            BY DEF HookKeys
          <6> QED BY <6>1, <6>2, <6>3, AppendHooked
        <5> QED BY <5>1, ForAllIn
      <4> QED BY <4>1 DEF one1
    <3>3. all1 = [i \in DOMAIN g.ProxyUID |-> all1[i]] /\ \A i \in DOMAIN g.ProxyUID : all1[i] \in Seq(Hooked(g))
      BY <3>1, <3>2 DEF all1
    <3> QED BY <3>1, <3>3, EachIn
  <2>2. FlattenSeq(all2) \in Seq(Hooked(g))
    <3>1. g.ProxyGID \in Seq(Text)
      BY <1>0 DEF DNSTyped, Names
    <3>2. ASSUME NEW x \in Text PROVE one2(x) \in Seq(Hooked(g))
      <4>1. ForAll(fams, AppendRule(g, FALSE, "nat", "OUTPUT", {Is("proto", "udp"), Is("dport", DNSPort)} \cup {Is("gid", x)}, Return)) \in Seq(Hooked(g))
        <5>1. AppendRule(g, FALSE, "nat", "OUTPUT", {Is("proto", "udp"), Is("dport", DNSPort)} \cup {Is("gid", x)}, Return) \in Seq(Hooked(g))
          <6>1. {Is("proto", "udp"), Is("dport", DNSPort)} \cup {Is("gid", x)} \in SUBSET Condition
            BY <1>0, <3>2, Conditions
          <6>2. Return \in Targets(g, "nat", "OUTPUT") /\ Return # Redirect(AgentDNSPort)
            BY TargetsOf DEF Return, Jump, Redirect
          <6>3. <<"nat", "OUTPUT">> \in HookKeys
            BY DEF HookKeys
          <6> QED BY <6>1, <6>2, <6>3, AppendHooked
        <5> QED BY <5>1, ForAllIn
      <4> QED BY <4>1 DEF one2
    <3>3. all2 = [i \in DOMAIN g.ProxyGID |-> all2[i]] /\ \A i \in DOMAIN g.ProxyGID : all2[i] \in Seq(Hooked(g))
      BY <3>1, <3>2 DEF all2
    <3> QED BY <3>1, <3>3, EachIn
  <2>3. groups \in Seq(Hooked(g))
    <3>1. (IF filter.Except THEN FlattenSeq(all3) ELSE ForAll(fams, AppendRule(g, FALSE, "nat", "OUTPUT", {Is("proto", "udp"), Is("dport", DNSPort)} \cup {Not("gid", filter.Values[i]) : i \in DOMAIN filter.Values}, Return))) \in Seq(Hooked(g))
      <4>1. ASSUME filter.Except PROVE FlattenSeq(all3) \in Seq(Hooked(g))
        <5>1. filter.Values \in Seq(Text)
          BY <1>0, <4>1, SeqParts
        <5>2. ASSUME NEW x \in Text PROVE one3(x) \in Seq(Hooked(g))
          <6>1. ForAll(fams, AppendRule(g, FALSE, "nat", "OUTPUT", {Is("proto", "udp"), Is("dport", DNSPort)} \cup {Is("gid", x)}, Return)) \in Seq(Hooked(g))
            <7>1. AppendRule(g, FALSE, "nat", "OUTPUT", {Is("proto", "udp"), Is("dport", DNSPort)} \cup {Is("gid", x)}, Return) \in Seq(Hooked(g))
              <8>1. {Is("proto", "udp"), Is("dport", DNSPort)} \cup {Is("gid", x)} \in SUBSET Condition
                BY <1>0, <4>1, <5>2, Conditions
              <8>2. Return \in Targets(g, "nat", "OUTPUT") /\ Return # Redirect(AgentDNSPort)
                BY TargetsOf DEF Return, Jump, Redirect
              <8>3. <<"nat", "OUTPUT">> \in HookKeys
                BY DEF HookKeys
              <8> QED BY <8>1, <8>2, <8>3, AppendHooked
            <7> QED BY <7>1, ForAllIn
          <6> QED BY <6>1 DEF one3
        <5>3. all3 = [i \in DOMAIN filter.Values |-> all3[i]] /\ \A i \in DOMAIN filter.Values : all3[i] \in Seq(Hooked(g))
          BY <5>1, <5>2 DEF all3
        <5> QED BY <5>1, <5>3, EachIn
      <4>2. ASSUME ~(filter.Except) PROVE ForAll(fams, AppendRule(g, FALSE, "nat", "OUTPUT", {Is("proto", "udp"), Is("dport", DNSPort)} \cup {Not("gid", filter.Values[i]) : i \in DOMAIN filter.Values}, Return)) \in Seq(Hooked(g))
        <5>1. AppendRule(g, FALSE, "nat", "OUTPUT", {Is("proto", "udp"), Is("dport", DNSPort)} \cup {Not("gid", filter.Values[i]) : i \in DOMAIN filter.Values}, Return) \in Seq(Hooked(g))
          <6>1. {Is("proto", "udp"), Is("dport", DNSPort)} \cup {Not("gid", filter.Values[i]) : i \in DOMAIN filter.Values} \in SUBSET Condition
            BY <1>0, <4>2, Conditions
          <6>2. Return \in Targets(g, "nat", "OUTPUT") /\ Return # Redirect(AgentDNSPort)
            BY TargetsOf DEF Return, Jump, Redirect
          <6>3. <<"nat", "OUTPUT">> \in HookKeys
            BY DEF HookKeys
          <6> QED BY <6>1, <6>2, <6>3, AppendHooked
        <5> QED BY <5>1, ForAllIn
      <4> QED BY <4>1, <4>2
    <3> QED BY <3>1 DEF groups
  <2>4. redirected \in Seq(Hooked(g))
    <3>1. (IF g.CaptureAllDNS THEN ForAll(fams, AppendRule(g, FALSE, "nat", "OUTPUT", {Is("proto", "udp"), Is("dport", DNSPort)} \cup {}, Redirect(AgentDNSPort))) ELSE FlattenSeq(all4)) \in Seq(Hooked(g))
      <4>1. ASSUME g.CaptureAllDNS PROVE ForAll(fams, AppendRule(g, FALSE, "nat", "OUTPUT", {Is("proto", "udp"), Is("dport", DNSPort)} \cup {}, Redirect(AgentDNSPort))) \in Seq(Hooked(g))
        <5>1. AppendRule(g, FALSE, "nat", "OUTPUT", {Is("proto", "udp"), Is("dport", DNSPort)} \cup {}, Redirect(AgentDNSPort)) \in Seq(Hooked(g))
          <6>1. {Is("proto", "udp"), Is("dport", DNSPort)} \cup {} \in SUBSET Condition
            BY <1>0, <4>1, Conditions
          <6>2. Redirect(AgentDNSPort) \in Targets(g, "nat", "OUTPUT") /\ Is("proto", "udp") \in {Is("proto", "udp"), Is("dport", DNSPort)} \cup {}
            BY TargetsOf
          <6>3. <<"nat", "OUTPUT">> \in HookKeys
            BY DEF HookKeys
          <6> QED BY <6>1, <6>2, <6>3, AppendHooked
        <5> QED BY <5>1, ForAllIn
      <4>2. ASSUME ~(g.CaptureAllDNS) PROVE FlattenSeq(all4) \in Seq(Hooked(g))
        <5>1. fams \in Seq(E)
          BY <1>0, <4>2, SeqParts
        <5>2. ASSUME NEW f \in E PROVE one4(f) \in Seq(Hooked(g))
          <6>1. FlattenSeq(all5(f)) \in Seq(Hooked(g))
            <7>1. SplitV4V6(g.DNSServers, f) \in Seq(Server)
              BY <1>0, <4>2, <5>2, SplitType DEF DNSTyped
            <7>2. ASSUME NEW x \in Server PROVE one5(f, x) \in Seq(Hooked(g))
              <8>1. AppendRule(g, FALSE, "nat", "OUTPUT", {Is("proto", "udp"), Is("dport", DNSPort)} \cup {Is("dst", x.addr)}, Redirect(AgentDNSPort)) \in Seq(Hooked(g))
                <9>1. {Is("proto", "udp"), Is("dport", DNSPort)} \cup {Is("dst", x.addr)} \in SUBSET Condition
                  BY <1>0, <4>2, <5>2, <7>2, Conditions DEF Server
                <9>2. Redirect(AgentDNSPort) \in Targets(g, "nat", "OUTPUT") /\ Is("proto", "udp") \in {Is("proto", "udp"), Is("dport", DNSPort)} \cup {Is("dst", x.addr)}
                  BY TargetsOf
                <9>3. <<"nat", "OUTPUT">> \in HookKeys
                  BY DEF HookKeys
                <9> QED BY <9>1, <9>2, <9>3, AppendHooked
              <8> QED BY <8>1 DEF one5
            <7>3. all5(f) = [i \in DOMAIN SplitV4V6(g.DNSServers, f) |-> all5(f)[i]] /\ \A i \in DOMAIN SplitV4V6(g.DNSServers, f) : all5(f)[i] \in Seq(Hooked(g))
              BY <7>1, <7>2 DEF all5
            <7> QED BY <7>1, <7>3, EachIn
          <6> QED BY <6>1 DEF one4
        <5>3. all4 = [i \in DOMAIN fams |-> all4[i]] /\ \A i \in DOMAIN fams : all4[i] \in Seq(Hooked(g))
          BY <5>1, <5>2 DEF all4
        <5> QED BY <5>1, <5>3, EachIn
      <4> QED BY <4>1, <4>2
    <3> QED BY <3>1 DEF redirected
  <2>5. addConntrackZoneDNSUDP(g, fams) \in Seq(Hooked(g))
    BY <1>0, ZonesHooked
  <2> QED BY <2>1, <2>2, <2>3, <2>4, <2>5, SeqParts
<1>2. HandleDNSUDP(g, fams) = FlattenSeq(all1) \o FlattenSeq(all2) \o groups \o redirected \o addConntrackZoneDNSUDP(g, fams)
  BY DEF HandleDNSUDP, ForServers, Each, filter, one1, all1, one2, all2, one3, all3, groups, one5, all5, one4, all4, redirected
<1> QED BY <1>1, <1>2

\* Calm rules are good ones.
LEMMA CalmIsGood == \A g : Seq(Calm(g)) \subseteq Seq(Good(g))
<1>1. \A g : Calm(g) \subseteq Good(g)
  BY DEF Calm
<1>2. ASSUME NEW S, NEW T, S \subseteq T PROVE Seq(S) \subseteq Seq(T)
  BY <1>2
<1> QED BY <1>1, <1>2

\* The blocks of one family.
LEMMA RangeType ==
    ASSUME NEW list \in Seq(Block), NEW f
    PROVE  separateV4V6(list, f).IPNets \in Seq(SUBSET Text)
<1> DEFINE own == SplitV4V6(list, f)
<1>1. own \in Seq(Block)
  BY SplitType
<1>2. separateV4V6(list, f) =
        IF list = AnyRange THEN [IsWildcard |-> TRUE, IPNets |-> <<>>, HasLoopBackIP |-> FALSE]
        ELSE [IsWildcard |-> FALSE, IPNets |-> [i \in DOMAIN own |-> own[i].addrs],
              HasLoopBackIP |-> \E i \in DOMAIN own : own[i].loopback]
  BY Zenon DEF separateV4V6, SplitV4V6, Those, Each
<1>3. separateV4V6(list, f).IPNets = IF list = AnyRange THEN <<>> ELSE [i \in DOMAIN own |-> own[i].addrs]
  <2> HIDE DEF own
  <2> QED BY <1>2
<1> HIDE DEF own
<1>4. \A i \in DOMAIN own : own[i].addrs \in SUBSET Text
  <2>1. \A i \in DOMAIN own : own[i] \in Block
    BY <1>1
  <2>2. \A e \in Block : e.addrs \in SUBSET Text
    BY DEF Block
  <2> QED BY <2>1, <2>2
<1>5. [i \in DOMAIN own |-> own[i].addrs] \in Seq(SUBSET Text)
  BY <1>1, <1>4
<1> QED BY <1>3, <1>5

\* The rules of an owner.
LEMMA OwnerCalm ==
    ASSUME NEW g, WellTyped(g), NEW owner \in {"uid", "gid"}, NEW x \in Text, NEW loop
    PROVE  OwnerRules(g, owner, x, loop) \in Seq(Calm(g))
<1> DEFINE dns == IF g.RedirectDNS THEN {Tcp, Not("dport", DNSPort)} ELSE {}
<1> HIDE DEF dns
<1>0. dns \in SUBSET Condition
  BY Conditions DEF dns
<1>1. OutputRule(g, {Is("oif", "lo"), Not("dst", Lo1), Is(owner, x)} \cup (IF owner = "uid" THEN dns ELSE {}), Jump("ISTIO_IN_REDIRECT")) \o When(~loop, OutputRule(g, {Is("oif", "lo"), Not(owner, x)} \cup dns, Return)) \o OutputRule(g, {Is(owner, x)}, Return) \in Seq(Calm(g))
  <2>1. OutputRule(g, {Is("oif", "lo"), Not("dst", Lo1), Is(owner, x)} \cup (IF owner = "uid" THEN dns ELSE {}), Jump("ISTIO_IN_REDIRECT")) \in Seq(Calm(g))
    <3>1. {Is("oif", "lo"), Not("dst", Lo1), Is(owner, x)} \cup (IF owner = "uid" THEN dns ELSE {}) \in SUBSET Condition
      BY <1>0, Conditions
    <3> QED BY <3>1, OutputGood
  <2>2. When(~loop, OutputRule(g, {Is("oif", "lo"), Not(owner, x)} \cup dns, Return)) \in Seq(Calm(g))
    <3>1. OutputRule(g, {Is("oif", "lo"), Not(owner, x)} \cup dns, Return) \in Seq(Calm(g))
      <4>1. {Is("oif", "lo"), Not(owner, x)} \cup dns \in SUBSET Condition
        BY <1>0, Conditions
      <4> QED BY <4>1, OutputGood
    <3> QED BY <3>1, SeqParts DEF When
  <2>3. OutputRule(g, {Is(owner, x)}, Return) \in Seq(Calm(g))
    <3>1. {Is(owner, x)} \in SUBSET Condition
      BY <1>0, Conditions
    <3> QED BY <3>1, OutputGood
  <2> QED BY <2>1, <2>2, <2>3, SeqParts
<1>2. OwnerRules(g, owner, x, loop) = OutputRule(g, {Is("oif", "lo"), Not("dst", Lo1), Is(owner, x)} \cup (IF owner = "uid" THEN dns ELSE {}), Jump("ISTIO_IN_REDIRECT")) \o When(~loop, OutputRule(g, {Is("oif", "lo"), Not(owner, x)} \cup dns, Return)) \o OutputRule(g, {Is(owner, x)}, Return)
  BY DEF OwnerRules, Each, dns
<1> QED BY <1>1, <1>2

\* The rules of the owner groups are calm.
LEMMA OwnerGroupCalm ==
    ASSUME NEW g, WellTyped(g), NEW filter, filter.Values \in Seq(Text)
    PROVE  handleCaptureByOwnerGroup(g, filter) \in Seq(Calm(g))
<1> DEFINE one1(x) == OutputRule(g, {Is("gid", x)}, Return)
           all1 == [i \in DOMAIN filter.Values |-> one1(filter.Values[i])]
<1> HIDE DEF one1, all1
<1>1. (IF filter.Except THEN FlattenSeq(all1) ELSE OutputRule(g, {Not("gid", filter.Values[i]) : i \in DOMAIN filter.Values}, Return)) \in Seq(Calm(g))
  <2>1. ASSUME filter.Except PROVE FlattenSeq(all1) \in Seq(Calm(g))
    <3>1. filter.Values \in Seq(Text)
      BY <2>1, SeqParts
    <3>2. ASSUME NEW x \in Text PROVE one1(x) \in Seq(Calm(g))
      <4>1. OutputRule(g, {Is("gid", x)}, Return) \in Seq(Calm(g))
        <5>1. {Is("gid", x)} \in SUBSET Condition
          BY <2>1, <3>2, Conditions
        <5> QED BY <5>1, OutputGood
      <4> QED BY <4>1 DEF one1
    <3>3. all1 = [i \in DOMAIN filter.Values |-> all1[i]] /\ \A i \in DOMAIN filter.Values : all1[i] \in Seq(Calm(g))
      BY <3>1, <3>2 DEF all1
    <3> QED BY <3>1, <3>3, EachIn
  <2>2. ASSUME ~(filter.Except) PROVE OutputRule(g, {Not("gid", filter.Values[i]) : i \in DOMAIN filter.Values}, Return) \in Seq(Calm(g))
    <3>1. {Not("gid", filter.Values[i]) : i \in DOMAIN filter.Values} \in SUBSET Condition
      BY <2>2, Conditions
    <3> QED BY <3>1, OutputGood
  <2> QED BY <2>1, <2>2
<1>2. handleCaptureByOwnerGroup(g, filter) = (IF filter.Except THEN FlattenSeq(all1) ELSE OutputRule(g, {Not("gid", filter.Values[i]) : i \in DOMAIN filter.Values}, Return))
  BY DEF handleCaptureByOwnerGroup, Each, one1, all1
<1> QED BY <1>1, <1>2

\* The DNS rules for TCP are good.
LEMMA DNSTcpGood ==
    ASSUME NEW g, WellTyped(g), NEW f
    PROVE  DNSTcpRules(g, f) \in Seq(Good(g))
<1> DEFINE one1(x) == OutputRule(g, {Tcp, Is("dport", DNSPort)} \cup {Is("dst", x.addr)}, Redirect(AgentDNSPort))
           all1 == [i \in DOMAIN SplitV4V6(g.DNSServers, f) |-> one1(SplitV4V6(g.DNSServers, f)[i])]
           dns == (IF g.CaptureAllDNS THEN OutputRule(g, {Tcp, Is("dport", DNSPort)} \cup {}, Redirect(AgentDNSPort)) ELSE FlattenSeq(all1))
<1> HIDE DEF one1, all1, dns
<1>1. When(g.RedirectDNS, dns) \in Seq(Good(g))
  <2>1. dns \in Seq(Good(g))
    <3>1. (IF g.CaptureAllDNS THEN OutputRule(g, {Tcp, Is("dport", DNSPort)} \cup {}, Redirect(AgentDNSPort)) ELSE FlattenSeq(all1)) \in Seq(Good(g))
      <4>1. ASSUME g.CaptureAllDNS PROVE OutputRule(g, {Tcp, Is("dport", DNSPort)} \cup {}, Redirect(AgentDNSPort)) \in Seq(Good(g))
        <5>1. {Tcp, Is("dport", DNSPort)} \cup {} \in SUBSET Condition
          BY <4>1, Conditions
        <5> QED BY <5>1, OutputGood
      <4>2. ASSUME ~(g.CaptureAllDNS) PROVE FlattenSeq(all1) \in Seq(Good(g))
        <5>1. SplitV4V6(g.DNSServers, f) \in Seq(Server)
          BY <4>2, SplitType DEF WellTyped, DNSTyped
        <5>2. ASSUME NEW x \in Server PROVE one1(x) \in Seq(Good(g))
          <6>1. OutputRule(g, {Tcp, Is("dport", DNSPort)} \cup {Is("dst", x.addr)}, Redirect(AgentDNSPort)) \in Seq(Good(g))
            <7>1. {Tcp, Is("dport", DNSPort)} \cup {Is("dst", x.addr)} \in SUBSET Condition
              BY <4>2, <5>2, Conditions DEF Server
            <7> QED BY <7>1, OutputGood
          <6> QED BY <6>1 DEF one1
        <5>3. all1 = [i \in DOMAIN SplitV4V6(g.DNSServers, f) |-> all1[i]] /\ \A i \in DOMAIN SplitV4V6(g.DNSServers, f) : all1[i] \in Seq(Good(g))
          BY <5>1, <5>2 DEF all1
        <5> QED BY <5>1, <5>3, EachIn
      <4> QED BY <4>1, <4>2
    <3> QED BY <3>1 DEF dns
  <2> QED BY <2>1, SeqParts DEF When
<1>2. DNSTcpRules(g, f) = When(g.RedirectDNS, dns)
  BY DEF DNSTcpRules, Each, one1, all1, dns
<1> QED BY <1>1, <1>2

\* So are those of the outbound ports,
LEMMA PortsGood ==
    ASSUME NEW g, WellTyped(g)
    PROVE  handleOutboundPortsInclude(g) \in Seq(Good(g))
<1> DEFINE one1(x) == OutputRule(g, {Tcp, Is("dport", x)}, Jump("ISTIO_REDIRECT"))
           all1 == [i \in DOMAIN g.OutboundPortsInclude |-> one1(g.OutboundPortsInclude[i])]
<1> HIDE DEF one1, all1
<1>1. FlattenSeq(all1) \in Seq(Good(g))
  <2>1. g.OutboundPortsInclude \in Seq(Text)
    BY DEF WellTyped, DNSTyped, Names
  <2>2. ASSUME NEW x \in Text PROVE one1(x) \in Seq(Good(g))
    <3>1. OutputRule(g, {Tcp, Is("dport", x)}, Jump("ISTIO_REDIRECT")) \in Seq(Good(g))
      <4>1. {Tcp, Is("dport", x)} \in SUBSET Condition
        BY <2>2, Conditions
      <4> QED BY <4>1, OutputGood
    <3> QED BY <3>1 DEF one1
  <2>3. all1 = [i \in DOMAIN g.OutboundPortsInclude |-> all1[i]] /\ \A i \in DOMAIN g.OutboundPortsInclude : all1[i] \in Seq(Good(g))
    BY <2>1, <2>2 DEF all1
  <2> QED BY <2>1, <2>3, EachIn
<1>2. handleOutboundPortsInclude(g) = FlattenSeq(all1)
  BY DEF handleOutboundPortsInclude, Each, one1, all1
<1> QED BY <1>1, <1>2

\* and those of the outbound ranges.
LEMMA IncludeGood ==
    ASSUME NEW g, WellTyped(g), NEW range, range.IPNets \in Seq(SUBSET Text)
    PROVE  handleOutboundIncludeRules(g, range) \in Seq(Good(g))
<1> DEFINE one1(y) == InsertRule(g, TRUE, "nat", "PREROUTING", 1, {Is("iif", y)} \cup {}, Jump("ISTIO_REDIRECT"))
           all1 == [i \in DOMAIN g.KubeVirtInterfaces |-> one1(g.KubeVirtInterfaces[i])]
           one3(x, y) == InsertRule(g, TRUE, "nat", "PREROUTING", 1, {Is("iif", y)} \cup {Among("dst", x)}, Jump("ISTIO_REDIRECT"))
           all3(x) == [i \in DOMAIN g.KubeVirtInterfaces |-> one3(x, g.KubeVirtInterfaces[i])]
           one2(x) == FlattenSeq(all3(x)) \o OutputRule(g, {Among("dst", x)}, Jump("ISTIO_REDIRECT"))
           all2 == [i \in DOMAIN range.IPNets |-> one2(range.IPNets[i])]
<1> HIDE DEF one1, all1, one3, all3, one2, all2
<1>1. (IF range.IsWildcard THEN OutputRule(g, {}, Jump("ISTIO_REDIRECT")) \o FlattenSeq(all1) ELSE When(range.IPNets # <<>>, FlattenSeq(all2) \o OutputRule(g, {}, Return))) \in Seq(Good(g))
  <2>1. ASSUME range.IsWildcard PROVE OutputRule(g, {}, Jump("ISTIO_REDIRECT")) \o FlattenSeq(all1) \in Seq(Good(g))
    <3>1. OutputRule(g, {}, Jump("ISTIO_REDIRECT")) \in Seq(Good(g))
      <4>1. {} \in SUBSET Condition
        BY <2>1, Conditions
      <4> QED BY <4>1, OutputGood
    <3>2. FlattenSeq(all1) \in Seq(Good(g))
      <4>1. g.KubeVirtInterfaces \in Seq(Text)
        BY <2>1 DEF WellTyped, DNSTyped, Names
      <4>2. ASSUME NEW y \in Text PROVE one1(y) \in Seq(Good(g))
        <5>1. InsertRule(g, TRUE, "nat", "PREROUTING", 1, {Is("iif", y)} \cup {}, Jump("ISTIO_REDIRECT")) \in Seq(Good(g))
          <6>1. {Is("iif", y)} \cup {} \in SUBSET Condition
            BY <2>1, <4>2, Conditions
          <6>2. Jump("ISTIO_REDIRECT") \in Targets(g, "nat", "PREROUTING") /\ "PREROUTING" \notin {"OUTPUT", "ISTIO_OUTPUT"}
            BY TargetsOf
          <6> QED BY <6>1, <6>2, InsertCalm, CalmIsGood
        <5> QED BY <5>1 DEF one1
      <4>3. all1 = [i \in DOMAIN g.KubeVirtInterfaces |-> all1[i]] /\ \A i \in DOMAIN g.KubeVirtInterfaces : all1[i] \in Seq(Good(g))
        BY <4>1, <4>2 DEF all1
      <4> QED BY <4>1, <4>3, EachIn
    <3> QED BY <3>1, <3>2, SeqParts
  <2>2. ASSUME ~(range.IsWildcard) PROVE When(range.IPNets # <<>>, FlattenSeq(all2) \o OutputRule(g, {}, Return)) \in Seq(Good(g))
    <3>1. FlattenSeq(all2) \o OutputRule(g, {}, Return) \in Seq(Good(g))
      <4>1. FlattenSeq(all2) \in Seq(Good(g))
        <5>1. range.IPNets \in Seq(SUBSET Text)
          BY <2>2, SeqParts
        <5>2. ASSUME NEW x \in SUBSET Text PROVE one2(x) \in Seq(Good(g))
          <6>1. FlattenSeq(all3(x)) \o OutputRule(g, {Among("dst", x)}, Jump("ISTIO_REDIRECT")) \in Seq(Good(g))
            <7>1. FlattenSeq(all3(x)) \in Seq(Good(g))
              <8>1. g.KubeVirtInterfaces \in Seq(Text)
                BY <2>2, <5>2 DEF WellTyped, DNSTyped, Names
              <8>2. ASSUME NEW y \in Text PROVE one3(x, y) \in Seq(Good(g))
                <9>1. InsertRule(g, TRUE, "nat", "PREROUTING", 1, {Is("iif", y)} \cup {Among("dst", x)}, Jump("ISTIO_REDIRECT")) \in Seq(Good(g))
                  <10>1. {Is("iif", y)} \cup {Among("dst", x)} \in SUBSET Condition
                    BY <2>2, <5>2, <8>2, Conditions
                  <10>2. Jump("ISTIO_REDIRECT") \in Targets(g, "nat", "PREROUTING") /\ "PREROUTING" \notin {"OUTPUT", "ISTIO_OUTPUT"}
                    BY TargetsOf
                  <10> QED BY <10>1, <10>2, InsertCalm, CalmIsGood
                <9> QED BY <9>1 DEF one3
              <8>3. all3(x) = [i \in DOMAIN g.KubeVirtInterfaces |-> all3(x)[i]] /\ \A i \in DOMAIN g.KubeVirtInterfaces : all3(x)[i] \in Seq(Good(g))
                BY <8>1, <8>2 DEF all3
              <8> QED BY <8>1, <8>3, EachIn
            <7>2. OutputRule(g, {Among("dst", x)}, Jump("ISTIO_REDIRECT")) \in Seq(Good(g))
              <8>1. {Among("dst", x)} \in SUBSET Condition
                BY <2>2, <5>2, Conditions
              <8> QED BY <8>1, OutputGood
            <7> QED BY <7>1, <7>2, SeqParts
          <6> QED BY <6>1 DEF one2
        <5>3. all2 = [i \in DOMAIN range.IPNets |-> all2[i]] /\ \A i \in DOMAIN range.IPNets : all2[i] \in Seq(Good(g))
          BY <5>1, <5>2 DEF all2
        <5> QED BY <5>1, <5>3, EachIn
      <4>2. OutputRule(g, {}, Return) \in Seq(Good(g))
        <5>1. {} \in SUBSET Condition
          BY <2>2, Conditions
        <5> QED BY <5>1, OutputGood
      <4> QED BY <4>1, <4>2, SeqParts
    <3> QED BY <3>1, SeqParts DEF When
  <2> QED BY <2>1, <2>2
<1>2. handleOutboundIncludeRules(g, range) = (IF range.IsWildcard THEN OutputRule(g, {}, Jump("ISTIO_REDIRECT")) \o FlattenSeq(all1) ELSE When(range.IPNets # <<>>, FlattenSeq(all2) \o OutputRule(g, {}, Return)))
  BY DEF handleOutboundIncludeRules, Each, one1, all1, one3, all3, one2, all2
<1> QED BY <1>1, <1>2

\* The rule that leaves the traffic of an owner alone, and those of a
\* configuration.
Shield(owner, x) == Rule("nat", "ISTIO_OUTPUT", 0, {Is(owner, x)}, Return)
Shields(g) == {Shield("uid", g.ProxyUID[i]) : i \in DOMAIN g.ProxyUID}
              \cup {Shield("gid", g.ProxyGID[i]) : i \in DOMAIN g.ProxyGID}

\* No rule of s captures before w.
Holds(s, w) == \E i \in 1 .. Len(s) : s[i] = w
Sheltered(s, w) == \A i \in 1 .. Len(s) : Captures(s[i]) => \E h \in 1 .. (i - 1) : s[h] = w

\* What a concatenation shelters and holds.
LEMMA ShelterConcat ==
    ASSUME NEW R, NEW s \in Seq(R), NEW t \in Seq(R), NEW w
    PROVE  /\ Sheltered(s, w) /\ Sheltered(t, w) => Sheltered(s \o t, w)
           /\ Sheltered(s, w) /\ Holds(s, w) => Sheltered(s \o t, w)
           /\ Holds(s, w) \/ Holds(t, w) => Holds(s \o t, w)
<1> DEFINE u == s \o t
<1>1. /\ Len(s) \in Nat /\ Len(t) \in Nat /\ Len(u) = Len(s) + Len(t)
      /\ \A i \in 1 .. Len(s) : u[i] = s[i]
      /\ \A i \in 1 .. Len(t) : u[Len(s) + i] = t[i]
  OBVIOUS
<1> HIDE DEF u
<1>2. ASSUME Sheltered(s, w), Sheltered(t, w) \/ Holds(s, w) PROVE Sheltered(u, w)
  <2> SUFFICES ASSUME NEW i \in 1 .. Len(u), Captures(u[i]) PROVE \E h \in 1 .. (i - 1) : u[h] = w
    BY DEF Sheltered
  <2>1. CASE i <= Len(s)
    <3>1. i \in 1 .. Len(s) /\ u[i] = s[i]
      BY <1>1, <2>1
    <3>2. PICK h \in 1 .. (i - 1) : s[h] = w
      BY <1>2, <3>1 DEF Sheltered
    <3>3. h \in 1 .. Len(s)
      BY <1>1, <2>1
    <3> QED BY <1>1, <3>2, <3>3
  <2>2. CASE i > Len(s) /\ Holds(s, w)
    <3>1. PICK h \in 1 .. Len(s) : s[h] = w
      BY <2>2 DEF Holds
    <3>2. h \in 1 .. (i - 1)
      BY <1>1, <2>2
    <3> QED BY <1>1, <3>1, <3>2
  <2>3. CASE i > Len(s) /\ Sheltered(t, w)
    <3> DEFINE j == i - Len(s)
    <3>1. j \in 1 .. Len(t) /\ u[i] = t[j]
      BY <1>1, <2>3
    <3>2. PICK h \in 1 .. (j - 1) : t[h] = w
      BY <2>3, <3>1 DEF Sheltered
    <3>3. h \in 1 .. Len(t) /\ Len(s) + h \in 1 .. (i - 1)
      BY <1>1, <2>3, <3>1
    <3> QED BY <1>1, <3>2, <3>3
  <2> QED BY <1>1, <1>2, <2>1, <2>2, <2>3
<1>3. ASSUME Holds(s, w) PROVE Holds(u, w)
  <2>1. PICK h \in 1 .. Len(s) : s[h] = w
    BY <1>3 DEF Holds
  <2>2. h \in 1 .. Len(u) /\ u[h] = w
    BY <1>1, <2>1
  <2> QED BY <2>2 DEF Holds
<1>4. ASSUME Holds(t, w) PROVE Holds(u, w)
  <2>1. PICK h \in 1 .. Len(t) : t[h] = w
    BY <1>4 DEF Holds
  <2>2. Len(s) + h \in 1 .. Len(u) /\ u[Len(s) + h] = w
    BY <1>1, <2>1
  <2> QED BY <2>2 DEF Holds
<1> QED BY <1>2, <1>3, <1>4 DEF u

\* Calm rules need no shelter.
LEMMA CalmSheltered ==
    ASSUME NEW g, NEW s \in Seq(Calm(g)), NEW w PROVE Sheltered(s, w)
<1>1. \A i \in 1 .. Len(s) : s[i] \in Calm(g)
  OBVIOUS
<1> QED BY <1>1 DEF Calm, Sheltered

\* The rules of the owners on one list hold the rule of each.
LEMMA OwnersHold ==
    ASSUME NEW g, WellTyped(g), NEW owner \in {"uid", "gid"}, NEW list \in Seq(Text), NEW loop,
           NEW ss, ss = [i \in DOMAIN list |-> OwnerRules(g, owner, list[i], loop)]
    PROVE  /\ FlattenSeq(ss) \in Seq(Calm(g))
           /\ \A i \in DOMAIN list : Holds(FlattenSeq(ss), Shield(owner, list[i]))
<1>1. \A x \in Text : OwnerRules(g, owner, x, loop) \in Seq(Calm(g))
  BY OwnerCalm
<1>2. ss \in Seq(Seq(Calm(g))) /\ DOMAIN list = 1 .. Len(list) /\ Len(ss) = Len(list)
  <2>1. \A i \in DOMAIN list : ss[i] \in Seq(Calm(g))
    BY <1>1
  <2>2. ss = [i \in DOMAIN list |-> ss[i]]
    OBVIOUS
  <2> QED BY <2>1, <2>2
<1>3. ASSUME NEW x \in Text PROVE Holds(OwnerRules(g, owner, x, loop), Shield(owner, x))
  <2> DEFINE last == OutputRule(g, {Is(owner, x)}, Return)
  <2>1. last \in Seq(Calm(g)) /\ Len(last) = 1 /\ last[1] = Shield(owner, x)
    <3>1. {Is(owner, x)} \in SUBSET Condition
      BY Conditions
    <3> QED BY <3>1, OutputGood, Zenon DEF Shield
  <2>2. Holds(last, Shield(owner, x))
    <3> HIDE DEF last
    <3>1. 1 \in 1 .. Len(last)
      BY <2>1
    <3> QED BY <2>1, <3>1 DEF Holds
  <2> DEFINE dns == IF g.RedirectDNS THEN {Tcp, Not("dport", DNSPort)} ELSE {}
             first == OutputRule(g, {Is("oif", "lo"), Not("dst", Lo1), Is(owner, x)}
                                    \cup (IF owner = "uid" THEN dns ELSE {}), Jump("ISTIO_IN_REDIRECT"))
             second == When(~loop, OutputRule(g, {Is("oif", "lo"), Not(owner, x)} \cup dns, Return))
  <2>3. OwnerRules(g, owner, x, loop) = first \o second \o last
    BY DEF OwnerRules
  <2>4. dns \in SUBSET Condition
    BY Conditions
  <2> HIDE DEF dns
  <2>5. first \in Seq(Calm(g))
    <3>1. {Is("oif", "lo"), Not("dst", Lo1), Is(owner, x)} \cup (IF owner = "uid" THEN dns ELSE {})
            \in SUBSET Condition
      BY <2>4, Conditions
    <3> QED BY <3>1, OutputGood
  <2>6. second \in Seq(Calm(g))
    <3>1. {Is("oif", "lo"), Not(owner, x)} \cup dns \in SUBSET Condition
      BY <2>4, Conditions
    <3>2. OutputRule(g, {Is("oif", "lo"), Not(owner, x)} \cup dns, Return) \in Seq(Calm(g))
      BY <3>1, OutputGood
    <3> QED BY <3>2, SeqParts DEF When
  <2> HIDE DEF first, second, last
  <2> DEFINE before == first \o second
  <2>7. before \in Seq(Calm(g)) /\ OwnerRules(g, owner, x, loop) = before \o last
    BY <2>3, <2>5, <2>6, SeqParts
  <2> HIDE DEF before
  <2>8. Holds(before \o last, Shield(owner, x))
    BY <2>1, <2>2, <2>7, ShelterConcat
  <2> QED BY <2>7, <2>8
<1>4. FlattenPlaced(ss, Len(ss), FlattenSeq(ss)) /\ FlattenSeq(ss) \in Seq(Calm(g))
  BY <1>2, FlattenElements
<1>5. ASSUME NEW i \in DOMAIN list PROVE Holds(FlattenSeq(ss), Shield(owner, list[i]))
  <2>1. list[i] \in Text /\ i \in 1 .. Len(ss) /\ ss[i] = OwnerRules(g, owner, list[i], loop)
    BY <1>2
  <2>2. Holds(ss[i], Shield(owner, list[i]))
    BY <1>3, <2>1
  <2>3. PICK j \in 1 .. Len(ss[i]) : ss[i][j] = Shield(owner, list[i])
    BY <2>2 DEF Holds
  <2>4. \E q \in 1 .. Len(FlattenSeq(ss)) : FlattenSeq(ss)[q] = ss[i][j]
    BY <1>4, <2>1 DEF FlattenPlaced
  <2> QED BY <2>3, <2>4 DEF Holds
<1> QED BY <1>4, <1>5

\* Rules that leave the owners' traffic alone before they capture any.
Safe(s, g) == s \in Seq(Good(g)) /\ \A w \in Shields(g) : Sheltered(s, w) /\ Holds(s, w)

\* What is safe stays so when rules are added behind it.
LEMMA SafeMore ==
    ASSUME NEW g, NEW s, Safe(s, g), NEW t \in Seq(Good(g)) PROVE Safe(s \o t, g)
<1>1. s \o t \in Seq(Good(g)) /\ s \in Seq(Good(g))
  BY SeqParts DEF Safe
<1>2. ASSUME NEW w \in Shields(g) PROVE Sheltered(s \o t, w) /\ Holds(s \o t, w)
  BY <1>1, ShelterConcat DEF Safe
<1> QED BY <1>1, <1>2 DEF Safe

\* The rules about outgoing connections.
LEMMA OutboundSafe ==
    ASSUME NEW g, WellTyped(g), NEW f PROVE Safe(OutboundRules(g, f), g)
<1> DEFINE loop == \E h \in Families : separateV4V6(g.OutboundIPRangesInclude, h).HasLoopBackIP
           nets == separateV4V6(g.OutboundIPRangesExclude, f).IPNets
           filter == ParseInterceptFilter(g.OwnerGroupsInclude, g.OwnerGroupsExclude)
           a1 == AppendRule(g, TRUE, "nat", "OUTPUT", {Tcp}, Jump("ISTIO_OUTPUT"))
           one1(x) == OutputRule(g, {Tcp, Is("dport", x)}, Return)
           all1 == [i \in DOMAIN g.OutboundPortsExclude |-> one1(g.OutboundPortsExclude[i])]
           a3 == OutputRule(g, {Is("oif", "lo"), Is("src", Lo6)}, Return)
           uids == [i \in DOMAIN g.ProxyUID |-> OwnerRules(g, "uid", g.ProxyUID[i], loop)]
           gids == [i \in DOMAIN g.ProxyGID |-> OwnerRules(g, "gid", g.ProxyGID[i], loop)]
           a6 == handleCaptureByOwnerGroup(g, filter)
           a7 == DNSTcpRules(g, f)
           a8 == OutputRule(g, {Is("dst", Lo1)}, Return)
           one2(x) == OutputRule(g, {Among("dst", x)}, Return)
           all2 == [i \in DOMAIN nets |-> one2(nets[i])]
           a10 == handleOutboundPortsInclude(g)
           a11 == handleOutboundIncludeRules(g, separateV4V6(g.OutboundIPRangesInclude, f))
           before == a1 \o FlattenSeq(all1) \o a3
           b4 == before \o FlattenSeq(uids)
           b5 == b4 \o FlattenSeq(gids)
<1> HIDE DEF loop, nets, filter, one1, one2, all1, all2, uids, gids
<1>0. /\ g.ProxyUID \in Seq(Text) /\ g.ProxyGID \in Seq(Text) /\ filter.Values \in Seq(Text)
      /\ nets \in Seq(SUBSET Text)
      /\ separateV4V6(g.OutboundIPRangesInclude, f).IPNets \in Seq(SUBSET Text)
  BY FilterType, RangeType DEF WellTyped, DNSTyped, Names, filter, nets
<1>1. a1 \in Seq(Calm(g))
  <2>1. {Tcp} \in SUBSET Condition
    BY Conditions
  <2>2. Jump("ISTIO_OUTPUT") \in Targets(g, "nat", "OUTPUT") /\ Jump("ISTIO_OUTPUT") # Redirect(AgentDNSPort)
    BY TargetsOf DEF Return, Jump, Redirect
  <2> QED BY <2>1, <2>2, AppendCalm
<1>2. FlattenSeq(all1) \in Seq(Calm(g))
  <2>1. g.OutboundPortsExclude \in Seq(Text)
    BY DEF WellTyped, DNSTyped, Names
  <2>2. ASSUME NEW x \in Text PROVE one1(x) \in Seq(Calm(g))
    <3>1. OutputRule(g, {Tcp, Is("dport", x)}, Return) \in Seq(Calm(g))
      <4>1. {Tcp, Is("dport", x)} \in SUBSET Condition
        BY <2>2, Conditions
      <4> QED BY <4>1, OutputGood
    <3> QED BY <3>1 DEF one1
  <2>3. all1 = [i \in DOMAIN g.OutboundPortsExclude |-> all1[i]] /\ \A i \in DOMAIN g.OutboundPortsExclude : all1[i] \in Seq(Calm(g))
    BY <2>1, <2>2 DEF all1
  <2> QED BY <2>1, <2>3, EachIn
<1>3. a3 \in Seq(Calm(g))
  <2>1. {Is("oif", "lo"), Is("src", Lo6)} \in SUBSET Condition
    BY Conditions
  <2> QED BY <2>1, OutputGood
<1>4. FlattenSeq(uids) \in Seq(Calm(g))
      /\ \A i \in DOMAIN g.ProxyUID : Holds(FlattenSeq(uids), Shield("uid", g.ProxyUID[i]))
  <2>1. uids = [i \in DOMAIN g.ProxyUID |-> OwnerRules(g, "uid", g.ProxyUID[i], loop)]
    BY DEF uids
  <2>2. "uid" \in {"uid", "gid"}
    OBVIOUS
  <2> QED BY <1>0, <2>1, <2>2, OwnersHold, Zenon
<1>5. FlattenSeq(gids) \in Seq(Calm(g))
      /\ \A i \in DOMAIN g.ProxyGID : Holds(FlattenSeq(gids), Shield("gid", g.ProxyGID[i]))
  <2>1. gids = [i \in DOMAIN g.ProxyGID |-> OwnerRules(g, "gid", g.ProxyGID[i], loop)]
    BY DEF gids
  <2>2. "gid" \in {"uid", "gid"}
    OBVIOUS
  <2> QED BY <1>0, <2>1, <2>2, OwnersHold, Zenon
<1>6. a6 \in Seq(Calm(g))
  BY <1>0, OwnerGroupCalm
<1>7. a7 \in Seq(Good(g))
  BY DNSTcpGood
<1>8. a8 \in Seq(Calm(g))
  <2>1. {Is("dst", Lo1)} \in SUBSET Condition
    BY Conditions
  <2> QED BY <2>1, OutputGood
<1>9. FlattenSeq(all2) \in Seq(Calm(g))
  <2>1. nets \in Seq(SUBSET Text)
    BY <1>0
  <2>2. ASSUME NEW x \in SUBSET Text PROVE one2(x) \in Seq(Calm(g))
    <3>1. OutputRule(g, {Among("dst", x)}, Return) \in Seq(Calm(g))
      <4>1. {Among("dst", x)} \in SUBSET Condition
        BY <2>2, Conditions
      <4> QED BY <4>1, OutputGood
    <3> QED BY <3>1 DEF one2
  <2>3. all2 = [i \in DOMAIN nets |-> all2[i]] /\ \A i \in DOMAIN nets : all2[i] \in Seq(Calm(g))
    BY <2>1, <2>2 DEF all2
  <2> QED BY <2>1, <2>3, EachIn
<1>10. a10 \in Seq(Good(g))
  BY PortsGood
<1>11. a11 \in Seq(Good(g))
  BY <1>0, IncludeGood
<1>12. OutboundRules(g, f) = b5 \o a6 \o a7 \o a8 \o FlattenSeq(all2) \o a10 \o a11
  BY DEF OutboundRules, Each, loop, nets, filter, one1, one2, all1, all2, uids, gids
<1> HIDE DEF a1, a3, a6, a7, a8, a10, a11
<1>13. before \in Seq(Calm(g))
  BY <1>1, <1>2, <1>3, SeqParts
<1> HIDE DEF before
<1>14. b4 \in Seq(Calm(g)) /\ \A i \in DOMAIN g.ProxyUID : Holds(b4, Shield("uid", g.ProxyUID[i]))
  BY <1>4, <1>13, SeqParts, ShelterConcat
<1> HIDE DEF b4
<1>15. Safe(b5, g)
  <2>1. b5 \in Seq(Calm(g))
    BY <1>5, <1>14, SeqParts
  <2>2. \A w : Holds(b4, w) \/ Holds(FlattenSeq(gids), w) => Holds(b5, w)
    BY <1>5, <1>14, ShelterConcat
  <2>3. b5 \in Seq(Good(g))
    BY <2>1, CalmIsGood
  <2> HIDE DEF b5
  <2>4. \A w \in Shields(g) : Holds(b5, w)
    BY <1>5, <1>14, <2>2 DEF Shields
  <2> QED BY <2>1, <2>3, <2>4, CalmSheltered DEF Safe
<1> HIDE DEF b5
<1>16. Safe(b5 \o a6, g)
  BY <1>6, <1>15, SafeMore, CalmIsGood
<1>17. Safe(b5 \o a6 \o a7, g)
  BY <1>7, <1>16, SafeMore
<1>18. Safe(b5 \o a6 \o a7 \o a8, g)
  BY <1>8, <1>17, SafeMore, CalmIsGood
<1>19. Safe(b5 \o a6 \o a7 \o a8 \o FlattenSeq(all2), g)
  BY <1>9, <1>18, SafeMore, CalmIsGood
<1>20. Safe(b5 \o a6 \o a7 \o a8 \o FlattenSeq(all2) \o a10, g)
  BY <1>10, <1>19, SafeMore
<1>21. Safe(b5 \o a6 \o a7 \o a8 \o FlattenSeq(all2) \o a10 \o a11, g)
  BY <1>11, <1>20, SafeMore
<1> QED BY <1>12, <1>21

\* The rules of a family: what an owner opens is left alone before anything is
\* captured.
LEMMA RunSheltered ==
    ASSUME NEW g, WellTyped(g), NEW f
    PROVE  RunRules(g, f) \in Seq(Good(g)) /\ \A w \in Shields(g) : Sheltered(RunRules(g, f), w)
<1> DEFINE inb == InboundRules(g)
           outb == OutboundRules(g, f)
           dns == When(g.RedirectDNS, HandleDNSUDP(g, <<f>>))
           tproxy == TProxyLoopRules(g)
<1>1. inb \in Seq(Calm(g)) /\ tproxy \in Seq(Calm(g))
  BY InboundCalm, TProxyLoopCalm
<1>2. dns \in Seq(Calm(g))
  <2>1. <<f>> \in Seq({f})
    OBVIOUS
  <2>2. HandleDNSUDP(g, <<f>>) \in Seq(Calm(g))
    BY <2>1, DNSUDPHooked, HookedCalm DEF WellTyped
  <2> QED BY <2>2, SeqParts DEF When
<1>3. Safe(outb, g)
  BY OutboundSafe
<1>4. RunRules(g, f) = When(f = "v4" \/ g.EnableInboundIPv6, inb \o outb \o dns \o tproxy)
  BY DEF RunRules
<1> HIDE DEF inb, outb, dns, tproxy
<1>5. /\ inb \in Seq(Good(g)) /\ outb \in Seq(Good(g)) /\ dns \in Seq(Good(g)) /\ tproxy \in Seq(Good(g))
      /\ inb \o outb \in Seq(Good(g)) /\ inb \o outb \o dns \in Seq(Good(g))
      /\ inb \o outb \o dns \o tproxy \in Seq(Good(g))
  BY <1>1, <1>2, <1>3, CalmIsGood, SeqParts DEF Safe
<1>6. ASSUME NEW w \in Shields(g) PROVE Sheltered(inb \o outb \o dns \o tproxy, w)
  <2>1. Sheltered(inb, w) /\ Sheltered(outb, w) /\ Sheltered(dns, w) /\ Sheltered(tproxy, w)
    BY <1>1, <1>2, <1>3, CalmSheltered DEF Safe
  <2>2. Sheltered(inb \o outb, w)
    BY <1>5, <2>1, ShelterConcat
  <2>3. Sheltered(inb \o outb \o dns, w)
    BY <1>5, <2>1, <2>2, ShelterConcat
  <2> QED BY <1>5, <2>1, <2>3, ShelterConcat
<1>7. <<>> \in Seq(Good(g)) /\ \A w : Sheltered(<<>>, w)
  BY SeqParts DEF Sheltered
<1> QED BY <1>4, <1>5, <1>6, <1>7 DEF When

-----------------------------------------------------------------------------
(***************************************************************************)
(* What the commands of the two programs do to a sound kernel.             *)
(***************************************************************************)

Hooks == Tables \X {"PREROUTING", "OUTPUT"}
OutKey == <<"nat", "ISTIO_OUTPUT">>

\* The rules that may be in chain o: every chain they name exists.
Content(g, k, o) ==
    {r \in Good(g) : /\ r.t = o[1] /\ r.c = o[2]
                     /\ Builtin(r.j[1]) \/ <<o[1], r.j[1]>> \in DOMAIN k}

\* The chains hold only rules of the program, and in ISTIO_OUTPUT nothing is
\* captured before the owners' traffic is left alone.
Sound(k, g) ==
    /\ k = [o \in DOMAIN k |-> k[o]] /\ DOMAIN k \subseteq Text \X Text
    /\ Hooks \subseteq DOMAIN k
    /\ \A o \in DOMAIN k : k[o] \in Seq(Content(g, k, o))
    /\ OutKey \in DOMAIN k => \A w \in Shields(g) : Sheltered(k[OutKey], w)

Held(k, w) == OutKey \in DOMAIN k /\ Holds(k[OutKey], w)

\* The commands of the capture program: creations and rules.
Makes(g) == {Cmd("N", r.t, r.c, NoRule) : r \in Good(g)} \cup {RuleCmd(r) : r \in Good(g)}
CapCmd(c) == c.op = "A" /\ Captures(c.r)

\* The rules of a sound kernel are well formed.
LEMMA SoundWellFormed ==
    ASSUME NEW k, NEW g, Sound(k, g) PROVE WellFormed(k)
<1>1. \A o \in DOMAIN k : Content(g, k, o) \subseteq RuleType
  BY DEF Content, Good
<1>2. ASSUME NEW o \in DOMAIN k
      PROVE  /\ k[o] \in Seq(RuleType)
             /\ \A i \in 1 .. Len(k[o]) : Builtin(k[o][i].j[1]) \/ <<o[1], k[o][i].j[1]>> \in DOMAIN k
  <2> DEFINE S == Content(g, k, o)
  <2>1. k[o] \in Seq(S) /\ S \subseteq RuleType
    BY <1>1 DEF Sound
  <2>2. \A r \in S : Builtin(r.j[1]) \/ <<o[1], r.j[1]>> \in DOMAIN k
    BY DEF Content
  <2> HIDE DEF S
  <2>3. \A i \in 1 .. Len(k[o]) : k[o][i] \in S
    BY <2>1
  <2> QED BY <2>1, <2>2, <2>3
<1>3. k \in [DOMAIN k -> Seq(RuleType)]
  BY <1>2 DEF Sound
<1> QED BY <1>2, <1>3 DEF WellFormed, Sound

\* An insertion and a removal keep the kind of the elements.
LEMMA InsertRemove ==
    ASSUME NEW S, NEW s \in Seq(S), NEW e \in S
    PROVE  /\ \A n \in 1 .. Len(s) + 1 : InsertAt(s, n, e) \in Seq(S)
           /\ \A n \in 1 .. Len(s) : RemoveAt(s, n) \in Seq(S)
<1>1. \A a, b \in Int : a >= 1 /\ b <= Len(s) => SubSeq(s, a, b) \in Seq(S)
  OBVIOUS
<1>2. <<e>> \in Seq(S) /\ Len(s) \in Nat
  OBVIOUS
<1> QED BY <1>1, <1>2, SeqParts DEF InsertAt, RemoveAt

\* A command that changes what one chain holds.
LEMMA ChainSound ==
    ASSUME NEW k, NEW g, Sound(k, g), NEW key \in DOMAIN k, NEW s \in Seq(Content(g, k, key)),
           key = OutKey => \A w \in Shields(g) : Sheltered(s, w)
    PROVE  Sound([k EXCEPT ![key] = s], g) /\ DOMAIN [k EXCEPT ![key] = s] = DOMAIN k
<1> DEFINE n == [k EXCEPT ![key] = s]
<1>1. n = [o \in DOMAIN k |-> IF o = key THEN s ELSE k[o]]
  BY DEF Sound
<1> HIDE DEF n
<1>2. DOMAIN n = DOMAIN k /\ n[key] = s /\ \A o \in DOMAIN k : o # key => n[o] = k[o]
  BY <1>1
<1>3. n = [o \in DOMAIN n |-> n[o]]
  BY <1>1
<1>4. \A o : Content(g, n, o) = Content(g, k, o)
  BY <1>2, Zenon DEF Content
<1>5. \A o \in DOMAIN n : n[o] \in Seq(Content(g, n, o))
  BY <1>2, <1>4 DEF Sound
<1>6. Sound(n, g)
  BY <1>2, <1>3, <1>5 DEF Sound
<1> QED BY <1>2, <1>6 DEF n

\* A command of the capture program that the kernel takes.
LEMMA MakeSound ==
    ASSUME NEW k, NEW g, Sound(k, g), NEW c \in Makes(g), Accepts(k, c),
           CapCmd(c) => \A w \in Shields(g) : Held(k, w)
    PROVE  /\ Sound(Apply(k, c), g)
           /\ \A w \in Shields(g) : Held(k, w) \/ c = RuleCmd(w) => Held(Apply(k, c), w)
<1> DEFINE key == <<c.t, c.c>>
           n == Apply(k, c)
<1>1. CASE c.op = "N"
  <2>1. PICK r \in Good(g) : c = Cmd("N", r.t, r.c, NoRule)
    BY <1>1 DEF Makes, RuleCmd, Cmd
  <2>2. key \in Text \X Text /\ key \notin DOMAIN k /\ c.t \in Text /\ c.c \in Text
    BY <1>1, <2>1 DEF Cmd, Good, RuleType, Accepts
  <2>3. n = [o \in DOMAIN k \cup {key} |-> IF o = key THEN <<>> ELSE k[o]]
    BY <1>1 DEF Apply
  <2> HIDE DEF n, key
  <2>4. DOMAIN n = DOMAIN k \cup {key} /\ n[key] = <<>> /\ \A o \in DOMAIN k : n[o] = k[o]
    BY <2>2, <2>3
  <2>5. n = [o \in DOMAIN n |-> n[o]]
    BY <2>3
  <2>6. ASSUME NEW o \in DOMAIN n PROVE n[o] \in Seq(Content(g, n, o))
    <3>1. Content(g, k, o) \subseteq Content(g, n, o)
      BY <2>4 DEF Content
    <3>2. ASSUME NEW S, NEW T, S \subseteq T PROVE Seq(S) \subseteq Seq(T)
      BY <3>2
    <3>3. o # key => n[o] \in Seq(Content(g, k, o))
      BY <2>4 DEF Sound
    <3> QED BY <2>4, <3>1, <3>2, <3>3, SeqParts
  <2>7. \A w : Sheltered(<<>>, w)
    BY DEF Sheltered
  <2>8. Sound(n, g)
    BY <2>2, <2>4, <2>5, <2>6, <2>7 DEF Sound
  <2>9. \A w : c # RuleCmd(w)
    BY <1>1 DEF RuleCmd, Cmd
  <2>10. \A w : Held(k, w) => Held(n, w)
    BY <2>4 DEF Held
  <2> QED BY <2>8, <2>9, <2>10 DEF n
<1>2. CASE c.op # "N"
  <2>1. PICK r \in Good(g) : c = RuleCmd(r)
    BY <1>2 DEF Makes, Cmd
  <2>2. /\ c.t = r.t /\ c.c = r.c /\ c.r = r /\ r.pos \in Nat
        /\ c.op = IF r.pos = 0 THEN "A" ELSE "I"
    BY <2>1 DEF RuleCmd, Cmd, Good, RuleType
  <2>3. /\ key \in DOMAIN k /\ (Builtin(r.j[1]) \/ <<c.t, r.j[1]>> \in DOMAIN k)
        /\ r.pos <= Len(k[key]) + 1
    BY <2>2 DEF Accepts
  <2> DEFINE S == Content(g, k, key)
             s == IF r.pos = 0 THEN Append(k[key], r) ELSE InsertAt(k[key], r.pos, r)
  <2>4. r \in S /\ k[key] \in Seq(S) /\ key[1] = c.t /\ key[2] = c.c
    BY <2>2, <2>3 DEF Content, Sound
  <2>5. n = [k EXCEPT ![key] = s]
    BY <2>2 DEF Apply
  <2> HIDE DEF S, n
  <2>6. s \in Seq(S)
    <3>1. r.pos # 0 => r.pos \in 1 .. Len(k[key]) + 1
      BY <2>2, <2>3, <2>4
    <3> QED BY <2>4, <3>1, InsertRemove
  <2>7. ASSUME key = OutKey
        PROVE  /\ r.pos = 0 /\ s = k[key] \o <<r>> /\ s \in Seq(S)
               /\ \A w \in Shields(g) : Sheltered(s, w)
               /\ \A w \in Shields(g) : Holds(k[key], w) \/ c = RuleCmd(w) => Holds(s, w)
    <3>1. r.pos = 0 /\ r.t = "nat" /\ r.c = "ISTIO_OUTPUT"
      BY <2>2, <2>7 DEF OutKey, Good
    <3>2. s = k[key] \o <<r>> /\ <<r>> \in Seq(S) /\ Len(<<r>>) = 1 /\ <<r>>[1] = r
      BY <2>4, <3>1
    <3> DEFINE x == k[key]
               y == <<r>>
    <3>5. x \in Seq(S) /\ y \in Seq(S) /\ s = x \o y /\ Len(y) = 1 /\ y[1] = r
      BY <2>4, <3>2
    <3> HIDE DEF y, s
    <3>3. ASSUME NEW w \in Shields(g) PROVE Sheltered(s, w)
      <4>1. Sheltered(x, w)
        BY <2>3, <2>7 DEF Sound
      <4>2. CASE Captures(r)
        <5>1. Holds(x, w)
          BY <2>2, <2>7, <3>1, <4>2 DEF CapCmd, Held
        <5> HIDE DEF x
        <5> QED BY <3>5, <4>1, <5>1, ShelterConcat
      <4>3. CASE ~Captures(r)
        <5>1. Sheltered(y, w)
          BY <3>5, <4>3 DEF Sheltered
        <5> HIDE DEF x
        <5> QED BY <3>5, <4>1, <5>1, ShelterConcat
      <4> QED BY <4>2, <4>3
    <3>4. ASSUME NEW w \in Shields(g), Holds(x, w) \/ c = RuleCmd(w) PROVE Holds(s, w)
      <4>1. c = RuleCmd(w) => r = w
        BY <2>1 DEF RuleCmd, Cmd
      <4>2. r = w => Holds(y, w)
        BY <3>5 DEF Holds
      <4> HIDE DEF x
      <4> QED BY <3>4, <3>5, <4>1, <4>2, ShelterConcat
    <3> QED BY <2>6, <3>1, <3>2, <3>3, <3>4
  <2>8. Sound(n, g) /\ DOMAIN n = DOMAIN k
    BY <2>3, <2>5, <2>6, <2>7, ChainSound DEF S
  <2>9. n[key] = s /\ \A o \in DOMAIN k : o # key => n[o] = k[o]
    BY <2>3, <2>5 DEF Sound
  <2>10. ASSUME NEW w \in Shields(g), Held(k, w) \/ c = RuleCmd(w) PROVE Held(n, w)
    <3>1. CASE key = OutKey
      BY <2>3, <2>7, <2>8, <2>9, <2>10, <3>1 DEF Held
    <3>2. CASE key # OutKey
      <4>1. c # RuleCmd(w)
        BY <3>2 DEF RuleCmd, Cmd, Shields, Shield, Rule, OutKey
      <4> QED BY <2>8, <2>9, <2>10, <3>2, <4>1 DEF Held
    <3> QED BY <3>1, <3>2
  <2> QED BY <2>8, <2>10 DEF n
<1> QED BY <1>1, <1>2

\* One command of a batch.
Executed(r, c) ==
    IF r.ok /\ Accepts(r.k, c) THEN [ok |-> TRUE, k |-> Apply(r.k, c)] ELSE [ok |-> FALSE, k |-> r.k]

\* What the execution of a batch computes step by step.
LEMMA ExecuteSteps ==
    ASSUME NEW k, NEW b, Len(b) \in Nat
    PROVE  \E f : /\ f[0] = [ok |-> TRUE, k |-> k]
                  /\ \A i \in 1 .. Len(b) : f[i] = Executed(f[i - 1], b[i])
                  /\ Execute(k, b) = f[Len(b)]
<1> DEFINE Start0 == [ok |-> TRUE, k |-> k]
           Next1(i, y) == IF y.ok /\ Accepts(y.k, b[i])
                          THEN [ok |-> TRUE, k |-> Apply(y.k, b[i])] ELSE [ok |-> FALSE, k |-> y.k]
           Made(m) == \E f : f = [i \in 0 .. m |-> IF i = 0 THEN Start0 ELSE Next1(i, f[i - 1])]
           S == {m \in Nat : Made(m)}
<1> HIDE DEF Next1, Start0
<1>1. Made(0)
  <2> DEFINE g == [i \in 0 .. 0 |-> Start0]
  <2>1. g = [i \in 0 .. 0 |-> IF i = 0 THEN Start0 ELSE Next1(i, g[i - 1])]
    BY \A i \in 0 .. 0 : i = 0
  <2> HIDE DEF g
  <2> QED BY <2>1, Zenon
<1>2. ASSUME NEW m \in Nat, Made(m) PROVE Made(m + 1)
  <2>1. PICK f : f = [i \in 0 .. m |-> IF i = 0 THEN Start0 ELSE Next1(i, f[i - 1])]
    BY <1>2
  <2>2. \A i \in 0 .. m : f[i] = IF i = 0 THEN Start0 ELSE Next1(i, f[i - 1])
    BY <2>1, Zenon
  <2> DEFINE g == [i \in 0 .. m + 1 |-> IF i <= m THEN f[i] ELSE Next1(i, f[m])]
  <2>3. ASSUME NEW i \in 0 .. m + 1 PROVE g[i] = IF i = 0 THEN Start0 ELSE Next1(i, g[i - 1])
    <3>1. CASE i <= m
      <4>1. i \in 0 .. m /\ (i # 0 => i - 1 \in 0 .. m + 1 /\ i - 1 <= m)
        BY <3>1
      <4> QED BY <2>2, <3>1, <4>1
    <3>2. CASE i = m + 1
      <4>1. i # 0 /\ i - 1 = m /\ ~(i <= m) /\ m \in 0 .. m + 1 /\ m <= m
        BY <3>2
      <4>2. g[i - 1] = f[m] /\ g[i] = Next1(i, f[m])
        BY <4>1
      <4> QED BY <4>1, <4>2
    <3>3. i <= m \/ i = m + 1
      OBVIOUS
    <3> QED BY <3>1, <3>2, <3>3
  <2>4. g = [i \in 0 .. m + 1 |-> IF i = 0 THEN Start0 ELSE Next1(i, g[i - 1])]
    BY <2>3, Zenon
  <2> HIDE DEF g
  <2> QED BY <2>4, Zenon
<1>3. Made(Len(b))
  <2> HIDE DEF Made
  <2>1. S \in SUBSET Nat /\ 0 \in S /\ \A m \in S : m + 1 \in S
    BY <1>1, <1>2
  <2> HIDE DEF S
  <2>2. Len(b) \in S
    BY <2>1, SetInduction
  <2> QED BY <2>2 DEF S
<1> DEFINE f0 == CHOOSE f : f = [i \in 0 .. Len(b) |-> IF i = 0 THEN Start0 ELSE Next1(i, f[i - 1])]
<1>4. f0 = [i \in 0 .. Len(b) |-> IF i = 0 THEN Start0 ELSE Next1(i, f0[i - 1])]
  BY <1>3, Zenon
<1>5. Execute(k, b) = f0[Len(b)]
  BY Zenon DEF Execute, Next1, Start0
<1> HIDE DEF f0
<1>6. f0[0] = Start0 /\ \A i \in 1 .. Len(b) : f0[i] = Next1(i, f0[i - 1])
  <2>1. \A i \in 0 .. Len(b) : f0[i] = IF i = 0 THEN Start0 ELSE Next1(i, f0[i - 1])
    BY <1>4, Zenon
  <2>2. 0 \in 0 .. Len(b) /\ \A i \in 1 .. Len(b) : i # 0 /\ i \in 0 .. Len(b)
    OBVIOUS
  <2> QED BY <2>1, <2>2, Zenon
<1> QED BY <1>5, <1>6, Zenon DEF Next1, Start0, Executed

\* A batch of the capture program in which every rule that captures comes after
\* the owners' rules, or finds them in the kernel.
LEMMA ExecuteSound ==
    ASSUME NEW k, NEW g, Sound(k, g), NEW b \in Seq(Makes(g)), Execute(k, b).ok,
           \A w \in Shields(g) : \A n \in 1 .. Len(b) :
                CapCmd(b[n]) => Held(k, w) \/ \E l \in 1 .. (n - 1) : b[l] = RuleCmd(w)
    PROVE  /\ Sound(Execute(k, b).k, g)
           /\ \A w \in Shields(g) : Held(k, w) \/ (\E l \in 1 .. Len(b) : b[l] = RuleCmd(w))
                => Held(Execute(k, b).k, w)
<1>1. Len(b) \in Nat /\ \A n \in 1 .. Len(b) : b[n] \in Makes(g)
  OBVIOUS
<1>2. PICK f : /\ f[0] = [ok |-> TRUE, k |-> k]
               /\ \A i \in 1 .. Len(b) : f[i] = Executed(f[i - 1], b[i])
               /\ Execute(k, b) = f[Len(b)]
  BY <1>1, ExecuteSteps
<1> DEFINE Kept(m) == /\ Sound(f[m].k, g)
                      /\ \A w \in Shields(g) : Held(k, w) \/ (\E l \in 1 .. m : b[l] = RuleCmd(w))
                            => Held(f[m].k, w)
           S == {m \in Nat : m <= Len(b) /\ f[m].ok => Kept(m)}
<1>3. Kept(0)
  <2>1. f[0].k = k /\ \A l \in 1 .. 0 : FALSE
    BY <1>2
  <2> QED BY <2>1
<1>4. ASSUME NEW m \in Nat, m + 1 <= Len(b), f[m].ok => Kept(m), f[m + 1].ok PROVE Kept(m + 1)
  <2>1. m + 1 \in 1 .. Len(b) /\ (m + 1) - 1 = m
    BY <1>1, <1>4
  <2> DEFINE c == b[m + 1]
             j == f[m].k
             n == f[m + 1].k
  <2>2. f[m + 1] = Executed(f[m], c) /\ c \in Makes(g)
    BY <1>1, <1>2, <2>1
  <2>3. f[m].ok /\ Accepts(j, c) /\ n = Apply(j, c)
    BY <1>4, <2>2 DEF Executed
  <2>4. Sound(j, g)
    BY <1>4, <2>3
  <2>5. CapCmd(c) => \A w \in Shields(g) : Held(j, w)
    <3> SUFFICES ASSUME CapCmd(c), NEW w \in Shields(g) PROVE Held(j, w)
      OBVIOUS
    <3>1. Held(k, w) \/ \E l \in 1 .. ((m + 1) - 1) : b[l] = RuleCmd(w)
      BY <2>1
    <3> QED BY <1>4, <2>1, <2>3, <3>1
  <2> HIDE DEF c, j, n
  <2>6. Sound(n, g) /\ \A w \in Shields(g) : Held(j, w) \/ c = RuleCmd(w) => Held(n, w)
    BY <2>2, <2>3, <2>4, <2>5, MakeSound
  <2>7. ASSUME NEW w \in Shields(g), Held(k, w) \/ (\E l \in 1 .. m + 1 : b[l] = RuleCmd(w))
        PROVE  Held(n, w)
    <3>1. CASE Held(k, w)
      BY <1>4, <2>3, <2>6, <3>1 DEF j
    <3>2. ASSUME NEW l \in 1 .. m + 1, b[l] = RuleCmd(w) PROVE Held(n, w)
      <4>1. CASE l = m + 1
        BY <2>6, <3>2, <4>1 DEF c
      <4>2. CASE l \in 1 .. m
        BY <1>4, <2>3, <2>6, <3>2, <4>2 DEF j
      <4> QED BY <4>1, <4>2
    <3> QED BY <2>7, <3>1, <3>2
  <2> QED BY <2>6, <2>7 DEF n
<1>5. \A m \in Nat : m \in S
  <2> HIDE DEF Kept
  <2>1. S \in SUBSET Nat /\ 0 \in S
    BY <1>3
  <2>2. ASSUME NEW m \in S PROVE m + 1 \in S
    <3>1. m \in Nat /\ (m + 1 <= Len(b) => m <= Len(b))
      BY <1>1
    <3> QED BY <1>4, <3>1
  <2> HIDE DEF S
  <2> QED BY <2>1, <2>2, SetInduction
<1>6. Kept(Len(b))
  <2> HIDE DEF Kept
  <2>1. Len(b) <= Len(b) /\ f[Len(b)].ok
    BY <1>1, <1>2
  <2> QED BY <1>1, <1>5, <2>1
<1> QED BY <1>2, <1>6

\* The commands of the cleaner: deletions in the hooks, and the chains of the
\* program emptied and removed.
OwnChains == {OutKey, <<"nat", "ISTIO_INBOUND">>, <<"mangle", "ISTIO_INBOUND">>, <<"mangle", "ISTIO_DIVERT">>,
              <<"mangle", "ISTIO_TPROXY">>, <<"nat", "ISTIO_REDIRECT">>, <<"nat", "ISTIO_IN_REDIRECT">>}
Removes(g) == {Cmd("D", r.t, r.c, r) : r \in Hooked(g)}
              \cup {Cmd("F", key[1], key[2], NoRule) : key \in OwnChains}
              \cup {Cmd("X", key[1], key[2], NoRule) : key \in OwnChains}

\* A command of the cleaner, with options h, that the kernel takes.
LEMMA RemoveSound ==
    ASSUME NEW k, NEW g, NEW h, Sound(k, g), NEW c \in Removes(h), Accepts(k, c)
    PROVE  Sound(Apply(k, c), g)
<1> DEFINE key == <<c.t, c.c>>
           n == Apply(k, c)
<1>1. CASE c.op = "D"
  <2>1. key \in HookKeys /\ key # OutKey
    BY <1>1 DEF Removes, Cmd, Hooked, HookKeys, OutKey
  <2>2. key \in DOMAIN k /\ \E i \in DOMAIN k[key] : SameRule(k[key][i], c.r)
    BY <1>1 DEF Accepts
  <2> DEFINE s == k[key]
             S == Content(g, k, key)
  <2>3. s \in Seq(S)
    BY <2>2 DEF Sound
  <2> HIDE DEF S
  <2> DEFINE P(i) == SameRule(s[i], c.r)
             at == CHOOSE i \in DOMAIN s : P(i) /\ \A l \in 1 .. (i - 1) : ~P(l)
  <2>4. at \in 1 .. Len(s)
    <3> HIDE DEF s
    <3>1. \E i \in 1 .. Len(s) : P(i)
      BY <2>2, <2>3 DEF s
    <3> HIDE DEF P
    <3>2. DOMAIN s = 1 .. Len(s) /\ Len(s) \in Nat
      BY <2>3
    <3>3. \E i \in 1 .. Len(s) : P(i) /\ \A l \in 1 .. (i - 1) : ~P(l)
      <4> DEFINE T == {i \in Nat : i >= 1 /\ i <= Len(s) /\ P(i)}
      <4>1. T \in SUBSET Nat /\ T # {}
        BY <3>1, <3>2
      <4>2. PICK i \in T : \A l \in T : i <= l
        BY <4>1, SmallestOf
      <4>3. \A l \in 1 .. (i - 1) : ~P(l)
        BY <4>2, <3>2
      <4> QED BY <4>2, <4>3, <3>2
    <3> QED BY <3>2, <3>3
  <2>5. n = [k EXCEPT ![key] = RemoveAt(s, at)]
    BY <1>1 DEF Apply
  <2> HIDE DEF at, s
  <2>6. RemoveAt(s, at) \in Seq(S)
    <3>1. s[at] \in S
      BY <2>3, <2>4
    <3> QED BY <2>3, <2>4, <3>1, InsertRemove
  <2> HIDE DEF n
  <2>7. Sound(n, g)
    BY <2>1, <2>2, <2>5, <2>6, ChainSound DEF S
  <2> QED BY <2>7 DEF n
<1>2. CASE c.op = "F"
  <2>1. key \in DOMAIN k /\ n = [k EXCEPT ![key] = <<>>]
    BY <1>2 DEF Accepts, Apply
  <2>2. <<>> \in Seq(Content(g, k, key)) /\ \A w : Sheltered(<<>>, w)
    BY SeqParts DEF Sheltered
  <2> HIDE DEF n, key
  <2>3. Sound(n, g)
    BY <2>1, <2>2, ChainSound
  <2> QED BY <2>3 DEF n
<1>3. CASE c.op = "X"
  <2>1. /\ key \in DOMAIN k /\ k[key] = <<>>
        /\ \A o \in DOMAIN k : o[1] = c.t => \A i \in DOMAIN k[o] : k[o][i].j[1] # c.c
    BY <1>3 DEF Accepts
  <2>2. n = [o \in DOMAIN k \ {key} |-> k[o]]
    BY <1>3 DEF Apply
  <2>3. key \in OwnChains
    BY <1>3 DEF Removes, Cmd, OwnChains, OutKey
  <2>4. key \notin Hooks
    BY <2>3 DEF OwnChains, OutKey, Hooks, Tables
  <2> HIDE DEF n
  <2>5. DOMAIN n = DOMAIN k \ {key} /\ \A o \in DOMAIN n : n[o] = k[o]
    BY <2>2
  <2>6. n = [o \in DOMAIN n |-> n[o]]
    BY <2>2
  <2>7. ASSUME NEW o \in DOMAIN n PROVE n[o] \in Seq(Content(g, n, o))
    <3> DEFINE S == Content(g, k, o)
               T == Content(g, n, o)
    <3>1. n[o] \in Seq(S) /\ n[o] = k[o]
      BY <2>5 DEF Sound
    <3>2. ASSUME NEW r \in S, o[1] = c.t => r.j[1] # c.c PROVE r \in T
      BY <2>5, <3>2 DEF Content
    <3> HIDE DEF S, T
    <3>3. \A i \in 1 .. Len(n[o]) : n[o][i] \in S /\ (o[1] = c.t => n[o][i].j[1] # c.c)
      <4>1. DOMAIN n[o] = 1 .. Len(n[o]) /\ o \in DOMAIN k
        BY <2>5, <3>1
      <4> QED BY <2>1, <3>1, <4>1
    <3>4. \A i \in 1 .. Len(n[o]) : n[o][i] \in T
      BY <3>2, <3>3
    <3>5. n[o] \in Seq(T)
      BY <3>1, <3>4
    <3> QED BY <3>5 DEF T
  <2>8. Hooks \subseteq DOMAIN n /\ DOMAIN n \subseteq Text \X Text
    BY <2>4, <2>5 DEF Sound
  <2>9. Sound(n, g)
    BY <2>5, <2>6, <2>7, <2>8 DEF Sound
  <2> QED BY <2>9 DEF n
<1>4. c.op \in {"D", "F", "X"}
  BY DEF Removes, Cmd
<1> QED BY <1>1, <1>2, <1>3, <1>4

\* The execution of a single command.
LEMMA ExecuteOne ==
    ASSUME NEW k, NEW c
    PROVE  /\ Execute(k, <<c>>).ok => Accepts(k, c) /\ Execute(k, <<c>>).k = Apply(k, c)
           /\ Accepts(k, c) => Execute(k, <<c>>).ok
<1>1. Len(<<c>>) = 1 /\ <<c>>[1] = c /\ 1 \in 1 .. 1 /\ 1 - 1 = 0 /\ 1 \in Nat
  OBVIOUS
<1>2. PICK f : /\ f[0] = [ok |-> TRUE, k |-> k]
               /\ \A i \in 1 .. Len(<<c>>) : f[i] = Executed(f[i - 1], <<c>>[i])
               /\ Execute(k, <<c>>) = f[Len(<<c>>)]
  BY <1>1, ExecuteSteps
<1>3. f[1] = Executed(f[0], c) /\ Execute(k, <<c>>) = f[1]
  BY <1>1, <1>2
<1> QED BY <1>2, <1>3 DEF Executed

-----------------------------------------------------------------------------
(***************************************************************************)
(* What the two programs have to do.                                       *)
(***************************************************************************)

\* In a batch, an owner's rule comes before a rule that captures.
CmdSheltered(b, w) ==
    \A n \in 1 .. Len(b) : CapCmd(b[n]) => \E l \in 1 .. (n - 1) : b[l] = RuleCmd(w)

\* The commands of a sheltered list of rules are sheltered.
LEMMA BuildSheltered ==
    ASSUME NEW g, NEW rules \in Seq(Good(g)), \A w \in Shields(g) : Sheltered(rules, w)
    PROVE  buildRules(rules) \in Seq(Makes(g)) /\ \A w \in Shields(g) : CmdSheltered(buildRules(rules), w)
<1> DEFINE K == {<<r.t, r.c>> : r \in Good(g)}
           keys == [i \in DOMAIN rules |-> <<rules[i].t, rules[i].c>>]
           ss == [i \in DOMAIN rules |->
                    When(/\ rules[i].c \notin BuiltInChains
                         /\ \A h \in 1 .. (i - 1) : keys[h] # keys[i], <<keys[i]>>)]
           new == NewChains(rules)
<1>1. DOMAIN rules = 1 .. Len(rules) /\ Len(rules) \in Nat /\ \A i \in DOMAIN rules : rules[i] \in Good(g)
  OBVIOUS
<1>2. new \in Seq(K)
  <2>1. \A i \in DOMAIN rules : keys[i] \in K
    BY <1>1
  <2>2. \A i \in DOMAIN rules : ss[i] \in Seq(K)
    <3> HIDE DEF keys, K
    <3> QED BY <2>1 DEF When
  <2>3. ss = [i \in DOMAIN rules |-> ss[i]]
    OBVIOUS
  <2>4. new = FlattenSeq(ss)
    BY DEF NewChains
  <2> HIDE DEF ss, new, K
  <2> QED BY <2>2, <2>3, <2>4, EachIn
<1> HIDE DEF new
<1> DEFINE a == [i \in DOMAIN new |-> Cmd("N", new[i][1], new[i][2], NoRule)]
           b == [i \in DOMAIN rules |-> RuleCmd(rules[i])]
<1>3. a \in Seq(Makes(g)) /\ \A i \in 1 .. Len(a) : ~CapCmd(a[i])
  <2>1. ASSUME NEW i \in DOMAIN new PROVE a[i] \in Makes(g) /\ ~CapCmd(a[i])
    <3>1. new[i] \in K
      BY <1>2
    <3>2. PICK r \in Good(g) : new[i] = <<r.t, r.c>>
      BY <3>1
    <3>3. a[i] = Cmd("N", r.t, r.c, NoRule)
      BY <3>2
    <3> HIDE DEF a
    <3> QED BY <3>3 DEF Makes, CapCmd, Cmd
  <2>2. DOMAIN new = 1 .. Len(new) /\ Len(new) \in Nat /\ a = [i \in DOMAIN new |-> a[i]]
    BY <1>2
  <2> HIDE DEF a
  <2> QED BY <2>1, <2>2
<1>4. b \in Seq(Makes(g)) /\ Len(b) = Len(rules) /\ \A i \in 1 .. Len(b) : b[i] = RuleCmd(rules[i])
  <2>1. ASSUME NEW i \in DOMAIN rules PROVE b[i] \in Makes(g) /\ b[i] = RuleCmd(rules[i])
    BY <1>1 DEF Makes
  <2>2. b = [i \in DOMAIN rules |-> b[i]]
    OBVIOUS
  <2> HIDE DEF b
  <2> QED BY <1>1, <2>1, <2>2
<1>5. buildRules(rules) = a \o b
  BY DEF buildRules, new
<1> HIDE DEF a, b
<1> DEFINE u == a \o b
<1>6. /\ u \in Seq(Makes(g)) /\ Len(a) \in Nat /\ Len(u) = Len(a) + Len(rules)
      /\ \A i \in 1 .. Len(a) : u[i] = a[i]
      /\ \A i \in 1 .. Len(rules) : u[Len(a) + i] = RuleCmd(rules[i])
  <2>1. a \in Seq(Makes(g)) /\ b \in Seq(Makes(g))
    BY <1>3, <1>4
  <2>2. Len(a) \in Nat /\ Len(b) = Len(rules) /\ Len(b) \in Nat
    BY <1>4, <2>1
  <2>3. \A i \in 1 .. Len(b) : b[i] = RuleCmd(rules[i])
    BY <1>4
  <2>4. u \in Seq(Makes(g)) /\ Len(u) = Len(a) + Len(b)
    BY <2>1
  <2>5. \A i \in 1 .. Len(a) : u[i] = a[i]
    BY <2>1, <2>2
  <2>6. \A i \in 1 .. Len(b) : u[Len(a) + i] = b[i]
    BY <2>1, <2>2
  <2> HIDE DEF u
  <2> QED BY <2>2, <2>3, <2>4, <2>5, <2>6
<1> HIDE DEF u
<1>7. ASSUME NEW w \in Shields(g), NEW n \in 1 .. Len(u), CapCmd(u[n])
      PROVE  \E l \in 1 .. (n - 1) : u[l] = RuleCmd(w)
  <2>1. n > Len(a)
    BY <1>3, <1>6, <1>7
  <2> DEFINE i == n - Len(a)
  <2>2. i \in 1 .. Len(rules) /\ u[n] = RuleCmd(rules[i])
    BY <1>1, <1>6, <2>1
  <2>3. Captures(rules[i])
    BY <1>7, <2>2 DEF CapCmd, RuleCmd, Cmd
  <2>4. PICK l \in 1 .. (i - 1) : rules[l] = w
    BY <2>2, <2>3 DEF Sheltered
  <2>5. l \in 1 .. Len(rules) /\ Len(a) + l \in 1 .. (n - 1)
    BY <1>1, <1>6, <2>1, <2>2
  <2> QED BY <1>6, <2>4, <2>5
<1> QED BY <1>5, <1>6, <1>7 DEF CmdSheltered, u

\* The section of a table keeps the order of the commands.
LEMMA SectionSheltered ==
    ASSUME NEW g, NEW b \in Seq(Makes(g)), \A w \in Shields(g) : CmdSheltered(b, w), NEW t, NEW s,
           s = FlattenSeq([i \in DOMAIN b |-> When(b[i].t = t, <<b[i]>>)])
    PROVE  s \in Seq(Makes(g)) /\ \A w \in Shields(g) : CmdSheltered(s, w)
<1> DEFINE ss == [i \in DOMAIN b |-> When(b[i].t = t, <<b[i]>>)]
<1>1. s = FlattenSeq(ss)
  OBVIOUS
<1>2. DOMAIN b = 1 .. Len(b) /\ Len(b) \in Nat /\ \A i \in 1 .. Len(b) : b[i] \in Makes(g)
  OBVIOUS
<1>3. /\ ss \in Seq(Seq(Makes(g))) /\ Len(ss) = Len(b)
      /\ \A i \in 1 .. Len(b) : /\ b[i].t = t => Len(ss[i]) = 1 /\ ss[i][1] = b[i]
                                /\ b[i].t # t => Len(ss[i]) = 0
  <2>1. \A i \in DOMAIN b : /\ ss[i] \in Seq(Makes(g))
                            /\ b[i].t = t => Len(ss[i]) = 1 /\ ss[i][1] = b[i]
                            /\ b[i].t # t => Len(ss[i]) = 0
    BY <1>2 DEF When
  <2>2. ss = [i \in DOMAIN b |-> ss[i]]
    OBVIOUS
  <2> HIDE DEF ss
  <2> QED BY <1>2, <2>1, <2>2
<1> HIDE DEF ss
<1>4. s \in Seq(Makes(g)) /\ FlattenPlaced(ss, Len(ss), s)
  BY <1>1, <1>3, FlattenElements
<1>5. ASSUME NEW w \in Shields(g), NEW q \in 1 .. Len(s), CapCmd(s[q])
      PROVE  \E o \in 1 .. (q - 1) : s[o] = RuleCmd(w)
  <2>1. PICK i \in 1 .. Len(ss) : \E j \in 1 .. Len(ss[i]) :
            /\ s[q] = ss[i][j]
            /\ \A h \in 1 .. (i - 1) : \A l \in 1 .. Len(ss[h]) : \E o \in 1 .. (q - 1) : s[o] = ss[h][l]
    BY <1>4 DEF FlattenPlaced
  <2>2. PICK j \in 1 .. Len(ss[i]) :
            /\ s[q] = ss[i][j]
            /\ \A h \in 1 .. (i - 1) : \A l \in 1 .. Len(ss[h]) : \E o \in 1 .. (q - 1) : s[o] = ss[h][l]
    BY <2>1
  <2>3. b[i].t = t /\ s[q] = b[i] /\ i \in 1 .. Len(b)
    BY <1>3, <2>2
  <2>4. b[i].t = "nat"
    <3>1. b[i] \in Makes(g) /\ CapCmd(b[i])
      BY <1>2, <1>5, <2>3
    <3> QED BY <3>1 DEF Makes, CapCmd, Captures, RuleCmd, Cmd
  <2>5. PICK h \in 1 .. (i - 1) : b[h] = RuleCmd(w)
    BY <1>5, <2>3 DEF CmdSheltered
  <2>6. b[h].t = t /\ h \in 1 .. Len(b)
    <3>1. RuleCmd(w).t = "nat"
      BY DEF RuleCmd, Cmd, Shields, Shield, Rule
    <3> QED BY <2>3, <2>4, <2>5, <3>1, <1>2
  <2>7. ss[h][1] = b[h] /\ 1 \in 1 .. Len(ss[h])
    <3>1. Len(ss[h]) = 1 /\ ss[h][1] = b[h]
      BY <1>3, <2>6, Zenon
    <3>2. 1 \in 1 .. 1
      OBVIOUS
    <3> QED BY <3>1, <3>2, Zenon
  <2> QED BY <2>2, <2>5, <2>7
<1> QED BY <1>4, <1>5 DEF CmdSheltered

\* What a queue of the capture program looks like: whatever rule of batch b of
\* entry i captures, an owner's rule comes before it.
EntryType(g) == [fam : Families, todo : SUBSET Seq(Makes(g))]
Guarded(q, i, b, n, w) ==
    \/ \E l \in 1 .. (n - 1) : b[l] = RuleCmd(w)
    \/ \E h \in 1 .. (i - 1) : q[h] = Entry(q[i].fam, {<<RuleCmd(w)>>})
Ordered(q, g) ==
    /\ q \in Seq(EntryType(g))
    /\ \A w \in Shields(g) : \A i \in 1 .. Len(q) : \A b \in q[i].todo : \A n \in 1 .. Len(b) :
            CapCmd(b[n]) => Guarded(q, i, b, n, w)

\* Two ordered queues one after the other.
LEMMA OrderedConcat ==
    ASSUME NEW g, NEW p, NEW q, Ordered(p, g), Ordered(q, g) PROVE Ordered(p \o q, g)
<1> DEFINE u == p \o q
<1>1. p \in Seq(EntryType(g)) /\ q \in Seq(EntryType(g))
  BY DEF Ordered
<1>2. /\ Len(p) \in Nat /\ Len(q) \in Nat /\ Len(u) = Len(p) + Len(q) /\ u \in Seq(EntryType(g))
      /\ \A i \in 1 .. Len(p) : u[i] = p[i]
      /\ \A i \in 1 .. Len(q) : u[Len(p) + i] = q[i]
  <2> HIDE DEF u
  <2>1. ASSUME NEW S, NEW x \in Seq(S), NEW y \in Seq(S)
        PROVE  /\ Len(x) \in Nat /\ Len(y) \in Nat /\ Len(x \o y) = Len(x) + Len(y) /\ x \o y \in Seq(S)
               /\ \A i \in 1 .. Len(x) : (x \o y)[i] = x[i]
               /\ \A i \in 1 .. Len(y) : (x \o y)[Len(x) + i] = y[i]
    OBVIOUS
  <2> QED BY <1>1, <2>1 DEF u
<1> HIDE DEF u
<1>3. ASSUME NEW w \in Shields(g), NEW i \in 1 .. Len(u), NEW b \in u[i].todo, NEW n \in 1 .. Len(b),
             CapCmd(b[n])
      PROVE  Guarded(u, i, b, n, w)
  <2>1. CASE i <= Len(p)
    <3>1. i \in 1 .. Len(p) /\ u[i] = p[i]
      BY <1>2, <2>1
    <3>2. Guarded(p, i, b, n, w)
      BY <1>3, <3>1 DEF Ordered
    <3>3. \A h \in 1 .. (i - 1) : u[h] = p[h]
      BY <1>2, <2>1
    <3> QED BY <3>1, <3>2, <3>3 DEF Guarded
  <2>2. CASE i > Len(p)
    <3> DEFINE j == i - Len(p)
    <3>1. j \in 1 .. Len(q) /\ u[i] = q[j]
      BY <1>2, <2>2
    <3>2. Guarded(q, j, b, n, w)
      BY <1>3, <3>1 DEF Ordered
    <3>3. ASSUME NEW h \in 1 .. (j - 1), q[h] = Entry(q[j].fam, {<<RuleCmd(w)>>})
          PROVE  \E o \in 1 .. (i - 1) : u[o] = Entry(u[i].fam, {<<RuleCmd(w)>>})
      <4>1. Len(p) + h \in 1 .. (i - 1) /\ h \in 1 .. Len(q)
        BY <1>2, <2>2, <3>1
      <4> QED BY <1>2, <3>1, <3>3, <4>1
    <3> QED BY <3>2, <3>3 DEF Guarded
  <2> QED BY <1>2, <2>1, <2>2
<1> QED BY <1>2, <1>3 DEF Ordered, u

\* The commands of a family.
LEMMA CommandsOrdered ==
    ASSUME NEW g, WellTyped(g), NEW f \in Families PROVE Ordered(Commands(f, g), g)
<1> DEFINE rules == RunRules(g, f)
           cmds == buildRules(rules)
           file == buildRestore(rules)
           batches == {file[t] : t \in DOMAIN file}
           single == [i \in DOMAIN cmds |-> Entry(f, {<<cmds[i]>>})]
<1>1. rules \in Seq(Good(g)) /\ \A w \in Shields(g) : Sheltered(rules, w)
  BY RunSheltered
<1> HIDE DEF rules
<1>2. cmds \in Seq(Makes(g)) /\ \A w \in Shields(g) : CmdSheltered(cmds, w)
  BY <1>1, BuildSheltered
<1>3. Commands(f, g) = IF g.RestoreFormat THEN When(DOMAIN file # {}, <<Entry(f, batches)>>) ELSE single
  BY DEF Commands, rules
<1>4. Ordered(single, g)
  <2> HIDE DEF cmds
  <2>1. DOMAIN cmds = 1 .. Len(cmds) /\ Len(cmds) \in Nat /\ \A i \in 1 .. Len(cmds) : cmds[i] \in Makes(g)
    BY <1>2
  <2>2. /\ single \in Seq(EntryType(g)) /\ Len(single) = Len(cmds)
        /\ \A i \in 1 .. Len(cmds) : single[i] = Entry(f, {<<cmds[i]>>})
    <3>1. ASSUME NEW c \in Makes(g) PROVE Entry(f, {<<c>>}) \in EntryType(g)
      BY DEF Entry, EntryType
    <3>2. single = [i \in 1 .. Len(cmds) |-> single[i]]
          /\ \A i \in 1 .. Len(cmds) : single[i] = Entry(f, {<<cmds[i]>>})
      BY <2>1
    <3> HIDE DEF single
    <3>3. \A i \in 1 .. Len(cmds) : single[i] \in EntryType(g)
      BY <2>1, <3>1, <3>2
    <3> QED BY <2>1, <3>2, <3>3
  <2> HIDE DEF single
  <2>3. ASSUME NEW w \in Shields(g), NEW i \in 1 .. Len(single), NEW b \in single[i].todo,
               NEW n \in 1 .. Len(b), CapCmd(b[n])
        PROVE  Guarded(single, i, b, n, w)
    <3>0. single[i] = Entry(f, {<<cmds[i]>>})
      BY <2>2
    <3>1. b = <<cmds[i]>> /\ single[i].fam = f
      BY <3>0 DEF Entry
    <3>2. Len(b) = 1 /\ b[1] = cmds[i]
      BY <3>1
    <3>3. n = 1 /\ CapCmd(cmds[i]) /\ i \in 1 .. Len(cmds)
      BY <2>2, <2>3, <3>2
    <3>4. PICK h \in 1 .. (i - 1) : cmds[h] = RuleCmd(w)
      BY <1>2, <3>3 DEF CmdSheltered
    <3>5. h \in 1 .. Len(cmds)
      BY <2>1, <3>3
    <3>6. single[h] = Entry(single[i].fam, {<<RuleCmd(w)>>})
      BY <2>2, <3>1, <3>4, <3>5
    <3> QED BY <3>6 DEF Guarded
  <2> QED BY <2>2, <2>3 DEF Ordered
<1>5. Ordered(<<Entry(f, batches)>>, g)
  <2>1. ASSUME NEW b \in batches PROVE b \in Seq(Makes(g)) /\ \A w \in Shields(g) : CmdSheltered(b, w)
    <3>1. PICK t \in DOMAIN file : b = file[t]
      OBVIOUS
    <3>2. b = FlattenSeq([i \in DOMAIN cmds |-> When(cmds[i].t = t, <<cmds[i]>>)])
      BY <3>1 DEF buildRestore, Those, Each
    <3> HIDE DEF cmds
    <3> QED BY <1>2, <3>2, SectionSheltered
  <2> HIDE DEF batches
  <2>2. Entry(f, batches) \in EntryType(g) /\ Entry(f, batches).todo = batches
    BY <2>1 DEF Entry, EntryType
  <2> DEFINE e == Entry(f, batches)
             q == <<e>>
  <2>3. q \in Seq(EntryType(g)) /\ Len(q) = 1 /\ q[1].todo = batches
    <3> HIDE DEF e
    <3> QED BY <2>2 DEF e
  <2> HIDE DEF q
  <2>4. ASSUME NEW w \in Shields(g), NEW i \in 1 .. Len(q), NEW b \in q[i].todo, NEW n \in 1 .. Len(b),
               CapCmd(b[n])
        PROVE  Guarded(q, i, b, n, w)
    BY <2>1, <2>3, <2>4 DEF Guarded, CmdSheltered
  <2>5. Ordered(q, g)
    BY <2>3, <2>4 DEF Ordered
  <2> QED BY <2>5 DEF q
<1>6. Ordered(<<>>, g)
  <2>1. <<>> \in Seq(EntryType(g)) /\ Len(<<>>) = 0 /\ \A i \in 1 .. 0 : FALSE
    OBVIOUS
  <2> QED BY <2>1 DEF Ordered
<1> QED BY <1>3, <1>4, <1>5, <1>6 DEF When

\* The strings of the assumptions are among those of the proofs.
LEMMA OptionsTyped ==
    /\ \A g : DNSOptions(g) => DNSTyped(g)
    /\ \A g : CaptureOptions(g) => WellTyped(g)
    /\ \A p \in Packets : p \in PacketType
<1>1. STRING \subseteq Text
  BY DEF Text
<1>2. ASSUME NEW S, NEW T, S \subseteq T PROVE Seq(S) \subseteq Seq(T)
  BY <1>2
<1>3. Seq(STRING) \subseteq Names
  BY <1>1, <1>2 DEF Names
<1>4. [fam : STRING, addr : STRING] \subseteq Server
      /\ [fam : STRING, addrs : SUBSET STRING, loopback : BOOLEAN] \subseteq Block
  BY <1>1 DEF Server, Block
<1>5. /\ Seq([fam : STRING, addr : STRING]) \subseteq Seq(Server)
      /\ Seq([fam : STRING, addrs : SUBSET STRING, loopback : BOOLEAN]) \subseteq Seq(Block)
  BY <1>2, <1>4
<1>6. ASSUME NEW g, DNSOptions(g) PROVE DNSTyped(g)
  BY <1>3, <1>5, <1>6 DEF DNSOptions, DNSTyped
<1>7. ASSUME NEW g, CaptureOptions(g) PROVE WellTyped(g)
  BY <1>1, <1>3, <1>5, <1>6, <1>7 DEF CaptureOptions, WellTyped
<1>8. ASSUME NEW p \in Packets PROVE p \in PacketType
  <2>1. p \in [PacketFields -> STRING] /\ PacketFields = Fixed \cup {"mark", "connmark", "zone"}
    BY PacketsAssumption DEF PacketFields, Fixed
  <2> QED BY <1>1, <2>1 DEF PacketType
<1> QED BY <1>6, <1>7, <1>8

\* What the cleaner does is deletions, flushes and removals.
CleanEntry(h) == UNION {{Entry(f, {<<c>>}) : c \in Removes(h)} : f \in Families}

\* The deletions of the cleaner remove rules,
LEMMA DeletionsRemove ==
    ASSUME NEW h, DNSTyped(h) PROVE Deletions(h) \in Seq(Removes(h))
<1> DEFINE S == Removes(h)
           del(t, c, m, j) == <<Cmd("D", t, c, Rule(t, c, 0, m, j))>>
           fams == <<"v4", "v6">>
           dns == HandleDNSUDP(h, fams)
           ss == [i \in DOMAIN dns |-> <<Cmd("D", dns[i].t, dns[i].c, dns[i])>>]
<1>1. ASSUME NEW r \in Hooked(h) PROVE <<Cmd("D", r.t, r.c, r)>> \in Seq(S)
  <2>1. Cmd("D", r.t, r.c, r) \in S
    BY DEF Removes
  <2> HIDE DEF S
  <2> QED BY <2>1
<1>2. ASSUME NEW t, NEW c, <<t, c>> \in HookKeys, NEW j \in Targets(h, t, c), j # Redirect(AgentDNSPort)
      PROVE  del(t, c, {Tcp}, j) \in Seq(S)
  <2>1. {Tcp} \in SUBSET Condition
    BY Conditions
  <2> DEFINE r == Rule(t, c, 0, {Tcp}, j)
  <2>2. r \in Hooked(h)
    BY <1>2, <2>1, AppendHooked
  <2>3. r.t = t /\ r.c = c
    BY DEF Rule
  <2> HIDE DEF r, S
  <2>4. <<Cmd("D", r.t, r.c, r)>> \in Seq(S)
    BY <1>1, <2>2
  <2> QED BY <2>3, <2>4 DEF r
<1>3. /\ del("nat", "PREROUTING", {Tcp}, Jump("ISTIO_INBOUND")) \in Seq(S)
      /\ del("mangle", "PREROUTING", {Tcp}, Jump("ISTIO_INBOUND")) \in Seq(S)
      /\ del("nat", "OUTPUT", {Tcp}, Jump("ISTIO_OUTPUT")) \in Seq(S)
  <2> HIDE DEF del, S
  <2>1. Jump("ISTIO_INBOUND") # Redirect(AgentDNSPort) /\ Jump("ISTIO_OUTPUT") # Redirect(AgentDNSPort)
    BY DEF Jump, Redirect
  <2>2. /\ <<"nat", "PREROUTING">> \in HookKeys /\ Jump("ISTIO_INBOUND") \in Targets(h, "nat", "PREROUTING")
        /\ <<"mangle", "PREROUTING">> \in HookKeys /\ Jump("ISTIO_INBOUND") \in Targets(h, "mangle", "PREROUTING")
        /\ <<"nat", "OUTPUT">> \in HookKeys /\ Jump("ISTIO_OUTPUT") \in Targets(h, "nat", "OUTPUT")
    BY TargetsOf DEF HookKeys
  <2> QED BY <1>2, <2>1, <2>2
<1>4. dns \in Seq(Hooked(h))
  <2>1. fams \in Seq({"v4", "v6"})
    OBVIOUS
  <2> HIDE DEF fams
  <2> QED BY <2>1, DNSUDPHooked
<1>5. FlattenSeq(ss) \in Seq(S)
  <2> HIDE DEF dns, S
  <2>1. ss = [i \in DOMAIN dns |-> ss[i]] /\ \A i \in DOMAIN dns : ss[i] \in Seq(S)
    BY <1>1, <1>4
  <2> HIDE DEF ss
  <2> QED BY <1>4, <2>1, EachIn
<1>6. Deletions(h) = del("nat", "PREROUTING", {Tcp}, Jump("ISTIO_INBOUND"))
                     \o del("mangle", "PREROUTING", {Tcp}, Jump("ISTIO_INBOUND"))
                     \o del("nat", "OUTPUT", {Tcp}, Jump("ISTIO_OUTPUT"))
                     \o When(h.RedirectDNS, FlattenSeq(ss))
  BY DEF Deletions, Each
<1> HIDE DEF ss, S, del
<1>7. When(h.RedirectDNS, FlattenSeq(ss)) \in Seq(S)
  BY <1>5, SeqParts DEF When
<1>8. Deletions(h) \in Seq(S)
  BY <1>3, <1>6, <1>7, SeqParts
<1> QED BY <1>8 DEF S

\* and so do its flushes.
LEMMA FlushRemove ==
    ASSUME NEW h, NEW t, NEW N, NEW chains \in Seq(N), \A c \in N : <<t, c>> \in OwnChains
    PROVE  flushAndDeleteChains(t, chains) \in Seq(Removes(h))
<1> DEFINE S == Removes(h)
           ss == [i \in DOMAIN chains |-> <<Cmd("F", t, chains[i], NoRule), Cmd("X", t, chains[i], NoRule)>>]
<1>1. ASSUME NEW c \in N PROVE <<Cmd("F", t, c, NoRule), Cmd("X", t, c, NoRule)>> \in Seq(S)
  <2>1. Cmd("F", t, c, NoRule) \in S /\ Cmd("X", t, c, NoRule) \in S
    <3> DEFINE key == <<t, c>>
    <3>1. key \in OwnChains /\ key[1] = t /\ key[2] = c
      OBVIOUS
    <3> HIDE DEF key
    <3> QED BY <3>1 DEF Removes
  <2> HIDE DEF S
  <2>2. ASSUME NEW x \in S, NEW y \in S PROVE <<x, y>> \in Seq(S)
    OBVIOUS
  <2> QED BY <2>1, <2>2
<1>2. ss = [i \in DOMAIN chains |-> ss[i]] /\ \A i \in DOMAIN chains : ss[i] \in Seq(S)
  <2> HIDE DEF S
  <2> QED BY <1>1
<1>3. flushAndDeleteChains(t, chains) = FlattenSeq(ss)
  BY DEF flushAndDeleteChains, Each
<1> HIDE DEF ss, S
<1>4. FlattenSeq(ss) \in Seq(S)
  BY <1>2, EachIn
<1> QED BY <1>3, <1>4 DEF S

\* All its commands remove.
LEMMA OldChainsRemoved ==
    ASSUME NEW h, DNSTyped(h) PROVE removeOldChains(h) \in Seq(Removes(h))
<1> DEFINE cmds == removeOldChains(h)
           n1 == <<"ISTIO_OUTPUT", "ISTIO_INBOUND">>
           n2 == <<"ISTIO_INBOUND", "ISTIO_DIVERT", "ISTIO_TPROXY">>
           n3 == <<"ISTIO_REDIRECT", "ISTIO_IN_REDIRECT">>
           S == Removes(h)
<1>1. flushAndDeleteChains("nat", n1) \in Seq(S)
  <2>1. n1 \in Seq({"ISTIO_OUTPUT", "ISTIO_INBOUND"})
    OBVIOUS
  <2>2. \A c \in {"ISTIO_OUTPUT", "ISTIO_INBOUND"} : <<"nat", c>> \in OwnChains
    BY DEF OwnChains, OutKey
  <2> HIDE DEF n1
  <2> QED BY <2>1, <2>2, FlushRemove
<1>2. flushAndDeleteChains("mangle", n2) \in Seq(S)
  <2>1. n2 \in Seq({"ISTIO_INBOUND", "ISTIO_DIVERT", "ISTIO_TPROXY"})
    OBVIOUS
  <2>2. \A c \in {"ISTIO_INBOUND", "ISTIO_DIVERT", "ISTIO_TPROXY"} : <<"mangle", c>> \in OwnChains
    BY DEF OwnChains, OutKey
  <2> HIDE DEF n2
  <2> QED BY <2>1, <2>2, FlushRemove
<1>3. flushAndDeleteChains("nat", n3) \in Seq(S)
  <2>1. n3 \in Seq({"ISTIO_REDIRECT", "ISTIO_IN_REDIRECT"})
    OBVIOUS
  <2>2. \A c \in {"ISTIO_REDIRECT", "ISTIO_IN_REDIRECT"} : <<"nat", c>> \in OwnChains
    BY DEF OwnChains, OutKey
  <2> HIDE DEF n3
  <2> QED BY <2>1, <2>2, FlushRemove
<1>4. cmds \in Seq(S)
  <2>1. Deletions(h) \in Seq(S)
    BY DeletionsRemove
  <2>2. cmds = Deletions(h) \o flushAndDeleteChains("nat", n1) \o flushAndDeleteChains("mangle", n2)
               \o flushAndDeleteChains("nat", n3)
    BY DEF removeOldChains
  <2> HIDE DEF cmds, S, n1, n2, n3
  <2> QED BY <1>1, <1>2, <1>3, <2>1, <2>2, SeqParts
<1> QED BY <1>4

\* Its queue removes, for either family.
LEMMA CleanCommandsRemove ==
    ASSUME NEW h, DNSTyped(h), NEW f \in Families
    PROVE  CleanCommands(f, h) \in Seq(CleanEntry(h))
<1> DEFINE cmds == removeOldChains(h)
           S == Removes(h)
<1>4. cmds \in Seq(S)
  BY OldChainsRemoved
<1> DEFINE q == [i \in DOMAIN cmds |-> Entry(f, {<<cmds[i]>>})]
<1>5. q \in Seq(CleanEntry(h))
  <2> HIDE DEF cmds
  <2>1. DOMAIN cmds = 1 .. Len(cmds) /\ Len(cmds) \in Nat /\ \A i \in DOMAIN cmds : cmds[i] \in S
    BY <1>4
  <2>2. \A i \in DOMAIN cmds : q[i] \in CleanEntry(h)
    <3>1. \A c \in S : Entry(f, {<<c>>}) \in CleanEntry(h)
      <4> HIDE DEF S
      <4> SUFFICES ASSUME NEW c \in S PROVE Entry(f, {<<c>>}) \in CleanEntry(h)
        OBVIOUS
      <4>1. CleanEntry(h) = UNION {{Entry(a, {<<b>>}) : b \in S} : a \in Families}
        BY DEF CleanEntry, S
      <4>2. Entry(f, {<<c>>}) \in {Entry(f, {<<b>>}) : b \in S}
        OBVIOUS
      <4> QED BY <4>1, <4>2
    <3>2. \A i \in DOMAIN cmds : q[i] = Entry(f, {<<cmds[i]>>})
      OBVIOUS
    <3> HIDE DEF q, S
    <3> QED BY <2>1, <3>1, <3>2
  <2>3. q = [i \in DOMAIN cmds |-> q[i]]
    OBVIOUS
  <2> HIDE DEF q
  <2> QED BY <2>1, <2>2, <2>3
<1>6. CleanCommands(f, h) = q
  BY DEF CleanCommands
<1> QED BY <1>5, <1>6

-----------------------------------------------------------------------------
(***************************************************************************)
(* The proxy's own connections.                                            *)
(***************************************************************************)

\* What the capture program still does: a rule that captures comes after an
\* owner's rule, or finds it in the kernel.
Expected(q, g, k) ==
    /\ q \in Seq(EntryType(g))
    /\ \A w \in Shields(g) : \A i \in 1 .. Len(q) : \A b \in q[i].todo : \A n \in 1 .. Len(b) :
            CapCmd(b[n]) => Guarded(q, i, b, n, w) \/ Held(k[q[i].fam], w)

\* The invariant of the two programs.
ProgramsInv ==
    /\ WellTyped(cfg) /\ DNSTyped(cleanCfg)
    /\ cfg.InboundCapturePort \notin {cfg.ProxyPort, AgentDNSPort}
    /\ kern = [f \in Families |-> kern[f]] /\ \A f \in Families : Sound(kern[f], cfg)
    /\ prog = "capture" => Expected(queue, cfg, kern)
    /\ prog \in {"clean", "skipping"} => queue \in Seq(CleanEntry(cleanCfg))

\* Nothing is installed at the start.
LEMMA ProgramsInit == Init => ProgramsInv
<1> SUFFICES ASSUME Init PROVE ProgramsInv
  OBVIOUS
<1>1. PICK s \in Setups : cfg = constructConfig(s.flags, s.env)
                          /\ cleanCfg = constructCleanConfig(s.cleanFlags, s.env)
  BY DEF Init
<1>2. /\ WellTyped(cfg) /\ DNSTyped(cleanCfg)
      /\ cfg.InboundCapturePort \notin {cfg.ProxyPort, AgentDNSPort}
  BY <1>1, SetupsAssumption, OptionsTyped
<1>3. kern = [f \in Families |-> EmptyKernel] /\ prog = "idle"
  BY DEF Init
<1>4. Sound(EmptyKernel, cfg)
  <2>1. EmptyKernel = [o \in Hooks |-> <<>>]
    BY DEF EmptyKernel, Hooks
  <2> DEFINE k == EmptyKernel
  <2> HIDE DEF k
  <2>2. DOMAIN k = Hooks /\ \A o \in Hooks : k[o] = <<>>
    BY <2>1 DEF k
  <2>3. k = [o \in DOMAIN k |-> k[o]]
    BY <2>1 DEF k
  <2>4. Hooks \subseteq Text \X Text
    <3>1. Tables \subseteq Text /\ {"PREROUTING", "OUTPUT"} \subseteq Text
      BY DEF Tables, Text
    <3> QED BY <3>1 DEF Hooks
  <2>5. OutKey \notin Hooks
    BY DEF OutKey, Hooks
  <2>6. \A o \in DOMAIN k : k[o] \in Seq(Content(cfg, k, o))
    BY <2>2, SeqParts
  <2>7. Sound(k, cfg)
    BY <2>2, <2>3, <2>4, <2>5, <2>6 DEF Sound
  <2> QED BY <2>7 DEF k
<1> QED BY <1>2, <1>3, <1>4 DEF ProgramsInv

\* The rest of a queue whose first entry loses a batch.
LEMMA DoneOf ==
    ASSUME NEW E, queue \in Seq(E), NEW batch \in Pending
    PROVE  /\ queue # <<>> /\ Len(queue) \in Nat \ {0} /\ batch \in queue[1].todo /\ Head(queue) = queue[1]
           /\ queue[1].todo \ {batch} = {} =>
                /\ Done(batch) \in Seq(E) /\ Len(Done(batch)) = Len(queue) - 1
                /\ \A i \in 1 .. Len(Done(batch)) : Done(batch)[i] = queue[i + 1]
           /\ queue[1].todo \ {batch} # {} =>
                /\ Len(Done(batch)) = Len(queue)
                /\ Done(batch)[1] = Entry(queue[1].fam, queue[1].todo \ {batch})
                /\ \A i \in 2 .. Len(queue) : Done(batch)[i] = queue[i]
                /\ Entry(queue[1].fam, queue[1].todo \ {batch}) \in E => Done(batch) \in Seq(E)
<1>1. queue # <<>> /\ batch \in Head(queue).todo
  BY DEF Pending
<1>2. Len(queue) \in Nat \ {0} /\ Head(queue) = queue[1] /\ Tail(queue) \in Seq(E)
      /\ Len(Tail(queue)) = Len(queue) - 1 /\ \A i \in 1 .. Len(queue) - 1 : Tail(queue)[i] = queue[i + 1]
  BY <1>1, EmptySeq, HeadTailProperties
<1> DEFINE rest == queue[1].todo \ {batch}
           e == Entry(queue[1].fam, rest)
<1>3. Done(batch) = IF rest = {} THEN Tail(queue) ELSE <<e>> \o Tail(queue)
  BY <1>2 DEF Done
<1>4. CASE rest = {}
  BY <1>1, <1>2, <1>3, <1>4
<1>5. CASE rest # {}
  <2> DEFINE t == Tail(queue)
             u == <<e>> \o t
  <2> HIDE DEF e, t
  <2>1. t \in Seq(E) /\ Len(t) = Len(queue) - 1 /\ \A i \in 1 .. Len(t) : t[i] = queue[i + 1]
    BY <1>2 DEF t
  <2>2. /\ Len(u) = 1 + Len(t) /\ u[1] = e /\ \A i \in 1 .. Len(t) : u[1 + i] = t[i]
        /\ e \in E => u \in Seq(E)
    BY <2>1
  <2>3. \A i \in 2 .. Len(queue) : u[i] = queue[i]
    <3> SUFFICES ASSUME NEW i \in 2 .. Len(queue) PROVE u[i] = queue[i]
      OBVIOUS
    <3>1. i - 1 \in 1 .. Len(t) /\ 1 + (i - 1) = i /\ (i - 1) + 1 = i
      BY <1>2, <2>1
    <3>2. u[1 + (i - 1)] = t[i - 1] /\ t[i - 1] = queue[(i - 1) + 1]
      BY <2>1, <2>2, <3>1
    <3> QED BY <3>1, <3>2
  <2>4. Done(batch) = u /\ Len(u) = Len(queue)
    BY <1>2, <1>3, <1>5, <2>1, <2>2 DEF t
  <2> HIDE DEF u
  <2> QED BY <1>1, <1>2, <1>5, <2>2, <2>3, <2>4 DEF e
<1> QED BY <1>4, <1>5

\* A batch of the capture program is carried out.
LEMMA CaptureStepInv ==
    ASSUME ProgramsInv, NEW batch \in Pending, CaptureStep(batch) PROVE ProgramsInv'
<1> DEFINE f == queue[1].fam
           r == Execute(kern[f], batch)
<1>1. prog = "capture" /\ Expected(queue, cfg, kern) /\ queue \in Seq(EntryType(cfg))
  BY DEF CaptureStep, ProgramsInv, Expected
<1>2. /\ Len(queue) \in Nat \ {0} /\ batch \in queue[1].todo /\ Head(queue) = queue[1]
      /\ queue[1] \in EntryType(cfg)
  <2>1. Len(queue) \in Nat \ {0} /\ batch \in queue[1].todo /\ Head(queue) = queue[1]
    BY <1>1, DoneOf
  <2> QED BY <1>1, <2>1
<1>3. f \in Families /\ batch \in Seq(Makes(cfg)) /\ queue[1].todo \subseteq Seq(Makes(cfg))
  BY <1>2 DEF EntryType
<1>4. cfg' = cfg /\ cleanCfg' = cleanCfg
  BY DEF CaptureStep
<1>5. CASE ~r.ok
  <2>1. prog' = "idle" /\ kern' = kern
    BY <1>2, <1>5 DEF CaptureStep
  <2> QED BY <1>4, <2>1 DEF ProgramsInv
<1>6. CASE r.ok
  <2>1. kern' = [kern EXCEPT ![f] = r.k] /\ queue' = Done(batch) /\ prog' = prog
    BY <1>2, <1>6 DEF CaptureStep
  <2>2. \A w \in Shields(cfg) : \A n \in 1 .. Len(batch) :
            CapCmd(batch[n]) => Held(kern[f], w) \/ \E l \in 1 .. (n - 1) : batch[l] = RuleCmd(w)
    <3> SUFFICES ASSUME NEW w \in Shields(cfg), NEW n \in 1 .. Len(batch), CapCmd(batch[n])
                 PROVE  Held(kern[f], w) \/ \E l \in 1 .. (n - 1) : batch[l] = RuleCmd(w)
      OBVIOUS
    <3>1. 1 \in 1 .. Len(queue) /\ \A h \in 1 .. (1 - 1) : FALSE
      BY <1>2
    <3>2. Guarded(queue, 1, batch, n, w) \/ Held(kern[f], w)
      BY <1>1, <1>2, <3>1 DEF Expected
    <3> QED BY <3>1, <3>2 DEF Guarded
  <2>3. Sound(kern[f], cfg)
    BY <1>3 DEF ProgramsInv
  <2>4. /\ Sound(r.k, cfg)
        /\ \A w \in Shields(cfg) : Held(kern[f], w) \/ (\E l \in 1 .. Len(batch) : batch[l] = RuleCmd(w))
                => Held(r.k, w)
    BY <1>3, <1>6, <2>2, <2>3, ExecuteSound
  <2>5. /\ kern' = [g \in Families |-> kern'[g]] /\ kern'[f] = r.k
        /\ \A g \in Families : g # f => kern'[g] = kern[g]
    <3> HIDE DEF r, f
    <3> QED BY <1>3, <2>1 DEF ProgramsInv
  <2>6. \A g \in Families : Sound(kern'[g], cfg)
    BY <2>4, <2>5 DEF ProgramsInv
  <2>7. \A g \in Families, w \in Shields(cfg) : Held(kern[g], w) => Held(kern'[g], w)
    BY <2>4, <2>5
  <2> HIDE DEF r
  <2> DEFINE q == Done(batch)
             rest == queue[1].todo \ {batch}
             E == EntryType(cfg)
  <2>8. \A i \in 1 .. Len(queue) : queue[i].fam \in Families
    <3>1. \A e \in E : e.fam \in Families
      BY DEF EntryType
    <3> HIDE DEF E
    <3>2. \A i \in 1 .. Len(queue) : queue[i] \in E
      BY <1>1 DEF E
    <3> QED BY <3>1, <3>2
  <2>9. q \in Seq(E)
    <3>1. Entry(f, rest) \in E
      BY <1>3 DEF Entry, EntryType
    <3> HIDE DEF E
    <3> QED BY <1>1, <3>1, DoneOf DEF E
  <2> HIDE DEF q
  \* What guarded a rule in the queue guards it in the rest, or is in the kernel.
  <2>10. ASSUME NEW w \in Shields(cfg), NEW i \in 1 .. Len(q), NEW b \in q[i].todo, NEW n \in 1 .. Len(b),
                CapCmd(b[n])
         PROVE  Guarded(q, i, b, n, w) \/ Held(kern'[q[i].fam], w)
    <3>1. CASE rest = {}
      <4>1. Len(q) = Len(queue) - 1 /\ \A j \in 1 .. Len(q) : q[j] = queue[j + 1]
        BY <1>1, <3>1, DoneOf DEF q
      <4>2. i + 1 \in 1 .. Len(queue) /\ q[i] = queue[i + 1] /\ i \in Nat
        BY <1>2, <4>1
      <4>3. Guarded(queue, i + 1, b, n, w) \/ Held(kern[q[i].fam], w)
        BY <1>1, <2>10, <4>2 DEF Expected
      <4>4. CASE Held(kern[q[i].fam], w)
        BY <2>7, <2>8, <4>2, <4>4
      <4>5. ASSUME NEW h \in 1 .. ((i + 1) - 1), queue[h] = Entry(queue[i + 1].fam, {<<RuleCmd(w)>>})
            PROVE  Guarded(q, i, b, n, w) \/ Held(kern'[q[i].fam], w)
        <5>1. CASE h = 1
          <6>1. queue[1].fam = q[i].fam /\ queue[1].todo = {<<RuleCmd(w)>>}
            BY <4>2, <4>5, <5>1 DEF Entry
          <6>2. batch = <<RuleCmd(w)>> /\ f = q[i].fam
            BY <1>2, <6>1
          <6>3. 1 \in 1 .. Len(batch) /\ batch[1] = RuleCmd(w)
            BY <6>2
          <6>4. Held(r.k, w)
            BY <2>4, <6>3
          <6> QED BY <2>5, <6>2, <6>4
        <5>2. CASE h # 1
          <6>1. h - 1 \in 1 .. (i - 1) /\ h - 1 \in 1 .. Len(q) /\ (h - 1) + 1 = h
            BY <4>1, <4>2, <5>2
          <6>2. q[h - 1] = Entry(q[i].fam, {<<RuleCmd(w)>>})
            BY <4>1, <4>2, <4>5, <6>1
          <6> QED BY <6>1, <6>2 DEF Guarded
        <5> QED BY <5>1, <5>2
      <4>6. CASE \E l \in 1 .. (n - 1) : b[l] = RuleCmd(w)
        BY <4>6 DEF Guarded
      <4> QED BY <4>3, <4>4, <4>5, <4>6 DEF Guarded
    <3>2. CASE rest # {}
      <4>1. /\ Len(q) = Len(queue) /\ q[1] = Entry(f, rest)
            /\ \A j \in 2 .. Len(queue) : q[j] = queue[j]
        BY <1>1, <3>2, DoneOf DEF q
      <4>2. i \in 1 .. Len(queue) /\ b \in queue[i].todo /\ q[i].fam = queue[i].fam
        <5>1. CASE i = 1
          BY <2>10, <4>1, <5>1 DEF Entry
        <5>2. CASE i # 1
          <6>1. i \in 2 .. Len(queue)
            BY <1>2, <4>1, <5>2
          <6> QED BY <2>10, <4>1, <6>1
        <5> QED BY <5>1, <5>2
      <4>3. Guarded(queue, i, b, n, w) \/ Held(kern[q[i].fam], w)
        BY <1>1, <2>10, <4>2 DEF Expected
      <4>4. CASE Held(kern[q[i].fam], w)
        BY <2>7, <2>8, <4>2, <4>4
      <4>5. ASSUME NEW h \in 1 .. (i - 1), queue[h] = Entry(queue[i].fam, {<<RuleCmd(w)>>})
            PROVE  Guarded(q, i, b, n, w)
        <5>1. h # 1
          <6> SUFFICES ASSUME h = 1 PROVE FALSE
            OBVIOUS
          <6>1. queue[1].todo = {<<RuleCmd(w)>>}
            BY <4>5 DEF Entry
          <6> QED BY <1>2, <3>2, <6>1
        <5>2. h \in 2 .. Len(queue)
          BY <1>2, <4>2, <5>1
        <5>3. q[h] = Entry(q[i].fam, {<<RuleCmd(w)>>})
          BY <4>1, <4>2, <4>5, <5>2
        <5> QED BY <5>3 DEF Guarded
      <4>6. CASE \E l \in 1 .. (n - 1) : b[l] = RuleCmd(w)
        BY <4>6 DEF Guarded
      <4> QED BY <4>3, <4>4, <4>5, <4>6 DEF Guarded
    <3> QED BY <3>1, <3>2
  <2>11. Expected(queue', cfg, kern')
    BY <2>1, <2>9, <2>10 DEF Expected, q
  <2> QED BY <1>1, <1>4, <2>1, <2>5, <2>6, <2>11 DEF ProgramsInv
<1> QED BY <1>5, <1>6

\* A command of the cleaner is carried out, or refused.
LEMMA CleanStepInv ==
    ASSUME ProgramsInv, NEW batch \in Pending, CleanStep(batch) \/ CleanLocked(batch) PROVE ProgramsInv'
<1> DEFINE E == CleanEntry(cleanCfg)
<1>1. queue \in Seq(E) /\ prog \in {"clean", "skipping"} /\ prog' \in {"clean", "skipping"}
      /\ cfg' = cfg /\ cleanCfg' = cleanCfg /\ queue' = Done(batch)
  BY DEF CleanStep, CleanLocked, Cleaning, ProgramsInv
<1>2. Len(queue) \in Nat \ {0} /\ batch \in queue[1].todo /\ Head(queue) = queue[1] /\ queue[1] \in E
  <2> HIDE DEF E
  <2>1. Len(queue) \in Nat \ {0} /\ batch \in queue[1].todo /\ Head(queue) = queue[1]
    BY <1>1, DoneOf
  <2> QED BY <1>1, <2>1
<1>3. PICK f \in Families, c \in Removes(cleanCfg) : queue[1] = Entry(f, {<<c>>})
  BY <1>2 DEF CleanEntry
<1>4. queue[1].fam = f /\ batch = <<c>> /\ queue[1].todo \ {batch} = {}
  BY <1>2, <1>3 DEF Entry
<1>5. queue' \in Seq(E)
  <2> HIDE DEF E
  <2> QED BY <1>1, <1>4, DoneOf
<1>6. kern' = [g \in Families |-> kern'[g]] /\ \A g \in Families : Sound(kern'[g], cfg)
  <2>1. CASE kern' = kern
    BY <2>1 DEF ProgramsInv
  <2>2. CASE kern' # kern
    <3>1. Execute(kern[f], <<c>>).ok /\ kern' = [kern EXCEPT ![f] = Execute(kern[f], <<c>>).k]
      BY <1>2, <1>4, <2>2 DEF CleanStep, CleanLocked
    <3> DEFINE k == Execute(kern[f], <<c>>).k
    <3>2. Sound(k, cfg)
      <4>1. Accepts(kern[f], c) /\ k = Apply(kern[f], c)
        BY <3>1, ExecuteOne
      <4>2. Sound(kern[f], cfg)
        BY DEF ProgramsInv
      <4> QED BY <4>1, <4>2, RemoveSound
    <3> HIDE DEF k
    <3>3. kern' = [kern EXCEPT ![f] = k]
      BY <3>1 DEF k
    <3> QED BY <3>2, <3>3 DEF ProgramsInv
  <2> QED BY <2>1, <2>2
<1> QED BY <1>1, <1>5, <1>6 DEF ProgramsInv

\* Every step of the programs keeps the invariant.
LEMMA ProgramsStep == ProgramsInv /\ [Next]_vars => ProgramsInv'
<1> SUFFICES ASSUME ProgramsInv, [Next]_vars PROVE ProgramsInv'
  OBVIOUS
<1>1. CASE UNCHANGED vars
  BY <1>1 DEF vars, ProgramsInv
<1>2. CASE StartCapture
  <2>1. cfg' = cfg /\ cleanCfg' = cleanCfg /\ kern' = kern
    BY <1>2 DEF StartCapture, Start
  <2>2. prog' \in {"idle", "capture"} /\ (prog' = "capture" => queue' = Commands("v4", cfg) \o Commands("v6", cfg))
    BY <1>2 DEF StartCapture, Start
  <2>3. Ordered(Commands("v4", cfg) \o Commands("v6", cfg), cfg)
    <3>1. "v4" \in Families /\ "v6" \in Families
      BY DEF Families
    <3> QED BY <3>1, CommandsOrdered, OrderedConcat DEF ProgramsInv
  <2>4. prog' = "capture" => Expected(queue', cfg, kern)
    BY <2>2, <2>3 DEF Ordered, Expected
  <2> QED BY <2>1, <2>2, <2>4 DEF ProgramsInv
<1>3. CASE StartClean
  <2>1. cfg' = cfg /\ cleanCfg' = cleanCfg /\ kern' = kern
    BY <1>3 DEF StartClean, Start
  <2>2. prog' \in {"idle", "clean"}
        /\ (prog' = "clean" => queue' = CleanCommands("v4", cleanCfg) \o CleanCommands("v6", cleanCfg))
    BY <1>3 DEF StartClean, Start
  <2>3. CleanCommands("v4", cleanCfg) \o CleanCommands("v6", cleanCfg) \in Seq(CleanEntry(cleanCfg))
    <3>1. "v4" \in Families /\ "v6" \in Families
      BY DEF Families
    <3> QED BY <3>1, CleanCommandsRemove, SeqParts DEF ProgramsInv
  <2> QED BY <2>1, <2>2, <2>3 DEF ProgramsInv
<1>4. CASE CaptureDone \/ CaptureEnds \/ ConfigureRoutes \/ CleanEnds
  <2>1. cfg' = cfg /\ cleanCfg' = cleanCfg /\ kern' = kern /\ prog' \in {"idle", "routes"}
    BY <1>4 DEF CaptureDone, CaptureEnds, ConfigureRoutes, CleanEnds
  <2> QED BY <2>1 DEF ProgramsInv
<1>5. ASSUME NEW batch \in Pending, CaptureStep(batch) \/ CleanStep(batch) \/ CleanLocked(batch)
      PROVE  ProgramsInv'
  BY <1>5, CaptureStepInv, CleanStepInv
<1> QED BY <1>1, <1>2, <1>3, <1>4, <1>5 DEF Next

\* The programs keep the chains in order, whatever they are and however they
\* are interrupted.
THEOREM ProgramsSafe == Spec => []ProgramsInv
<1> QED BY ProgramsInit, ProgramsStep, PTL DEF Spec

-----------------------------------------------------------------------------
(***************************************************************************)
(* What a sound kernel does with the connections of the proxy.             *)
(***************************************************************************)

\* Which targets decide, which only mark, and which name a chain.
LEMMA BuiltinTargets ==
    /\ \A s \in {"ISTIO_OUTPUT", "ISTIO_INBOUND", "ISTIO_REDIRECT", "ISTIO_IN_REDIRECT", "ISTIO_DIVERT",
                 "ISTIO_TPROXY"} : ~Builtin(s) /\ s \notin Verdicts
    /\ \A s \in Verdicts : Builtin(s)
    /\ \A s \in {"MARK", "CT", "NFLOG", "SAVEMARK", "RESTOREMARK"} : Builtin(s) /\ s \notin Verdicts
    /\ \A s : Jump(s)[1] = s /\ Redirect(s)[1] = "REDIRECT" /\ Redirect(s)[2] = s
BY DEF Builtin, Verdicts, Jump, Redirect

\* The rules of a chain of a sound kernel.
LEMMA RulesOf ==
    ASSUME NEW k, NEW g, Sound(k, g), NEW t, NEW c, <<t, c>> \in DOMAIN k,
           NEW i \in 1 .. Len(k[<<t, c>>])
    PROVE  LET r == k[<<t, c>>][i]
           IN  /\ r \in Good(g) /\ r.t = t /\ r.c = c
               /\ r.j \in Targets(g, t, c) \cup {Jump("NFLOG")}
               /\ Builtin(r.j[1]) \/ <<t, r.j[1]>> \in DOMAIN k
<1> DEFINE o == <<t, c>>
           S == Content(g, k, o)
<1>1. k[o] \in Seq(S)
  BY DEF Sound
<1>2. \A r \in S : /\ r \in Good(g) /\ r.t = t /\ r.c = c
                   /\ Builtin(r.j[1]) \/ <<t, r.j[1]>> \in DOMAIN k
  BY DEF Content
<1>3. \A r \in Good(g) : r.j \in Targets(g, r.t, r.c) \cup {Jump("NFLOG")}
  BY DEF Good
<1> HIDE DEF S, o
<1>4. k[o][i] \in S
  BY <1>1 DEF o
<1> QED BY <1>2, <1>3, <1>4 DEF o

\* The verdict of an inmost chain is one of its targets.
LEMMA InmostVerdict ==
    ASSUME NEW k, NEW g, Sound(k, g), NEW t, NEW c, <<t, c>> \in DOMAIN k, NEW p \in PacketType
    PROVE  LET v == Inmost(k, t, c, p).v IN v # Return => v \in Targets(g, t, c) /\ v[1] \in Verdicts
<1> DEFINE v == Inmost(k, t, c, p).v
           rules == k[<<t, c>>]
<1> SUFFICES ASSUME v # Return PROVE v \in Targets(g, t, c) /\ v[1] \in Verdicts
  OBVIOUS
<1>1. WellFormed(k)
  BY SoundWellFormed
<1>2. PICK i \in 1 .. Len(rules), q \in PacketType : Decides(rules, i, p, q, v, Return)
  BY <1>1, InmostDecides
<1>3. rules[i].j[1] \in Verdicts /\ v = rules[i].j
  BY <1>2 DEF Decides
<1>4. rules[i].j \in Targets(g, t, c) \cup {Jump("NFLOG")}
  BY RulesOf
<1> QED BY <1>3, <1>4, BuiltinTargets

\* In mangle and raw, nothing decides about an outgoing packet.
LEMMA MangleOut ==
    ASSUME NEW k, NEW g, Sound(k, g), NEW p \in PacketType
    PROVE  Walk(k, "mangle", "OUTPUT", p).v = Return
<1> DEFINE v == Walk(k, "mangle", "OUTPUT", p).v
           rules == k[<<"mangle", "OUTPUT">>]
<1> SUFFICES ASSUME v # Return PROVE FALSE
  OBVIOUS
<1>1. WellFormed(k) /\ <<"mangle", "OUTPUT">> \in DOMAIN k
  BY SoundWellFormed DEF Sound, Hooks, Tables
<1>2. PICK i \in 1 .. Len(rules), q \in PacketType :
            Decides(rules, i, p, q, v, Inner(k, "mangle", rules[i].j[1], q).v)
  BY <1>1, WalkDecides
<1>3. rules[i].j \in {Return, <<"MARK", outboundMark>>, Jump("RESTOREMARK"), Jump("NFLOG")}
  <2>1. rules[i].j \in Targets(g, "mangle", "OUTPUT") \cup {Jump("NFLOG")}
    BY <1>1, RulesOf
  <2> QED BY <2>1, TargetsOf
<1>4. (rules[i].j[1] \in Verdicts /\ v = rules[i].j) \/ ~Builtin(rules[i].j[1])
  BY <1>2 DEF Decides
<1>5. Return[1] = "RETURN" /\ Builtin("RETURN")
  BY DEF Return, Jump, Builtin, Verdicts
<1>6. <<"MARK", outboundMark>>[1] = "MARK"
  OBVIOUS
<1> QED BY <1>3, <1>4, <1>5, <1>6, BuiltinTargets

\* In nat, what an owner sends by TCP is left alone, or sent to the port for
\* inbound traffic.
LEMMA NatOut ==
    ASSUME NEW k, NEW g, Sound(k, g), NEW p \in PacketType, p["proto"] = "tcp",
           NEW w \in Shields(g), \A q \in PacketType : Like(p, q) => Matches(w.m, q)
    PROVE  Walk(k, "nat", "OUTPUT", p).v \in {Return, Redirect(g.InboundCapturePort)}
<1> DEFINE v == Walk(k, "nat", "OUTPUT", p).v
           rules == k[<<"nat", "OUTPUT">>]
<1> SUFFICES ASSUME v # Return PROVE v = Redirect(g.InboundCapturePort)
  OBVIOUS
<1>1. WellFormed(k) /\ <<"nat", "OUTPUT">> \in DOMAIN k
  BY SoundWellFormed DEF Sound, Hooks, Tables
<1>2. PICK i \in 1 .. Len(rules), q \in PacketType :
            Decides(rules, i, p, q, v, Inner(k, "nat", rules[i].j[1], q).v)
  BY <1>1, WalkDecides
<1>3. /\ rules[i].j \in {Return, Jump("ISTIO_OUTPUT"), Redirect(AgentDNSPort), Jump("NFLOG")}
      /\ rules[i] \in Good(g) /\ rules[i].c = "OUTPUT"
      /\ Builtin(rules[i].j[1]) \/ <<"nat", rules[i].j[1]>> \in DOMAIN k
  BY <1>1, RulesOf, TargetsOf
<1>4. /\ (rules[i].j[1] \in Verdicts /\ v = rules[i].j)
         \/ (~Builtin(rules[i].j[1]) /\ v = Inner(k, "nat", rules[i].j[1], q).v)
      /\ Matches(rules[i].m, q) /\ Like(p, q)
  BY <1>2 DEF Decides
<1>5. q["proto"] = "tcp"
  BY <1>4 DEF Like, Fixed
<1>6. rules[i].j # Redirect(AgentDNSPort)
  <2> SUFFICES ASSUME rules[i].j = Redirect(AgentDNSPort) PROVE FALSE
    OBVIOUS
  <2>1. Is("proto", "udp") \in rules[i].m
    BY <1>3 DEF Good
  <2> QED BY <1>4, <1>5, <2>1 DEF Matches, Is
<1>7. rules[i].j = Jump("ISTIO_OUTPUT") /\ v = Inner(k, "nat", "ISTIO_OUTPUT", q).v /\ OutKey \in DOMAIN k
  <2>1. Return[1] = "RETURN" /\ Builtin("RETURN")
    BY DEF Return, Jump, Builtin, Verdicts
  <2> QED BY <1>3, <1>4, <1>6, <2>1, BuiltinTargets DEF OutKey
<1> DEFINE outs == k[<<"nat", "ISTIO_OUTPUT">>]
<1>8. PICK n \in 1 .. Len(outs), x \in PacketType :
            Decides(outs, n, q, x, v, Inmost(k, "nat", outs[n].j[1], x).v)
  BY <1>1, <1>7, InnerDecides DEF OutKey
<1>9. /\ outs[n].j \in {Return, Jump("ISTIO_REDIRECT"), Jump("ISTIO_IN_REDIRECT"), Redirect(AgentDNSPort),
                        Jump("NFLOG")}
      /\ outs[n].t = "nat" /\ outs[n].c = "ISTIO_OUTPUT"
      /\ Builtin(outs[n].j[1]) \/ <<"nat", outs[n].j[1]>> \in DOMAIN k
  BY <1>7, RulesOf, TargetsOf DEF OutKey
<1>10. /\ (outs[n].j[1] \in Verdicts /\ v = outs[n].j)
          \/ (~Builtin(outs[n].j[1]) /\ v = Inmost(k, "nat", outs[n].j[1], x).v)
       /\ Reached(outs, n, q)
  BY <1>8 DEF Decides
<1>11. ~Captures(outs[n])
  <2> SUFFICES ASSUME Captures(outs[n]) PROVE FALSE
    OBVIOUS
  <2>1. PICK h \in 1 .. (n - 1) : outs[h] = w
    BY <1>7 DEF Sound, OutKey, Sheltered
  <2>2. w.j = Return
    BY DEF Shields, Shield, Rule
  <2>3. PICK y \in PacketType : Like(q, y) /\ ~Matches(w.m, y)
    BY <1>10, <2>1, <2>2 DEF Reached
  <2>4. Like(p, y)
    BY <1>4, <2>3 DEF Like
  <2> QED BY <2>3, <2>4
<1>12. outs[n].j = Jump("ISTIO_IN_REDIRECT") /\ v = Inmost(k, "nat", "ISTIO_IN_REDIRECT", x).v
       /\ <<"nat", "ISTIO_IN_REDIRECT">> \in DOMAIN k
  <2>1. Return[1] = "RETURN" /\ Builtin("RETURN")
    BY DEF Return, Jump, Builtin, Verdicts
  <2>2. outs[n].j \notin {Jump("ISTIO_REDIRECT"), Redirect(AgentDNSPort)}
    BY <1>9, <1>11 DEF Captures
  <2> QED BY <1>9, <1>10, <2>1, <2>2, BuiltinTargets
<1>13. v \in Targets(g, "nat", "ISTIO_IN_REDIRECT")
  BY <1>12, InmostVerdict
<1> QED BY <1>13, TargetsOf

\* Hence ProxyNeverLoops, for every configuration and every packet.
LEMMA OwnersSafe == ProgramsInv => ProxyNeverLoops
<1> SUFFICES ASSUME ProgramsInv, NEW p \in Packets, p.dir = "out", p.proto = "tcp", Owned(p)
             PROVE  ~RedirectedTo(Verdict(p), {cfg.ProxyPort, AgentDNSPort})
  BY DEF ProxyNeverLoops
<1> DEFINE k == kern[p.fam]
           raw == Walk(k, "raw", "OUTPUT", p)
           mgl == Walk(k, "mangle", "OUTPUT", raw.p)
           nat == Walk(k, "nat", "OUTPUT", mgl.p)
<1>1. p \in PacketType /\ p.fam \in Families
  BY OptionsTyped, PacketsAssumption
<1>2. Sound(k, cfg) /\ WellFormed(k)
  BY <1>1, SoundWellFormed DEF ProgramsInv
<1>3. {<<"raw", "OUTPUT">>, <<"mangle", "OUTPUT">>} \subseteq DOMAIN k
  BY <1>2 DEF Sound, Hooks, Tables
<1> HIDE DEF k
<1>4. raw.p \in PacketType /\ Like(p, raw.p)
  BY <1>1, <1>2, <1>3, WalkDecides
<1> HIDE DEF raw
<1>5. mgl.v = Return /\ mgl.p \in PacketType /\ Like(raw.p, mgl.p)
  BY <1>2, <1>3, <1>4, WalkDecides, MangleOut
<1> HIDE DEF mgl
<1>6. Like(p, mgl.p)
  BY <1>4, <1>5 DEF Like
<1>7. PICK w \in Shields(cfg) : \A q \in PacketType : Like(p, q) => Matches(w.m, q)
  <2>1. ASSUME NEW o \in {"uid", "gid"}, NEW x, p[o] = x, NEW q \in PacketType, Like(p, q)
        PROVE  Matches(Shield(o, x).m, q)
    <3>1. q[o] = x
      BY <2>1 DEF Like, Fixed
    <3>2. Shield(o, x).m = {Is(o, x)}
      BY DEF Shield, Rule
    <3> SUFFICES ASSUME NEW c \in {Is(o, x)} PROVE c[2] <=> (q[c[1]] \in c[3])
      BY <3>2 DEF Matches
    <3>3. c = Is(o, x)
      OBVIOUS
    <3>4. Is(o, x)[1] = o /\ Is(o, x)[3] = {x}
      BY DEF Is
    <3>5. Is(o, x)[2]
      BY DEF Is
    <3>6. q[c[1]] \in c[3]
      BY <3>1, <3>3, <3>4
    <3> QED BY <3>3, <3>5, <3>6, Zenon
  <2>2. CASE \E i \in DOMAIN cfg.ProxyUID : p.uid = cfg.ProxyUID[i]
    <3>1. PICK i \in DOMAIN cfg.ProxyUID : p["uid"] = cfg.ProxyUID[i]
      BY <2>2
    <3>2. Shield("uid", cfg.ProxyUID[i]) \in Shields(cfg)
      BY DEF Shields
    <3> QED BY <2>1, <3>1, <3>2
  <2>3. CASE \E i \in DOMAIN cfg.ProxyGID : p.gid = cfg.ProxyGID[i]
    <3>1. PICK i \in DOMAIN cfg.ProxyGID : p["gid"] = cfg.ProxyGID[i]
      BY <2>3
    <3>2. Shield("gid", cfg.ProxyGID[i]) \in Shields(cfg)
      BY DEF Shields
    <3> QED BY <2>1, <3>1, <3>2
  <2> QED BY <2>2, <2>3 DEF Owned
<1>8. nat.v \in {Return, Redirect(cfg.InboundCapturePort)}
  <2>1. (mgl.p)["proto"] = "tcp"
    BY <1>6 DEF Like, Fixed
  <2>2. \A q \in PacketType : Like(mgl.p, q) => Matches(w.m, q)
    BY <1>6, <1>7 DEF Like
  <2> QED BY <1>2, <1>5, <2>1, <2>2, NatOut
<1> HIDE DEF nat
<1>9. Return[1] = "RETURN"
  BY DEF Return, Jump
<1>10. Verdict(p) \in {mgl.v, nat.v}
  <2>1. Fate(k, p) \in {mgl, nat}
    BY <1>5 DEF Fate, raw, mgl, nat
  <2> QED BY <2>1 DEF Verdict, k
<1>11. Verdict(p) \in {Return, Redirect(cfg.InboundCapturePort)}
  BY <1>5, <1>8, <1>10
<1>12. cfg.InboundCapturePort \notin {cfg.ProxyPort, AgentDNSPort}
  BY DEF ProgramsInv
<1> QED BY <1>9, <1>11, <1>12, BuiltinTargets DEF RedirectedTo

\* "Avoid infinite loops" (run.go), for every configuration and every packet: in
\* whatever order captures and cleaners run, and wherever they are stopped, a TCP
\* connection of the proxy's user or group is never sent to the proxy's own
\* outbound port or to the DNS port of the agent.
THEOREM ProxyNeverLoopsTheorem == Spec => []ProxyNeverLoops
<1> QED BY ProgramsSafe, OwnersSafe, PTL

-----------------------------------------------------------------------------
(***************************************************************************)
(* The validation.                                                         *)
(***************************************************************************)

\* The verdicts that send the probe to the service.
ToService == {Redirect(probeCfg.ProxyPort), Redirect(probeCfg.InboundCapturePort)}

\* A connection to the probe port was redirected to the service: the probe, or
\* one of somebody else that was accepted.
Explained == verdict \in ToService \/ (strayed /\ strays # {})

\* Whatever waits at a listener with the probe port as its original destination
\* was redirected there; what has been accepted of it, in the channel or in what
\* the service or the validator returned, is explained.
ProbeInv ==
    /\ ~applied => verdict = Return /\ strays = {}
    /\ todo \in Seq({probeCfg.ProxyPort, probeCfg.InboundCapturePort})
    /\ up \subseteq {probeCfg.ProxyPort, probeCfg.InboundCapturePort}
    /\ done \in Nat
    /\ \A c \in pending : c[2] = Validation!ProbePort =>
           IF c[3] = "other" THEN strays # {} ELSE verdict \in ToService
    /\ done > 0 \/ service = "passed" \/ result = "passed" => Explained

\* Without rules, nothing happens to a packet.
LEMMA EmptyWalk ==
    ASSUME NEW k, NEW t, NEW c, NEW p, Len(k[<<t, c>>]) = 0
    PROVE  Validation!Walk(k, t, c, p) = Validation!Undecided(p)
<1> DEFINE n == Len(k[<<t, c>>])
           Next1(i, y) == Validation!Step(k[<<t, c>>][i], y, Validation!Inner(k, t, k[<<t, c>>][i].j[1], y.p))
           u == Validation!Undecided(p)
           f0 == CHOOSE f : f = [i \in 0 .. n |-> IF i = 0 THEN u ELSE Next1(i, f[i - 1])]
<1>1. Validation!Walk(k, t, c, p) = f0[n]
  BY Zenon DEF Validation!Walk, Validation!Traverse
<1> HIDE DEF Next1, u
<1>2. \E f : f = [i \in 0 .. n |-> IF i = 0 THEN u ELSE Next1(i, f[i - 1])]
  <2> DEFINE g == [i \in 0 .. n |-> u]
  <2>1. g = [i \in 0 .. n |-> IF i = 0 THEN u ELSE Next1(i, g[i - 1])]
    BY \A i \in 0 .. n : i = 0
  <2> HIDE DEF g
  <2> QED BY <2>1, Zenon
<1>3. f0 = [i \in 0 .. n |-> IF i = 0 THEN u ELSE Next1(i, f0[i - 1])]
  BY <1>2, Zenon
<1> HIDE DEF f0
<1>4. \A i \in 0 .. n : f0[i] = IF i = 0 THEN u ELSE Next1(i, f0[i - 1])
  BY <1>3, Zenon
<1>5. n \in 0 .. n /\ n = 0
  OBVIOUS
<1> QED BY <1>1, <1>4, <1>5 DEF u

\* Without rules every packet passes.
LEMMA EmptyFate == ASSUME NEW p PROVE Validation!Fate(Validation!EmptyKernel, p).v = Return
<1> DEFINE k == Validation!EmptyKernel
           hook == IF p.dir = "out" THEN "OUTPUT" ELSE "PREROUTING"
<1>1. \A o \in {"raw", "mangle", "nat"} \X {"PREROUTING", "OUTPUT"} : k[o] = <<>>
  BY DEF Validation!EmptyKernel, Validation!Tables
<1>2. /\ <<"raw", hook>> \in {"raw", "mangle", "nat"} \X {"PREROUTING", "OUTPUT"}
      /\ <<"mangle", hook>> \in {"raw", "mangle", "nat"} \X {"PREROUTING", "OUTPUT"}
      /\ <<"nat", hook>> \in {"raw", "mangle", "nat"} \X {"PREROUTING", "OUTPUT"}
  OBVIOUS
<1>3. Len(<<>>) = 0
  OBVIOUS
<1> HIDE DEF k
<1>4. ASSUME NEW q, NEW t \in {"raw", "mangle", "nat"}
      PROVE  Validation!Walk(k, t, hook, q) = Validation!Undecided(q)
  <2>1. <<t, hook>> \in {"raw", "mangle", "nat"} \X {"PREROUTING", "OUTPUT"}
    BY <1>2
  <2>2. k[<<t, hook>>] = <<>>
    BY <1>1, <2>1, Zenon
  <2> QED BY <1>3, <2>2, EmptyWalk
<1>5. \A q : Validation!Undecided(q).v = Return
  BY DEF Validation!Undecided, Validation!Return, Validation!Jump, Return, Jump
<1> QED BY <1>4, <1>5 DEF Validation!Fate, k

\* No probe has been sent at the start.
LEMMA ProbeInit == Validation!Init => ProbeInv
<1> SUFFICES ASSUME Validation!Init PROVE ProbeInv
  OBVIOUS
<1>1. ~applied => verdict = Return /\ strays = {}
  <2> SUFFICES ASSUME ~applied PROVE verdict = Return /\ strays = {}
    OBVIOUS
  <2>1. verdict = Return
    BY EmptyFate DEF Validation!Init, Validation!ProbeVerdict
  <2>2. \A q : Validation!Redirect(q) # Return
    BY DEF Validation!Redirect, Return, Jump
  <2>3. strays = {q \in {probeCfg.ProxyPort, probeCfg.InboundCapturePort} :
                     \E p \in Others : Validation!Fate(Validation!EmptyKernel, p).v = Validation!Redirect(q)}
    BY DEF Validation!Init, Validation!StrayPorts
  <2> QED BY <2>1, <2>2, <2>3, EmptyFate, Zenon
<1>2. todo \in Seq({probeCfg.ProxyPort, probeCfg.InboundCapturePort})
  BY DEF Validation!Init, Validation!ListenPorts
<1> QED BY <1>1, <1>2 DEF Validation!Init, ProbeInv

\* Every step of the validation keeps its invariant.
LEMMA ProbeStep == ProbeInv /\ [Validation!Next]_(Validation!vars) => ProbeInv'
<1> SUFFICES ASSUME ProbeInv, [Validation!Next]_(Validation!vars) PROVE ProbeInv'
  OBVIOUS
<1> USE DEF ProbeInv, ToService, Explained
<1>1. CASE UNCHANGED Validation!vars
  BY <1>1 DEF Validation!vars
<1>2. ASSUME NEW ok \in BOOLEAN, Validation!Listen(ok) PROVE ProbeInv'
  <2> DEFINE P == {probeCfg.ProxyPort, probeCfg.InboundCapturePort}
  <2>1. todo \in Seq(P) /\ todo # <<>>
    BY <1>2 DEF Validation!Listen
  <2>2. Head(todo) \in P /\ Tail(todo) \in Seq(P)
    <3> HIDE DEF P
    <3> QED BY <2>1
  <2> QED BY <1>2, <2>2 DEF Validation!Listen
<1>3. CASE Validation!Ready
  BY <1>3 DEF Validation!Ready
<1>4. CASE Validation!Dial
  <2>1. ASSUME NEW c \in pending', c[2] = Validation!ProbePort
        PROVE  IF c[3] = "other" THEN strays # {} ELSE verdict \in ToService
    <3>1. CASE c \in pending
      BY <2>1, <3>1
    <3>2. CASE c \notin pending
      <4>1. /\ \E q \in up : verdict = Redirect(q)
            /\ c[3] = "probe"
        BY <1>4, <3>2 DEF Validation!Dial, Validation!Redirect, Redirect
      <4> QED BY <4>1
    <3> QED BY <3>1, <3>2
  <2> QED BY <1>4, <2>1 DEF Validation!Dial
<1>5. CASE Validation!Wake
  BY <1>5 DEF Validation!Wake
<1>6. CASE Validation!ServiceReturns
  BY <1>6 DEF Validation!ServiceReturns
<1>7. CASE Validation!Decide
  BY <1>7 DEF Validation!Decide
<1>8. CASE Validation!Timeout
  BY <1>8 DEF Validation!Timeout
<1>9. ASSUME NEW port, NEW orig, Validation!Stray(port, orig) PROVE ProbeInv'
  <2>1. ASSUME NEW c \in pending', c[2] = Validation!ProbePort
        PROVE  IF c[3] = "other" THEN strays # {} ELSE verdict \in ToService
    <3>1. CASE c \in pending
      BY <2>1, <3>1
    <3>2. CASE c \notin pending
      <4>1. c = <<port, orig, "other">>
        BY <1>9, <3>2 DEF Validation!Stray
      <4>2. orig = Validation!ProbePort /\ c[3] = "other"
        BY <2>1, <4>1
      <4> QED BY <1>9, <4>2 DEF Validation!Stray
    <3> QED BY <3>1, <3>2
  <2> QED BY <1>9, <2>1 DEF Validation!Stray
<1>10. ASSUME NEW c \in pending, NEW known \in BOOLEAN, Validation!Accept(c, known) PROVE ProbeInv'
  <2>1. CASE known /\ c[2] = Validation!ProbePort
    <3>1. IF c[3] = "other" THEN strays # {} /\ strayed' ELSE verdict \in ToService
      BY <1>10, <2>1, Zenon DEF Validation!Accept
    <3>2. Explained'
      BY <1>10, <3>1 DEF Validation!Accept
    <3> QED BY <1>10, <2>1, <3>2 DEF Validation!Accept
  <2>2. CASE ~(known /\ c[2] = Validation!ProbePort)
    BY <1>10, <2>2 DEF Validation!Accept
  <2> QED BY <2>1, <2>2
<1> QED BY <1>1, <1>2, <1>3, <1>4, <1>5, <1>6, <1>7, <1>8, <1>9, <1>10 DEF Validation!Next

\* A validation passes only where the rules are installed and redirect the probe,
\* or a connection of somebody else to the probe port that the service accepted,
\* whatever the configuration, the users, the listeners that could not bind, the
\* connections of others and the order of the goroutines (validator.go).
THEOREM PassMeansRedirectedTheorem == Validation!Spec => []PassMeansRedirected
<1>1. ProbeInv => PassMeansRedirected
  <2>1. \A x : Redirect(x) # Return
    BY DEF Redirect, Return, Jump
  <2>2. \A x : Validation!Redirect(x) = Redirect(x)
    BY DEF Validation!Redirect, Redirect
  <2> QED BY <2>1, <2>2 DEF ProbeInv, ToService, Explained, PassMeansRedirected, Validation!PassMeansRedirected
<1> QED BY <1>1, ProbeInit, ProbeStep, PTL DEF Validation!Spec

-----------------------------------------------------------------------------
(***************************************************************************)
(* What a complete clean leaves behind.                                    *)
(***************************************************************************)

\* The command that empties chain o, and the entry of the queue that does.
Flush(o) == Cmd("F", o[1], o[2], NoRule)
Flushes(q, f, o) == \E i \in 1 .. Len(q) : q[i] = Entry(f, {<<Flush(o)>>})
Empty(k, o) == o \in DOMAIN k => k[o] = <<>>

\* While a cleaner has carried out all of its commands, a chain of the program is
\* empty, or is still to be emptied.
CleanInv ==
    /\ prog = "clean" => \A f \in Families, o \in OwnChains : Empty(kern[f], o) \/ Flushes(queue, f, o)
    /\ cleaned => prog = "idle" /\ \A f \in Families, o \in OwnChains : Empty(kern[f], o)

\* The flushes of the cleaner hold one of each chain of the list.
LEMMA HoldsFlush ==
    ASSUME NEW h, NEW t, NEW N, NEW chains \in Seq(N), NEW i \in DOMAIN chains,
           \A c \in N : <<t, c>> \in OwnChains
    PROVE  Holds(flushAndDeleteChains(t, chains), Flush(<<t, chains[i]>>))
<1> DEFINE S == Removes(h)
           ss == [n \in DOMAIN chains |-> <<Cmd("F", t, chains[n], NoRule), Cmd("X", t, chains[n], NoRule)>>]
<1>1. ASSUME NEW c \in N PROVE <<Cmd("F", t, c, NoRule), Cmd("X", t, c, NoRule)>> \in Seq(S)
  <2>1. Cmd("F", t, c, NoRule) \in S /\ Cmd("X", t, c, NoRule) \in S
    <3> DEFINE key == <<t, c>>
    <3>1. key \in OwnChains /\ key[1] = t /\ key[2] = c
      OBVIOUS
    <3> HIDE DEF key
    <3> QED BY <3>1 DEF Removes
  <2> HIDE DEF S
  <2>2. ASSUME NEW x \in S, NEW y \in S PROVE <<x, y>> \in Seq(S)
    OBVIOUS
  <2> QED BY <2>1, <2>2
<1>2. ss \in Seq(Seq(S)) /\ i \in 1 .. Len(ss)
  <2> HIDE DEF S
  <2>1. ss = [n \in DOMAIN chains |-> ss[n]] /\ \A n \in DOMAIN chains : ss[n] \in Seq(S)
    BY <1>1
  <2>2. DOMAIN chains = 1 .. Len(chains) /\ Len(chains) \in Nat
    OBVIOUS
  <2> HIDE DEF ss
  <2>3. ss \in Seq(Seq(S))
    BY <2>1, <2>2
  <2>4. DOMAIN ss = 1 .. Len(chains) /\ DOMAIN ss = 1 .. Len(ss)
    BY <2>1, <2>2, <2>3
  <2> QED BY <2>2, <2>3, <2>4
<1>3. flushAndDeleteChains(t, chains) = FlattenSeq(ss)
  BY DEF flushAndDeleteChains, Each
<1>4. 1 \in 1 .. Len(ss[i]) /\ ss[i][1] = Flush(<<t, chains[i]>>)
  BY DEF Flush
<1> HIDE DEF ss, S
<1>5. FlattenPlaced(ss, Len(ss), FlattenSeq(ss))
  BY <1>2, FlattenElements
<1>6. \E q \in 1 .. Len(FlattenSeq(ss)) : FlattenSeq(ss)[q] = ss[i][1]
  BY <1>2, <1>4, <1>5 DEF FlattenPlaced
<1> QED BY <1>3, <1>4, <1>6 DEF Holds

\* The cleaner empties every chain of the program.
LEMMA AllFlushed ==
    ASSUME NEW h, DNSTyped(h), NEW o \in OwnChains PROVE Holds(removeOldChains(h), Flush(o))
<1> DEFINE S == Removes(h)
           n1 == <<"ISTIO_OUTPUT", "ISTIO_INBOUND">>
           n2 == <<"ISTIO_INBOUND", "ISTIO_DIVERT", "ISTIO_TPROXY">>
           n3 == <<"ISTIO_REDIRECT", "ISTIO_IN_REDIRECT">>
           N1 == {"ISTIO_OUTPUT", "ISTIO_INBOUND"}
           N2 == {"ISTIO_INBOUND", "ISTIO_DIVERT", "ISTIO_TPROXY"}
           N3 == {"ISTIO_REDIRECT", "ISTIO_IN_REDIRECT"}
           c0 == Deletions(h)
           c1 == flushAndDeleteChains("nat", n1)
           c2 == flushAndDeleteChains("mangle", n2)
           c3 == flushAndDeleteChains("nat", n3)
<1>1. /\ n1 \in Seq(N1) /\ DOMAIN n1 = {1, 2} /\ n1[1] = "ISTIO_OUTPUT" /\ n1[2] = "ISTIO_INBOUND"
      /\ \A c \in N1 : <<"nat", c>> \in OwnChains
  BY DEF OwnChains, OutKey
<1>2. /\ n2 \in Seq(N2) /\ DOMAIN n2 = {1, 2, 3}
      /\ n2[1] = "ISTIO_INBOUND" /\ n2[2] = "ISTIO_DIVERT" /\ n2[3] = "ISTIO_TPROXY"
      /\ \A c \in N2 : <<"mangle", c>> \in OwnChains
  BY DEF OwnChains, OutKey
<1>3. /\ n3 \in Seq(N3) /\ DOMAIN n3 = {1, 2} /\ n3[1] = "ISTIO_REDIRECT" /\ n3[2] = "ISTIO_IN_REDIRECT"
      /\ \A c \in N3 : <<"nat", c>> \in OwnChains
  BY DEF OwnChains, OutKey
<1> HIDE DEF n1, n2, n3, N1, N2, N3
<1>4. c0 \in Seq(S) /\ c1 \in Seq(S) /\ c2 \in Seq(S) /\ c3 \in Seq(S)
  BY <1>1, <1>2, <1>3, DeletionsRemove, FlushRemove
<1>5. /\ Holds(c1, Flush(<<"nat", n1[1]>>)) /\ Holds(c1, Flush(<<"nat", n1[2]>>))
      /\ Holds(c2, Flush(<<"mangle", n2[1]>>)) /\ Holds(c2, Flush(<<"mangle", n2[2]>>))
      /\ Holds(c2, Flush(<<"mangle", n2[3]>>))
      /\ Holds(c3, Flush(<<"nat", n3[1]>>)) /\ Holds(c3, Flush(<<"nat", n3[2]>>))
  <2>1. 1 \in {1, 2} /\ 2 \in {1, 2} /\ 1 \in {1, 2, 3} /\ 2 \in {1, 2, 3} /\ 3 \in {1, 2, 3}
    OBVIOUS
  <2>2. Holds(c1, Flush(<<"nat", n1[1]>>)) /\ Holds(c1, Flush(<<"nat", n1[2]>>))
    BY <1>1, <2>1, HoldsFlush
  <2>3. /\ Holds(c2, Flush(<<"mangle", n2[1]>>)) /\ Holds(c2, Flush(<<"mangle", n2[2]>>))
        /\ Holds(c2, Flush(<<"mangle", n2[3]>>))
    BY <1>2, <2>1, HoldsFlush
  <2>4. Holds(c3, Flush(<<"nat", n3[1]>>)) /\ Holds(c3, Flush(<<"nat", n3[2]>>))
    BY <1>3, <2>1, HoldsFlush
  <2> QED BY <2>2, <2>3, <2>4
<1>6. Holds(c1, Flush(o)) \/ Holds(c2, Flush(o)) \/ Holds(c3, Flush(o))
  BY <1>1, <1>2, <1>3, <1>5 DEF OwnChains, OutKey
<1>7. removeOldChains(h) = ((c0 \o c1) \o c2) \o c3
  BY DEF removeOldChains, n1, n2, n3
<1> HIDE DEF c0, c1, c2, c3, S
<1>8. c0 \o c1 \in Seq(S) /\ (c0 \o c1) \o c2 \in Seq(S)
  BY <1>4, SeqParts
<1>9. Holds(c1, Flush(o)) => Holds(c0 \o c1, Flush(o))
  BY <1>4, ShelterConcat
<1>10. Holds(c0 \o c1, Flush(o)) \/ Holds(c2, Flush(o)) => Holds((c0 \o c1) \o c2, Flush(o))
  BY <1>4, <1>8, ShelterConcat
<1>11. Holds((c0 \o c1) \o c2, Flush(o)) \/ Holds(c3, Flush(o)) => Holds(((c0 \o c1) \o c2) \o c3, Flush(o))
  BY <1>4, <1>8, ShelterConcat
<1> QED BY <1>6, <1>7, <1>9, <1>10, <1>11

\* The cleaner starts with a flush of every chain that redirects.
LEMMA CleanFlushes ==
    ASSUME NEW h, DNSTyped(h), NEW f \in Families, NEW o \in OwnChains
    PROVE  Flushes(CleanCommands("v4", h) \o CleanCommands("v6", h), f, o)
<1> DEFINE cmds == removeOldChains(h)
           a == CleanCommands("v4", h)
           b == CleanCommands("v6", h)
           E == CleanEntry(h)
<1>1. "v4" \in Families /\ "v6" \in Families /\ (f = "v4" \/ f = "v6")
  BY DEF Families
<1>2. a \in Seq(E) /\ b \in Seq(E)
  <2> HIDE DEF E
  <2> QED BY <1>1, CleanCommandsRemove DEF E
<1>3. PICK i \in 1 .. Len(cmds) : cmds[i] = Flush(o)
  BY AllFlushed DEF Holds
<1>4. a = [n \in DOMAIN cmds |-> Entry("v4", {<<cmds[n]>>})] /\ b = [n \in DOMAIN cmds |-> Entry("v6", {<<cmds[n]>>})]
  BY DEF CleanCommands
<1>5. cmds \in Seq(Removes(h))
  BY OldChainsRemoved
<1> DEFINE n == Len(cmds)
<1>6. n \in Nat /\ DOMAIN cmds = 1 .. n /\ Len(a) = n /\ Len(b) = n
  <2> HIDE DEF cmds, E, a, b
  <2>1. DOMAIN cmds = 1 .. n /\ n \in Nat
    BY <1>5
  <2>2. DOMAIN a = 1 .. n /\ DOMAIN b = 1 .. n
    BY <1>4, <2>1
  <2> QED BY <1>2, <2>1, <2>2
<1>7. a[i] = Entry("v4", {<<Flush(o)>>}) /\ b[i] = Entry("v6", {<<Flush(o)>>})
  <2> HIDE DEF cmds, a, b
  <2> QED BY <1>3, <1>4, <1>6
<1> HIDE DEF a, b, E, cmds, n
<1>8. /\ Len(a \o b) = n + n /\ (a \o b)[i] = a[i] /\ (a \o b)[n + i] = b[i]
      /\ i \in 1 .. (n + n) /\ n + i \in 1 .. (n + n)
  BY <1>2, <1>3, <1>6 DEF n
<1>9. Flushes(a \o b, f, o)
  BY <1>1, <1>7, <1>8 DEF Flushes
<1> QED BY <1>9 DEF a, b

\* What a command of the cleaner does to a chain of the program.
LEMMA RemoveEmpties ==
    ASSUME NEW k, NEW h, NEW c \in Removes(h), NEW o \in OwnChains
    PROVE  /\ Accepts(k, c) /\ Empty(k, o) => Empty(Apply(k, c), o)
           /\ c = Flush(o) /\ Accepts(k, c) => Empty(Apply(k, c), o)
           /\ c = Flush(o) /\ ~Accepts(k, c) => Empty(k, o)
<1> DEFINE key == <<c.t, c.c>>
<1>1. c.op \in {"D", "F", "X"} /\ (c.op = "D" => key \in HookKeys)
  <2>1. \A r \in Hooked(h) : <<r.t, r.c>> \in HookKeys
    BY DEF Hooked
  <2> QED BY <2>1 DEF Removes, Cmd
<1>2. HookKeys \cap OwnChains = {}
  BY DEF HookKeys, OwnChains, OutKey
<1>3. CASE c.op = "D"
  <2>1. key # o /\ c # Flush(o)
    BY <1>1, <1>2, <1>3 DEF Flush, Cmd
  <2>2. Accepts(k, c) => DOMAIN Apply(k, c) = DOMAIN k /\ (o \in DOMAIN k => Apply(k, c)[o] = k[o])
    <3> DEFINE s == RemoveAt(k[key], CHOOSE i \in DOMAIN k[key] :
                            /\ SameRule(k[key][i], c.r)
                            /\ \A l \in 1 .. (i - 1) : ~SameRule(k[key][l], c.r))
    <3>1. Apply(k, c) = [k EXCEPT ![key] = s]
      BY <1>3 DEF Apply
    <3> HIDE DEF s, key
    <3> QED BY <2>1, <3>1
  <2> QED BY <2>1, <2>2 DEF Empty
<1>4. CASE c.op = "F"
  <2>1. Apply(k, c) = [k EXCEPT ![key] = <<>>] /\ (Accepts(k, c) <=> key \in DOMAIN k)
    BY <1>4 DEF Apply, Accepts
  <2>2. c = Flush(o) => key = o
    BY DEF Flush, Cmd, OwnChains, OutKey
  <2> HIDE DEF key
  <2> QED BY <2>1, <2>2 DEF Empty
<1>5. CASE c.op = "X"
  <2>1. Apply(k, c) = [x \in DOMAIN k \ {key} |-> k[x]] /\ c # Flush(o)
    BY <1>5 DEF Apply, Flush, Cmd
  <2> HIDE DEF key
  <2> QED BY <2>1 DEF Empty
<1> QED BY <1>1, <1>3, <1>4, <1>5

\* What is no longer to be flushed is empty.
LEMMA CleanStepFlushes ==
    ASSUME ProgramsInv, CleanInv, NEW batch \in Pending, CleanStep(batch) PROVE CleanInv'
<1> DEFINE E == CleanEntry(cleanCfg)
<1>1. queue \in Seq(E) /\ prog \in {"clean", "skipping"} /\ prog' = prog
      /\ cleaned' = cleaned /\ queue' = Done(batch)
  BY DEF CleanStep, Cleaning, ProgramsInv
<1>2. Len(queue) \in Nat \ {0} /\ batch \in queue[1].todo /\ Head(queue) = queue[1] /\ queue[1] \in E
  <2> HIDE DEF E
  <2>1. Len(queue) \in Nat \ {0} /\ batch \in queue[1].todo /\ Head(queue) = queue[1]
    BY <1>1, DoneOf
  <2> QED BY <1>1, <2>1
<1>3. PICK g \in Families, c \in Removes(cleanCfg) : queue[1] = Entry(g, {<<c>>})
  BY <1>2 DEF CleanEntry
<1>4. queue[1].fam = g /\ batch = <<c>> /\ queue[1].todo \ {batch} = {}
  BY <1>2, <1>3 DEF Entry
<1>5. Len(queue') = Len(queue) - 1 /\ \A i \in 1 .. Len(queue') : queue'[i] = queue[i + 1]
  <2> HIDE DEF E
  <2> QED BY <1>1, <1>4, DoneOf
<1>6. ~cleaned
  BY <1>1 DEF CleanInv
<1>7. ASSUME prog = "clean", NEW f \in Families, NEW o \in OwnChains
      PROVE  Empty(kern'[f], o) \/ Flushes(queue', f, o)
  <2> DEFINE r == Execute(kern[g], <<c>>)
  <2>1. kern' = IF r.ok THEN [kern EXCEPT ![g] = r.k] ELSE kern
    BY <1>2, <1>4 DEF CleanStep
  <2>2. (r.ok <=> Accepts(kern[g], c)) /\ (r.ok => r.k = Apply(kern[g], c))
    BY ExecuteOne
  <2> HIDE DEF r
  <2>3. kern = [x \in Families |-> kern[x]]
    BY DEF ProgramsInv
  <2>4. CASE Empty(kern[f], o)
    <3>1. CASE f = g /\ r.ok
      <4>1. kern'[f] = Apply(kern[g], c) /\ Accepts(kern[g], c) /\ Empty(kern[g], o)
        BY <2>1, <2>2, <2>3, <2>4, <3>1
      <4> QED BY <4>1, RemoveEmpties
    <3>2. CASE ~(f = g /\ r.ok)
      <4>1. kern'[f] = kern[f]
        BY <2>1, <2>3, <3>2
      <4> QED BY <2>4, <4>1
    <3> QED BY <3>1, <3>2
  <2>5. CASE Flushes(queue, f, o)
    <3>1. PICK i \in 1 .. Len(queue) : queue[i] = Entry(f, {<<Flush(o)>>})
      BY <2>5 DEF Flushes
    <3>2. CASE i = 1
      <4>1. f = g /\ {<<c>>} = {<<Flush(o)>>}
        BY <1>3, <3>1, <3>2 DEF Entry
      <4>2. c = Flush(o)
        <5>1. <<c>> = <<Flush(o)>>
          BY <4>1
        <5>2. <<c>>[1] = c /\ <<Flush(o)>>[1] = Flush(o)
          OBVIOUS
        <5> QED BY <5>1, <5>2, Zenon
      <4>3. CASE r.ok
        <5>1. kern'[f] = Apply(kern[g], c) /\ Accepts(kern[g], c)
          BY <2>1, <2>2, <2>3, <4>1, <4>3
        <5> QED BY <4>2, <5>1, RemoveEmpties
      <4>4. CASE ~r.ok
        <5>1. kern'[f] = kern[g] /\ ~Accepts(kern[g], c)
          BY <2>1, <2>2, <2>3, <4>1, <4>4
        <5> QED BY <4>2, <5>1, RemoveEmpties
      <4> QED BY <4>3, <4>4
    <3>3. CASE i # 1
      <4>1. i - 1 \in 1 .. Len(queue') /\ (i - 1) + 1 = i
        BY <1>2, <1>5, <3>3
      <4>2. queue'[i - 1] = Entry(f, {<<Flush(o)>>})
        BY <1>5, <3>1, <4>1
      <4> QED BY <4>1, <4>2 DEF Flushes
    <3> QED BY <3>2, <3>3
  <2> QED BY <1>7, <2>4, <2>5 DEF CleanInv
<1> QED BY <1>1, <1>6, <1>7 DEF CleanInv

\* Every step of the programs keeps the invariant of the cleaner.
LEMMA CleanNext == ProgramsInv /\ CleanInv /\ [Next]_vars => CleanInv'
<1> SUFFICES ASSUME ProgramsInv, CleanInv, [Next]_vars PROVE CleanInv'
  OBVIOUS
<1>1. CASE UNCHANGED vars
  BY <1>1 DEF vars, CleanInv
<1>2. CASE StartCapture
  <2>1. prog' \in {"idle", "capture"} /\ ~cleaned'
    BY <1>2 DEF StartCapture, Start
  <2> QED BY <2>1 DEF CleanInv
<1>3. CASE StartClean
  <2>1. prog' \in {"idle", "clean"} /\ ~cleaned'
        /\ (prog' = "clean" => queue' = CleanCommands("v4", cleanCfg) \o CleanCommands("v6", cleanCfg))
    BY <1>3 DEF StartClean, Start
  <2>2. DNSTyped(cleanCfg)
    BY DEF ProgramsInv
  <2>3. prog' = "clean" => \A f \in Families, o \in OwnChains : Flushes(queue', f, o)
    BY <2>1, <2>2, CleanFlushes
  <2> QED BY <2>1, <2>3 DEF CleanInv
<1>4. CASE CaptureDone \/ CaptureEnds \/ ConfigureRoutes
  <2>1. prog' \in {"idle", "routes"} /\ cleaned' = cleaned /\ prog \in {"capture", "routes"}
    BY <1>4 DEF CaptureDone, CaptureEnds, ConfigureRoutes
  <2> QED BY <2>1 DEF CleanInv
<1>5. CASE CleanEnds
  <2>1. prog' = "idle" /\ kern' = kern /\ cleaned' = (prog = "clean" /\ queue = <<>>)
    BY <1>5 DEF CleanEnds
  <2>2. queue = <<>> => \A f, o : ~Flushes(queue, f, o)
    BY DEF Flushes
  <2> QED BY <2>1, <2>2 DEF CleanInv
<1>6. ASSUME NEW batch \in Pending, CaptureStep(batch) PROVE CleanInv'
  <2>1. prog = "capture" /\ prog' \in {"capture", "idle"} /\ cleaned' = cleaned
    BY <1>6 DEF CaptureStep
  <2> QED BY <2>1 DEF CleanInv
<1>7. ASSUME NEW batch \in Pending, CleanLocked(batch) PROVE CleanInv'
  <2>1. prog = "clean" /\ prog' = "skipping" /\ cleaned' = cleaned
    BY <1>7 DEF CleanLocked
  <2> QED BY <2>1 DEF CleanInv
<1>8. ASSUME NEW batch \in Pending, CleanStep(batch) PROVE CleanInv'
  BY <1>8, CleanStepFlushes
<1> QED BY <1>1, <1>2, <1>3, <1>4, <1>5, <1>6, <1>7, <1>8 DEF Next

\* With the chains of the program empty, only DNS over UDP is still redirected.
LEMMA CleanVerdict ==
    ASSUME NEW k, NEW g, Sound(k, g), \A o \in OwnChains : Empty(k, o),
           NEW p \in PacketType, NEW hook \in {"OUTPUT", "PREROUTING"}
    PROVE  /\ Walk(k, "mangle", hook, p).v \in {Return, Jump("DROP")}
           /\ Walk(k, "nat", hook, p).v # Return => p["proto"] = "udp" /\ hook = "OUTPUT"
<1>1. WellFormed(k) /\ <<"mangle", hook>> \in DOMAIN k /\ <<"nat", hook>> \in DOMAIN k
  BY SoundWellFormed DEF Sound, Hooks, Tables
<1>2. Return[1] = "RETURN" /\ Builtin("RETURN") /\ Builtin("DROP")
  BY DEF Return, Jump, Builtin, Verdicts
<1>3. ASSUME NEW t, NEW c, <<t, c>> \in OwnChains, <<t, c>> \in DOMAIN k, NEW q \in PacketType
      PROVE  Inner(k, t, c, q).v = Return
  <2>1. k[<<t, c>>] = <<>> /\ Len(k[<<t, c>>]) = 0
    BY <1>3 DEF Empty
  <2> QED BY <1>1, <1>3, <2>1, InnerDecides
<1>4. /\ <<"nat", "ISTIO_OUTPUT">> \in OwnChains /\ <<"nat", "ISTIO_INBOUND">> \in OwnChains
      /\ <<"nat", "ISTIO_REDIRECT">> \in OwnChains /\ <<"mangle", "ISTIO_INBOUND">> \in OwnChains
  BY DEF OwnChains, OutKey
<1>5. ASSUME Walk(k, "mangle", hook, p).v # Return PROVE Walk(k, "mangle", hook, p).v = Jump("DROP")
  <2> DEFINE v == Walk(k, "mangle", hook, p).v
             rules == k[<<"mangle", hook>>]
  <2>1. PICK i \in 1 .. Len(rules), q \in PacketType :
            Decides(rules, i, p, q, v, Inner(k, "mangle", rules[i].j[1], q).v)
    BY <1>1, <1>5, WalkDecides
  <2>2. /\ rules[i].j \in Targets(g, "mangle", hook) \cup {Jump("NFLOG")}
        /\ Builtin(rules[i].j[1]) \/ <<"mangle", rules[i].j[1]>> \in DOMAIN k
    BY <1>1, RulesOf
  <2>3. rules[i].j \in {Return, <<"MARK", outboundMark>>, Jump("RESTOREMARK"), Jump("NFLOG"),
                        Jump("ISTIO_INBOUND"), Jump("DROP"), Jump("SAVEMARK")}
    BY <2>2, TargetsOf
  <2>4. (rules[i].j[1] \in Verdicts /\ v = rules[i].j)
        \/ (~Builtin(rules[i].j[1]) /\ v = Inner(k, "mangle", rules[i].j[1], q).v)
    BY <2>1 DEF Decides
  <2>5. <<"MARK", outboundMark>>[1] = "MARK"
    OBVIOUS
  <2>6. rules[i].j # Jump("ISTIO_INBOUND")
    BY <1>3, <1>4, <1>5, <2>2, <2>4, BuiltinTargets
  <2> QED BY <1>2, <1>5, <2>3, <2>4, <2>5, <2>6, BuiltinTargets
<1>6. ASSUME Walk(k, "nat", hook, p).v # Return PROVE p["proto"] = "udp" /\ hook = "OUTPUT"
  <2> DEFINE v == Walk(k, "nat", hook, p).v
             rules == k[<<"nat", hook>>]
  <2>1. PICK i \in 1 .. Len(rules), q \in PacketType :
            Decides(rules, i, p, q, v, Inner(k, "nat", rules[i].j[1], q).v)
    BY <1>1, <1>6, WalkDecides
  <2>2. /\ rules[i].j \in Targets(g, "nat", hook) \cup {Jump("NFLOG")}
        /\ Builtin(rules[i].j[1]) \/ <<"nat", rules[i].j[1]>> \in DOMAIN k
        /\ rules[i] \in Good(g) /\ rules[i].c = hook
    BY <1>1, RulesOf
  <2>3. rules[i].j \in {Return, Jump("ISTIO_OUTPUT"), Jump("NFLOG"), Jump("ISTIO_INBOUND"), Jump("ISTIO_REDIRECT")}
        \/ (rules[i].j = Redirect(AgentDNSPort) /\ hook = "OUTPUT")
    BY <2>2, TargetsOf
  <2>4. /\ (rules[i].j[1] \in Verdicts /\ v = rules[i].j)
           \/ (~Builtin(rules[i].j[1]) /\ v = Inner(k, "nat", rules[i].j[1], q).v)
        /\ Matches(rules[i].m, q) /\ Like(p, q)
    BY <2>1 DEF Decides
  <2>5. rules[i].j \notin {Jump("ISTIO_OUTPUT"), Jump("ISTIO_INBOUND"), Jump("ISTIO_REDIRECT")}
    BY <1>3, <1>4, <1>6, <2>2, <2>4, BuiltinTargets
  <2>6. rules[i].j = Redirect(AgentDNSPort) /\ hook = "OUTPUT"
    BY <1>2, <1>6, <2>3, <2>4, <2>5, BuiltinTargets
  <2>7. Is("proto", "udp") \in rules[i].m
    BY <2>2, <2>6 DEF Good
  <2>8. q["proto"] = "udp"
    BY <2>4, <2>7 DEF Matches, Is
  <2> QED BY <2>4, <2>6, <2>8 DEF Like, Fixed
<1> QED BY <1>5, <1>6

\* What CleanedCapturesNothing says of TCP, in every configuration, and of DNS
\* over UDP, that it is the only exception.
CleanedCapturesNoTcp ==
    cleaned => \A p \in Packets : Redirected(Verdict(p)) => p.proto = "udp" /\ p.dir = "out"

\* From it, nothing over TCP is redirected after a clean.
LEMMA CleanedVerdicts == ProgramsInv /\ CleanInv => CleanedCapturesNoTcp
<1> SUFFICES ASSUME ProgramsInv, CleanInv, cleaned, NEW p \in Packets, Redirected(Verdict(p))
             PROVE  p.proto = "udp" /\ p.dir = "out"
  BY DEF CleanedCapturesNoTcp
<1> DEFINE k == kern[p.fam]
           hook == IF p.dir = "out" THEN "OUTPUT" ELSE "PREROUTING"
           raw == Walk(k, "raw", hook, p)
           mgl == Walk(k, "mangle", hook, raw.p)
           nat == Walk(k, "nat", hook, mgl.p)
<1>1. p \in PacketType /\ p.fam \in Families
  BY OptionsTyped, PacketsAssumption
<1>2. Sound(k, cfg) /\ WellFormed(k) /\ \A o \in OwnChains : Empty(k, o)
  BY <1>1, SoundWellFormed DEF ProgramsInv, CleanInv
<1>3. <<"raw", hook>> \in DOMAIN k /\ <<"mangle", hook>> \in DOMAIN k
  BY <1>2 DEF Sound, Hooks, Tables
<1>4. hook \in {"OUTPUT", "PREROUTING"} /\ (hook = "OUTPUT" => p.dir = "out")
  OBVIOUS
<1> HIDE DEF k, hook
<1>5. raw.p \in PacketType /\ Like(p, raw.p)
  BY <1>1, <1>2, <1>3, WalkDecides
<1> HIDE DEF raw
<1>6. mgl.v \in {Return, Jump("DROP")}
  BY <1>2, <1>4, <1>5, CleanVerdict
<1>7. mgl.p \in PacketType /\ Like(raw.p, mgl.p)
  BY <1>2, <1>3, <1>5, WalkDecides
<1> HIDE DEF mgl
<1>8. nat.v # Return => (mgl.p)["proto"] = "udp" /\ hook = "OUTPUT"
  BY <1>2, <1>4, <1>7, CleanVerdict
<1> HIDE DEF nat
<1>9. Verdict(p) \in {mgl.v, nat.v}
  <2>1. Fate(k, p) \in {mgl, nat}
    BY DEF Fate, raw, mgl, nat, hook
  <2> QED BY <2>1 DEF Verdict, k
<1>10. Verdict(p) # Return /\ Verdict(p) # Jump("DROP")
  BY DEF Redirected, Return, Jump
<1>11. (mgl.p)["proto"] = "udp" /\ hook = "OUTPUT"
  BY <1>6, <1>8, <1>9, <1>10
<1>12. Like(p, mgl.p)
  BY <1>5, <1>7 DEF Like
<1> QED BY <1>4, <1>11, <1>12 DEF Like, Fixed

\* A cleaner that could run all its commands leaves nothing behind that sends a
\* packet to the agent but DNS over UDP, whatever the configurations of the two
\* programs are and however the earlier ones ended (clean.go).
THEOREM CleanedTheorem == Spec => []CleanedCapturesNoTcp
<1>1. Init => CleanInv
  BY DEF Init, CleanInv
<1> QED BY <1>1, ProgramsSafe, CleanNext, CleanedVerdicts, PTL DEF Spec
=============================================================================
