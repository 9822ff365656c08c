--------------------------- MODULE IptablesRules ---------------------------
(***************************************************************************)
(* The rules that the capture program builds from its configuration, and   *)
(* what a kernel that holds them does with a packet.                       *)
(*                                                                         *)
(* A rule is a table, a chain, a position (0 for -A, n for -I n), a set of *)
(* conditions and a target.  A condition <<f, b, S>> says that field f of  *)
(* the packet is in S (b = TRUE) or outside S (an option preceded by "!"). *)
(* A comma separated list of the command line is a sequence, the empty     *)
(* string is <<>>, and the wildcard is <<"*">>.  Addresses are names; the  *)
(* loopback addresses of the two families are lo1 (127.0.0.1 and ::1) and  *)
(* lo6 (127.0.0.6 and ::6).                                                *)
(***************************************************************************)
EXTENDS Naturals, Sequences, FiniteSets, SequencesExt

Families == {"v4", "v6"}
Lo1 == "lo1"
Lo6 == "lo6"
TunnelPort == "15008"
DNSPort == "53"
AgentDNSPort == "15053"
TProxyMark == "1337"
outboundMark == "1338"

Is(f, x) == <<f, TRUE, {x}>>
Not(f, x) == <<f, FALSE, {x}>>
Among(f, S) == <<f, TRUE, S>>
Matches(m, p) == \A c \in m : c[2] <=> (p[c[1]] \in c[3])

Jump(c) == <<c, "none">>
Return == Jump("RETURN")
Redirect(port) == <<"REDIRECT", port>>

-----------------------------------------------------------------------------
(* The builder.                                                            *)

Rule(t, c, n, m, j) == [t |-> t, c |-> c, pos |-> n, m |-> m, j |-> j]

\* A rule whose command is identified (named) is preceded by a copy that logs,
\* when tracing is on.
AppendRule(g, named, t, c, m, j) ==
    (IF g.TraceLogging /\ named THEN <<Rule(t, c, 0, m, Jump("NFLOG"))>> ELSE <<>>)
        \o <<Rule(t, c, 0, m, j)>>

\* An insertion is followed by its log rule, which moves in front of it.
InsertRule(g, named, t, c, n, m, j) ==
    <<Rule(t, c, n, m, j)>>
        \o (IF g.TraceLogging /\ named THEN <<Rule(t, c, n, m, Jump("NFLOG"))>> ELSE <<>>)

When(b, s) == IF b THEN s ELSE <<>>
Each(list, F(_)) == FlattenSeq([i \in DOMAIN list |-> F(list[i])])
Those(list, T(_)) == Each(list, LAMBDA e : When(T(e), <<e>>))

BuiltInChains == {"INPUT", "OUTPUT", "FORWARD", "PREROUTING", "POSTROUTING"}

\* The chains that have to be created, in the order of their first rule.
NewChains(rules) ==
    LET keys == [i \in DOMAIN rules |-> <<rules[i].t, rules[i].c>>]
    IN  FlattenSeq([i \in DOMAIN rules |->
            When(/\ rules[i].c \notin BuiltInChains
                 /\ \A h \in 1 .. (i - 1) : keys[h] # keys[i], <<keys[i]>>)])

\* A command is a creation ("N"), a rule ("A" or "I"), a deletion of a rule
\* ("D"), a flush ("F") or a deletion of a chain ("X").
Cmd(op, t, c, r) == [op |-> op, t |-> t, c |-> c, r |-> r]
NoRule == Rule("none", "none", 0, {}, Return)
RuleCmd(r) == Cmd(IF r.pos = 0 THEN "A" ELSE "I", r.t, r.c, r)

buildRules(rules) ==
    LET new == NewChains(rules)
    IN  [i \in DOMAIN new |-> Cmd("N", new[i][1], new[i][2], NoRule)]
            \o [i \in DOMAIN rules |-> RuleCmd(rules[i])]

\* The restore file holds the same commands, one section per table.
buildRestore(rules) ==
    [t \in {rules[i].t : i \in DOMAIN rules} |->
        Those(buildRules(rules), LAMBDA c : c.t = t)]

-----------------------------------------------------------------------------
(* The configuration.                                                      *)

\* An entry of a list of CIDR blocks is its family ("bad" if it does not parse),
\* the addresses of the block and whether the address it is written with is a
\* loopback one.
CidrEntry(fam, addrs, loopback) == [fam |-> fam, addrs |-> addrs, loopback |-> loopback]
AnyRange == <<CidrEntry("*", {}, FALSE)>>

\* Fault: the list ends at the first entry that does not parse.
separateV4V6Stops(list, fam) ==
    LET own == Those(Those(list, LAMBDA e : e.fam = fam),
                     LAMBDA e : \E i \in DOMAIN list : /\ list[i] = e
                            /\ \A h \in 1 .. i : list[h].fam # "bad")
    IN  [IsWildcard |-> list = AnyRange,
         IPNets |-> [i \in DOMAIN own |-> own[i].addrs],
         HasLoopBackIP |-> \E i \in DOMAIN own : own[i].loopback]

\* One family's part of a list of CIDR blocks; an entry that does not parse
\* is skipped.
separateV4V6(list, fam) ==
    IF list = AnyRange THEN [IsWildcard |-> TRUE, IPNets |-> <<>>, HasLoopBackIP |-> FALSE]
    ELSE LET own == Those(list, LAMBDA e : e.fam = fam)
         IN  [IsWildcard |-> FALSE,
              IPNets |-> [i \in DOMAIN own |-> own[i].addrs],
              HasLoopBackIP |-> \E i \in DOMAIN own : own[i].loopback]

ParseInterceptFilter(include, exclude) ==
    IF include = <<"*">> THEN [Except |-> TRUE, Values |-> exclude]
                         ELSE [Except |-> FALSE, Values |-> include]

maxOwnerGroupsInclude == 64
Validate(g) ==
    LET f == ParseInterceptFilter(g.OwnerGroupsInclude, g.OwnerGroupsExclude)
    IN  f.Except \/ Len(f.Values) <= maxOwnerGroupsInclude

\* What bindFlags and bindCmdlineFlags give an option nobody sets.  The
\* default of RedirectDNS is an environment variable.
Defaults(env) ==
    [ProxyUID |-> <<>>, ProxyGID |-> <<>>, InboundInterceptionMode |-> "",
     InboundPortsInclude |-> <<>>, InboundPortsExclude |-> <<>>,
     OwnerGroupsInclude |-> <<"*">>, OwnerGroupsExclude |-> <<>>,
     OutboundPortsInclude |-> <<>>, OutboundPortsExclude |-> <<>>,
     OutboundIPRangesInclude |-> <<>>, OutboundIPRangesExclude |-> <<>>,
     KubeVirtInterfaces |-> <<>>, ExcludeInterfaces |-> <<>>,
     ProxyPort |-> "15001", InboundCapturePort |-> "15006",
     RestoreFormat |-> TRUE, TraceLogging |-> FALSE, DryRun |-> FALSE,
     SkipRuleApply |-> FALSE, RunValidation |-> FALSE,
     RedirectDNS |-> env.IDEFAV_META_DNS_CAPTURE, DropInvalid |-> FALSE,
     CaptureAllDNS |-> FALSE]

\* viper: a flag that was given, then the environment, then the default.
viperGet(flags, vars, dflt) ==
    [k \in DOMAIN dflt |-> IF k \in DOMAIN flags THEN flags[k]
                           ELSE IF k \in DOMAIN vars THEN vars[k] ELSE dflt[k]]

OrElse(list, other) == IF list = <<>> THEN other ELSE list
SplitV4V6(servers, fam) == Those(servers, LAMBDA s : s.fam = fam)

constructConfig(flags, env) ==
    LET o   == viperGet(flags, env.vars, Defaults(env))
        uid == OrElse(o.ProxyUID, <<env.uidOf["lhotse-agent"]>>)
    IN  [k \in (DOMAIN o) \cup {"EnableInboundIPv6", "DNSServers"} |->
            CASE k = "ProxyUID" -> uid
              [] k = "ProxyGID" -> OrElse(o.ProxyGID, uid)
              [] k = "EnableInboundIPv6" -> env.podFamily = "v6"
              [] k = "DNSServers" ->
                    IF o.RedirectDNS /\ ~o.CaptureAllDNS THEN env.resolvConf ELSE <<>>
              [] OTHER -> o[k]]

\* The cleaner has its own, smaller set of options and other defaults.
CleanDefaults(env) ==
    [ProxyUID |-> <<>>, ProxyGID |-> <<>>, DryRun |-> FALSE,
     RedirectDNS |-> env.ISTIO_META_DNS_CAPTURE,
     OwnerGroupsInclude |-> <<"*">>, OwnerGroupsExclude |-> <<>>,
     CaptureAllDNS |-> FALSE]

constructCleanConfig(flags, env) ==
    LET o   == viperGet(flags, env.vars, CleanDefaults(env))
        uid == OrElse(o.ProxyUID, <<env.uidOf["istio-proxy"]>>)
    IN  [k \in (DOMAIN o) \cup {"DNSServers", "TraceLogging"} |->
            CASE k = "ProxyUID" -> uid
              [] k = "ProxyGID" -> OrElse(o.ProxyGID, uid)
              [] k = "DNSServers" -> IF o.RedirectDNS THEN env.resolvConf ELSE <<>>
              [] k = "TraceLogging" -> FALSE
              [] OTHER -> o[k]]

-----------------------------------------------------------------------------
(* The rules of one family, in the order of Run.                           *)

shortCircuitExcludeInterfaces(g) ==
    LET exclude(t) == Each(g.ExcludeInterfaces, LAMBDA i :
            AppendRule(g, TRUE, t, "PREROUTING", {Is("iif", i)}, Return)
                \o AppendRule(g, TRUE, t, "OUTPUT", {Is("oif", i)}, Return))
    IN  exclude("nat") \o When(g.InboundInterceptionMode = "TPROXY", exclude("mangle"))

shortCircuitKubeInternalInterface(g) ==
    Each(g.KubeVirtInterfaces, LAMBDA i :
        InsertRule(g, TRUE, "nat", "PREROUTING", 1, {Is("iif", i)}, Return))

Established == Among("ct", {"ESTABLISHED", "RELATED"})
Tcp == Is("proto", "tcp")

handleInboundPortsInclude(g) ==
    LET tproxy == g.InboundInterceptionMode = "TPROXY"
        table  == IF tproxy THEN "mangle" ELSE "nat"
        inb(named, m, j) == AppendRule(g, named, table, "ISTIO_INBOUND", {Tcp} \cup m, j)
        \* What is done with the traffic selected by m.
        take(named, m) ==
            IF tproxy THEN inb(named, m \cup {Established}, Jump("ISTIO_DIVERT"))
                             \o inb(named, m, Jump("ISTIO_TPROXY"))
                      ELSE inb(named, m, Jump("ISTIO_IN_REDIRECT"))
    IN  When(g.InboundPortsInclude # <<>>,
             When(tproxy,
                  AppendRule(g, FALSE, "mangle", "ISTIO_DIVERT", {}, <<"MARK", TProxyMark>>)
                  \o AppendRule(g, FALSE, "mangle", "ISTIO_DIVERT", {}, Jump("ACCEPT"))
                  \o AppendRule(g, FALSE, "mangle", "ISTIO_TPROXY", {Not("dst", Lo1), Tcp},
                                <<"TPROXY", g.InboundCapturePort>>))
             \o AppendRule(g, TRUE, table, "PREROUTING", {Tcp}, Jump("ISTIO_INBOUND"))
             \o (IF g.InboundPortsInclude = <<"*">>
                 THEN Each(g.InboundPortsExclude,
                           LAMBDA port : inb(TRUE, {Is("dport", port)}, Return))
                      \o take(FALSE, {})
                 ELSE Each(g.InboundPortsInclude,
                           LAMBDA port : take(TRUE, {Is("dport", port)}))))

OutputRule(g, m, j) == AppendRule(g, FALSE, "nat", "ISTIO_OUTPUT", m, j)

\* Fault: the rule against loops is missing.
OwnerRulesLoop(g, owner, x, hasLoopBackIP) ==
    OutputRule(g, {Is("oif", "lo"), Not("dst", Lo1), Is(owner, x)}, Jump("ISTIO_IN_REDIRECT"))
    \o When(~hasLoopBackIP, OutputRule(g, {Is("oif", "lo"), Not(owner, x)}, Return))

\* Fault: calls of an application to itself are not left alone.
OwnerRulesCaptureLo(g, owner, x, hasLoopBackIP) ==
    OutputRule(g, {Is("oif", "lo"), Not("dst", Lo1), Is(owner, x)}, Jump("ISTIO_IN_REDIRECT"))
    \o OutputRule(g, {Is(owner, x)}, Return)

\* The three rules of one proxy user (owner = "uid") or group ("gid").  Only
\* the first rule of a user leaves DNS alone, that of a group does not.
OwnerRules(g, owner, x, hasLoopBackIP) ==
    LET dns == IF g.RedirectDNS THEN {Tcp, Not("dport", DNSPort)} ELSE {}
    IN  OutputRule(g, {Is("oif", "lo"), Not("dst", Lo1), Is(owner, x)}
                      \cup (IF owner = "uid" THEN dns ELSE {}), Jump("ISTIO_IN_REDIRECT"))
        \o When(~hasLoopBackIP,
                OutputRule(g, {Is("oif", "lo"), Not(owner, x)} \cup dns, Return))
        \o OutputRule(g, {Is(owner, x)}, Return)

handleCaptureByOwnerGroup(g, filter) ==
    IF filter.Except
    THEN Each(filter.Values, LAMBDA x : OutputRule(g, {Is("gid", x)}, Return))
    ELSE OutputRule(g, {Not("gid", filter.Values[i]) : i \in DOMAIN filter.Values}, Return)

DNSTcpRules(g, fam) ==
    LET redirect(m) == OutputRule(g, {Tcp, Is("dport", DNSPort)} \cup m, Redirect(AgentDNSPort))
    IN  When(g.RedirectDNS,
             IF g.CaptureAllDNS THEN redirect({})
             ELSE Each(SplitV4V6(g.DNSServers, fam), LAMBDA s : redirect({Is("dst", s.addr)})))

handleOutboundPortsInclude(g) ==
    Each(g.OutboundPortsInclude,
         LAMBDA port : OutputRule(g, {Tcp, Is("dport", port)}, Jump("ISTIO_REDIRECT")))

handleOutboundIncludeRules(g, range) ==
    LET virt(m) == Each(g.KubeVirtInterfaces, LAMBDA i :
            InsertRule(g, TRUE, "nat", "PREROUTING", 1, {Is("iif", i)} \cup m,
                       Jump("ISTIO_REDIRECT")))
    IN  IF range.IsWildcard THEN OutputRule(g, {}, Jump("ISTIO_REDIRECT")) \o virt({})
        ELSE When(range.IPNets # <<>>,
                  Each(range.IPNets, LAMBDA net : virt({Among("dst", net)})
                      \o OutputRule(g, {Among("dst", net)}, Jump("ISTIO_REDIRECT")))
                  \o OutputRule(g, {}, Return))

\* UDPRuleApplier: Run gives a rule to every family of fams in turn, RunV4 and
\* RunV6 (a rule about a resolver) to the family of the address.  The capture
\* program builds one family; the cleaner runs both with the same command.
ForAll(fams, r) == Each(fams, LAMBDA f : r)
ForServers(g, fams, R(_)) ==
    Each(fams, LAMBDA f : Each(SplitV4V6(g.DNSServers, f), LAMBDA s : R({Is("dst", s.addr)})))

\* The conntrack zones of DNS traffic.  As in the source, the rule for the
\* answers of a resolver looks for its address as the destination.
addConntrackZoneDNSUDP(g, fams) ==
    LET zone(c, m, z) == AppendRule(g, FALSE, "raw", c, {Is("proto", "udp")} \cup m, <<"CT", z>>)
        asked(m) == zone("OUTPUT", {Is("dport", DNSPort)} \cup m, "2")
        answered(m) == zone("PREROUTING", {Is("sport", DNSPort)} \cup m, "1")
        own(owner, x) ==
            ForAll(fams, zone("OUTPUT", {Is("dport", DNSPort), Is(owner, x)}, "1"))
            \o ForAll(fams, zone("OUTPUT", {Is("sport", AgentDNSPort), Is(owner, x)}, "2"))
    IN  Each(g.ProxyUID, LAMBDA x : own("uid", x))
        \o Each(g.ProxyGID, LAMBDA x : own("gid", x))
        \o (IF g.CaptureAllDNS THEN ForAll(fams, asked({})) \o ForAll(fams, answered({}))
            ELSE ForServers(g, fams, LAMBDA m : asked(m) \o answered(m)))

HandleDNSUDP(g, fams) ==
    LET filter == ParseInterceptFilter(g.OwnerGroupsInclude, g.OwnerGroupsExclude)
        udp(m, j) == AppendRule(g, FALSE, "nat", "OUTPUT",
                                {Is("proto", "udp"), Is("dport", DNSPort)} \cup m, j)
        skip(owner, x) == ForAll(fams, udp({Is(owner, x)}, Return))
    IN  Each(g.ProxyUID, LAMBDA x : skip("uid", x))
        \o Each(g.ProxyGID, LAMBDA x : skip("gid", x))
        \o (IF filter.Except THEN Each(filter.Values, LAMBDA x : skip("gid", x))
            ELSE ForAll(fams, udp({Not("gid", filter.Values[i]) : i \in DOMAIN filter.Values},
                                  Return)))
        \o (IF g.CaptureAllDNS THEN ForAll(fams, udp({}, Redirect(AgentDNSPort)))
            ELSE ForServers(g, fams, LAMBDA m : udp(m, Redirect(AgentDNSPort))))
        \o addConntrackZoneDNSUDP(g, fams)

\* The rules TPROXY needs to keep the proxy's own packets out of the proxy.
TProxyLoopRules(g) ==
    LET mangle(c, m, j) == AppendRule(g, FALSE, "mangle", c, {Tcp} \cup m, j)
        guard(n, m) == InsertRule(g, FALSE, "mangle", "ISTIO_INBOUND", n, {Tcp} \cup m, Return)
        own(owner, x) == mangle("OUTPUT", {Not("dst", Lo1), Is("oif", "lo"), Is(owner, x)},
                                <<"MARK", outboundMark>>)
    IN  When(g.InboundInterceptionMode = "TPROXY",
             mangle("PREROUTING", {Is("mark", TProxyMark)}, Jump("SAVEMARK"))
             \o mangle("OUTPUT", {Is("oif", "lo"), Is("mark", TProxyMark)}, Return)
             \o Each(g.ProxyUID, LAMBDA x : own("uid", x))
             \o Each(g.ProxyGID, LAMBDA x : own("gid", x))
             \o mangle("OUTPUT", {Is("connmark", TProxyMark)}, Jump("RESTOREMARK"))
             \o guard(1, {Is("mark", TProxyMark)})
             \o guard(2, {Is("src", Lo6), Is("iif", "lo")})
             \o guard(3, {Is("iif", "lo"), Not("mark", outboundMark)}))

\* The part of the rules of Run up to the jump into ISTIO_OUTPUT.
InboundRules(g) ==
    shortCircuitExcludeInterfaces(g)
    \o shortCircuitKubeInternalInterface(g)
    \o When(g.DropInvalid,
            AppendRule(g, FALSE, "mangle", "PREROUTING", {Is("ct", "INVALID")}, Jump("DROP")))
    \o AppendRule(g, FALSE, "nat", "ISTIO_INBOUND", {Tcp, Is("dport", TunnelPort)}, Return)
    \o AppendRule(g, FALSE, "nat", "ISTIO_REDIRECT", {Tcp}, Redirect(g.ProxyPort))
    \o AppendRule(g, TRUE, "nat", "ISTIO_IN_REDIRECT", {Tcp}, Redirect(g.InboundCapturePort))
    \o handleInboundPortsInclude(g)

\* The rules of ISTIO_OUTPUT: exclusions first, inclusions last.
OutboundRules(g, fam) ==
    LET incl == separateV4V6(g.OutboundIPRangesInclude, fam)
        loop == \E f \in Families : separateV4V6(g.OutboundIPRangesInclude, f).HasLoopBackIP
    IN  AppendRule(g, TRUE, "nat", "OUTPUT", {Tcp}, Jump("ISTIO_OUTPUT"))
        \o Each(g.OutboundPortsExclude,
                LAMBDA port : OutputRule(g, {Tcp, Is("dport", port)}, Return))
        \o OutputRule(g, {Is("oif", "lo"), Is("src", Lo6)}, Return)
        \o Each(g.ProxyUID, LAMBDA x : OwnerRules(g, "uid", x, loop))
        \o Each(g.ProxyGID, LAMBDA x : OwnerRules(g, "gid", x, loop))
        \o handleCaptureByOwnerGroup(g, ParseInterceptFilter(g.OwnerGroupsInclude,
                                                             g.OwnerGroupsExclude))
        \o DNSTcpRules(g, fam)
        \o OutputRule(g, {Is("dst", Lo1)}, Return)
        \o Each(separateV4V6(g.OutboundIPRangesExclude, fam).IPNets,
                LAMBDA net : OutputRule(g, {Among("dst", net)}, Return))
        \o handleOutboundPortsInclude(g)
        \o handleOutboundIncludeRules(g, incl)

\* Run panics on a wildcard exclusion before it builds anything, and builds
\* nothing for IPv6 unless the pod has an IPv6 address.
RunPanics(g) == separateV4V6(g.OutboundIPRangesExclude, "v4").IsWildcard
RunRules(g, fam) ==
    When(fam = "v4" \/ g.EnableInboundIPv6,
         InboundRules(g) \o OutboundRules(g, fam)
         \o When(g.RedirectDNS, HandleDNSUDP(g, <<fam>>))
         \o TProxyLoopRules(g))

\* Fault: the DNS rules are not deleted.
DeletionsTcpOnly(g) ==
    <<Cmd("D", "nat", "PREROUTING", Rule("nat", "PREROUTING", 0, {Tcp}, Jump("ISTIO_INBOUND"))),
      Cmd("D", "nat", "OUTPUT", Rule("nat", "OUTPUT", 0, {Tcp}, Jump("ISTIO_OUTPUT")))>>

\* What the cleaner deletes, and then flushes, with each of the two commands.
Deletions(g) ==
    LET del(t, c, m, j) == <<Cmd("D", t, c, Rule(t, c, 0, m, j))>>
        dns == Each(HandleDNSUDP(g, <<"v4", "v6">>), LAMBDA r : <<Cmd("D", r.t, r.c, r)>>)
    IN  del("nat", "PREROUTING", {Tcp}, Jump("ISTIO_INBOUND"))
        \o del("mangle", "PREROUTING", {Tcp}, Jump("ISTIO_INBOUND"))
        \o del("nat", "OUTPUT", {Tcp}, Jump("ISTIO_OUTPUT"))
        \o When(g.RedirectDNS, dns)

flushAndDeleteChains(t, chains) ==
    Each(chains, LAMBDA c : <<Cmd("F", t, c, NoRule), Cmd("X", t, c, NoRule)>>)

removeOldChains(g) ==
    Deletions(g)
    \o flushAndDeleteChains("nat", <<"ISTIO_OUTPUT", "ISTIO_INBOUND">>)
    \o flushAndDeleteChains("mangle", <<"ISTIO_INBOUND", "ISTIO_DIVERT", "ISTIO_TPROXY">>)
    \o flushAndDeleteChains("nat", <<"ISTIO_REDIRECT", "ISTIO_IN_REDIRECT">>)

-----------------------------------------------------------------------------
(* The kernel (external): a chain is a sequence of rules under its table   *)
(* and name.                                                               *)

Tables == {"raw", "mangle", "nat"}
EmptyKernel == [k \in Tables \X {"PREROUTING", "OUTPUT"} |-> <<>>]
SameRule(r, s) == r.m = s.m /\ r.j = s.j
Verdicts == {"RETURN", "ACCEPT", "DROP", "REDIRECT", "TPROXY"}
Builtin(target) == target \in Verdicts \cup {"MARK", "CT", "NFLOG", "SAVEMARK", "RESTOREMARK"}

\* Whether the kernel takes a command.
Accepts(k, c) ==
    LET key == <<c.t, c.c>> IN
    CASE c.op = "N" -> key \notin DOMAIN k
      [] c.op \in {"A", "I"} ->
            /\ key \in DOMAIN k
            /\ Builtin(c.r.j[1]) \/ <<c.t, c.r.j[1]>> \in DOMAIN k
            /\ c.r.pos <= Len(k[key]) + 1
      [] c.op = "D" -> key \in DOMAIN k /\ \E i \in DOMAIN k[key] : SameRule(k[key][i], c.r)
      [] c.op = "F" -> key \in DOMAIN k
      [] c.op = "X" ->
            /\ key \in DOMAIN k /\ k[key] = <<>>
            /\ \A o \in DOMAIN k : o[1] = c.t => \A i \in DOMAIN k[o] : k[o][i].j[1] # c.c

\* What it does with one it takes.
Apply(k, c) ==
    LET key == <<c.t, c.c>> IN
    CASE c.op = "N" -> [o \in DOMAIN k \cup {key} |-> IF o = key THEN <<>> ELSE k[o]]
      [] c.op = "A" -> [k EXCEPT ![key] = Append(@, c.r)]
      [] c.op = "I" -> [k EXCEPT ![key] = InsertAt(@, c.r.pos, c.r)]
      [] c.op = "D" -> [k EXCEPT ![key] = RemoveAt(@, CHOOSE i \in DOMAIN @ :
                            /\ SameRule(@[i], c.r)
                            /\ \A h \in 1 .. (i - 1) : ~SameRule(@[h], c.r))]
      [] c.op = "F" -> [k EXCEPT ![key] = <<>>]
      [] c.op = "X" -> [o \in DOMAIN k \ {key} |-> k[o]]

\* What one rule does with a packet that no rule has decided yet: s is whether
\* one has (over), the verdict, and the packet as the rules marked it; below is
\* what the chain that the rule names does with it.  A conntrack zone is set
\* once; a later CT rule does not change it.
Step(r, s, below) ==
    LET target == r.j[1]
        marked(f, x) == [s EXCEPT !.p = [s.p EXCEPT ![f] = x]]
    IN  IF s.over \/ ~Matches(r.m, s.p) THEN s
        ELSE CASE target = "NFLOG" -> s
               [] target = "MARK" -> marked("mark", r.j[2])
               [] target = "SAVEMARK" -> marked("connmark", s.p["mark"])
               [] target = "RESTOREMARK" -> marked("mark", s.p["connmark"])
               [] target = "CT" -> IF s.p["zone"] = "0" THEN marked("zone", r.j[2]) ELSE s
               [] target \in Verdicts -> [s EXCEPT !.over = TRUE, !.v = r.j]
               [] OTHER -> [over |-> below.v # Return, v |-> below.v, p |-> below.p]

\* A chain is left at its first verdict; its end is a RETURN.  Sub(c, q) is what
\* chain c does with packet q.
Undecided(p) == [over |-> FALSE, v |-> Return, p |-> p]
Traverse(rules, p, Sub(_, _)) ==
    LET after[i \in 0 .. Len(rules)] ==
            IF i = 0 THEN Undecided(p)
            ELSE LET s == after[i - 1] IN Step(rules[i], s, Sub(rules[i].j[1], s.p))
    IN  after[Len(rules)]

\* Chains nest three deep: a hook, ISTIO_INBOUND or ISTIO_OUTPUT, and a chain
\* whose rules jump no further.
Inmost(k, t, c, p) == Traverse(k[<<t, c>>], p, LAMBDA d, q : Undecided(q))
Inner(k, t, c, p) == Traverse(k[<<t, c>>], p, LAMBDA d, q : Inmost(k, t, d, q))
Walk(k, t, c, p) == Traverse(k[<<t, c>>], p, LAMBDA d, q : Inner(k, t, d, q))

\* A packet passes raw, mangle and, when it opens a connection, nat.
Fate(k, p) ==
    LET hook == IF p.dir = "out" THEN "OUTPUT" ELSE "PREROUTING"
        raw  == Walk(k, "raw", hook, p)
        mgl  == Walk(k, "mangle", hook, raw.p)
    IN  IF mgl.v[1] \in {"DROP", "TPROXY"} \/ p.ct # "NEW" THEN mgl
        ELSE Walk(k, "nat", hook, mgl.p)

RedirectedTo(v, ports) == v[1] \in {"REDIRECT", "TPROXY"} /\ v[2] \in ports
Redirected(v) == v[1] \in {"REDIRECT", "TPROXY"}
=============================================================================
