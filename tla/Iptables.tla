------------------------------ MODULE Iptables ------------------------------
(***************************************************************************)
(* The capture program and the cleaner, run one after the other in any     *)
(* order on the two kernel tables.  A step is one command: one iptables    *)
(* call, or the commit of one table of a restore file.  Any command may    *)
(* fail because another process holds the xtables lock for longer than the *)
(* retries last, and either program may be killed between two commands.    *)
(***************************************************************************)
EXTENDS IptablesRules

CONSTANTS
    Setups,     \* records [flags, cleanFlags, env, runs]: how the two programs are
                \* called and (bound) how many are started in a behaviour
    Packets     \* the packets whose fate the properties ask about

\* The types of the options that DNS needs, of all of them (config.go), and of
\* the fields of a packet.
DNSOptions(g) ==
    /\ {g.ProxyUID, g.ProxyGID, g.OwnerGroupsInclude, g.OwnerGroupsExclude} \subseteq Seq(STRING)
    /\ g.DNSServers \in Seq([fam : STRING, addr : STRING])
CaptureOptions(g) ==
    /\ DNSOptions(g)
    /\ {g.InboundPortsInclude, g.InboundPortsExclude, g.OutboundPortsInclude, g.OutboundPortsExclude,
        g.KubeVirtInterfaces, g.ExcludeInterfaces} \subseteq Seq(STRING)
    /\ {g.OutboundIPRangesInclude, g.OutboundIPRangesExclude}
            \subseteq Seq([fam : STRING, addrs : SUBSET STRING, loopback : BOOLEAN])
    /\ {g.ProxyPort, g.InboundCapturePort} \subseteq STRING
PacketFields == {"fam", "dir", "proto", "sport", "dport", "src", "dst", "iif", "oif", "uid", "gid",
                 "ct", "mark", "connmark", "zone"}

\* The port for inbound traffic is one of its own (by default 15001 and 15006):
\* what the proxy sends to its own pod goes there.
ASSUME SetupsAssumption ==
    \A s \in Setups : LET g == constructConfig(s.flags, s.env) IN
        /\ CaptureOptions(g) /\ DNSOptions(constructCleanConfig(s.cleanFlags, s.env))
        /\ g.InboundCapturePort \notin {g.ProxyPort, AgentDNSPort}
ASSUME PacketsAssumption == \A p \in Packets : p \in [PacketFields -> STRING] /\ p.fam \in Families

VARIABLES
    cfg,        \* the configuration of the capture program
    cleanCfg,   \* and that of the cleaner
    kern,       \* per family: the chains and their rules
    ipRule,     \* families for which the rule "fwmark lookup table" exists
    prog,       \* "idle", "capture", "routes", "clean", or "skipping": a cleaner
                \* that could not run one of its commands
    queue,      \* what the running program still executes
    left,       \* programs that may still be started
    installed,  \* a capture completed and no cleaner has started since
    cleaned,    \* the last program was a cleaner that could run all its commands
    cut         \* some cleaner before it could not

vars == <<cfg, cleanCfg, kern, ipRule, prog, queue, left, installed, cleaned, cut>>

\* An entry of the queue: batches of commands of one family, each batch
\* atomic.  A restore file has a batch per table, and a Go map orders them.
Entry(f, batches) == [fam |-> f, todo |-> batches]
Commands(f, g) ==
    LET cmds == buildRules(RunRules(g, f))
        file == buildRestore(RunRules(g, f))
    IN  IF g.RestoreFormat
        THEN When(DOMAIN file # {}, <<Entry(f, {file[t] : t \in DOMAIN file})>>)
        ELSE [i \in DOMAIN cmds |-> Entry(f, {<<cmds[i]>>})]
CleanCommands(f, g) ==
    LET cmds == removeOldChains(g) IN [i \in DOMAIN cmds |-> Entry(f, {<<cmds[i]>>})]

Execute(k, batch) ==
    LET after[i \in 0 .. Len(batch)] ==
            IF i = 0 THEN [ok |-> TRUE, k |-> k]
            ELSE LET r == after[i - 1]
                 IN  IF r.ok /\ Accepts(r.k, batch[i])
                     THEN [ok |-> TRUE, k |-> Apply(r.k, batch[i])]
                     ELSE [ok |-> FALSE, k |-> r.k]
    IN  after[Len(batch)]

\* Removes a finished batch, and its entry with the last one.
Done(batch) ==
    LET rest == Head(queue).todo \ {batch}
    IN  IF rest = {} THEN Tail(queue) ELSE <<Entry(Head(queue).fam, rest)>> \o Tail(queue)
Pending == IF queue # <<>> THEN Head(queue).todo ELSE {}

Init ==
    /\ \E s \in Setups : /\ cfg = constructConfig(s.flags, s.env)
                        /\ cleanCfg = constructCleanConfig(s.cleanFlags, s.env)
                        /\ left = s.runs
    /\ kern = [f \in Families |-> EmptyKernel]
    /\ ipRule = {}
    /\ prog = "idle" /\ queue = <<>>
    /\ installed = FALSE /\ cleaned = FALSE /\ cut = FALSE

Start(p, q) ==
    /\ prog = "idle" /\ left > 0
    /\ left' = left - 1 /\ prog' = p /\ queue' = q
    /\ cleaned' = FALSE
    /\ UNCHANGED <<cfg, cleanCfg, kern, ipRule, cut>>

\* A configuration that Validate or Run refuses, a dry run and
\* --skip-rule-apply leave the kernel alone.
Refused(g) == ~Validate(g) \/ RunPanics(g) \/ g.DryRun \/ g.SkipRuleApply

StartCapture ==
    /\ Start(IF Refused(cfg) THEN "idle" ELSE "capture",
             IF Refused(cfg) THEN <<>> ELSE Commands("v4", cfg) \o Commands("v6", cfg))
    /\ UNCHANGED installed

\* RunOrFail: a command that fails ends the program.
CaptureStep(batch) ==
    /\ prog = "capture" /\ batch \in Pending
    /\ LET f == Head(queue).fam
           r == Execute(kern[f], batch)
       IN  IF r.ok THEN /\ kern' = [kern EXCEPT ![f] = r.k]
                        /\ queue' = Done(batch)
                        /\ UNCHANGED prog
           ELSE prog' = "idle" /\ queue' = <<>> /\ UNCHANGED kern
    /\ UNCHANGED <<cfg, cleanCfg, ipRule, left, installed, cleaned, cut>>

\* The lock is not free within the ten seconds of the retries, or the process
\* is killed.
CaptureEnds ==
    /\ prog \in {"capture", "routes"}
    /\ prog' = "idle" /\ queue' = <<>>
    /\ UNCHANGED <<cfg, cleanCfg, kern, ipRule, left, installed, cleaned, cut>>

\* All commands done: ConfigureRoutes follows.
CaptureDone ==
    /\ prog = "capture" /\ queue = <<>>
    /\ prog' = "routes" /\ installed' = TRUE
    /\ UNCHANGED <<cfg, cleanCfg, kern, ipRule, queue, left, cleaned, cut>>

\* configureTProxyRoutes adds the ip rule of every family.  A rule that is
\* already there ends the program with an error.
ConfigureRoutes ==
    LET fams == IF cfg.EnableInboundIPv6 THEN Families ELSE {"v4"}
        need == cfg.InboundPortsInclude # <<>> /\ cfg.InboundInterceptionMode = "TPROXY"
    IN  /\ prog = "routes" /\ prog' = "idle"
        /\ ipRule' = IF need /\ "v4" \notin ipRule THEN ipRule \cup fams ELSE ipRule
        /\ UNCHANGED <<cfg, cleanCfg, kern, queue, left, installed, cleaned, cut>>

StartClean ==
    /\ Start(IF Validate(cleanCfg) /\ ~cleanCfg.DryRun THEN "clean" ELSE "idle",
             IF Validate(cleanCfg) /\ ~cleanCfg.DryRun
             THEN CleanCommands("v4", cleanCfg) \o CleanCommands("v6", cleanCfg) ELSE <<>>)
    /\ installed' = (installed /\ (~Validate(cleanCfg) \/ cleanCfg.DryRun))

Cleaning == prog \in {"clean", "skipping"}

\* RunQuietlyAndIgnore: a command the kernel refuses is ignored.
CleanStep(batch) ==
    /\ Cleaning /\ batch \in Pending
    /\ LET f == Head(queue).fam
           r == Execute(kern[f], batch)
       IN  kern' = IF r.ok THEN [kern EXCEPT ![f] = r.k] ELSE kern
    /\ queue' = Done(batch)
    /\ UNCHANGED <<cfg, cleanCfg, ipRule, prog, left, installed, cleaned, cut>>

\* The lock is not free in time: the command is ignored like any other failure.
\* Bound: in the first cleaner that is cut short, once.
CleanLocked(batch) ==
    /\ prog = "clean" /\ ~cut /\ batch \in Pending
    /\ prog' = "skipping" /\ queue' = Done(batch)
    /\ UNCHANGED <<cfg, cleanCfg, kern, ipRule, left, installed, cleaned, cut>>

\* The end of the commands, or of the process.
CleanEnds ==
    /\ Cleaning /\ prog' = "idle" /\ queue' = <<>>
    /\ cleaned' = (prog = "clean" /\ queue = <<>>)
    /\ cut' = (cut \/ ~cleaned')
    /\ UNCHANGED <<cfg, cleanCfg, kern, ipRule, left, installed>>

Next ==
    \/ StartCapture \/ CaptureDone \/ CaptureEnds \/ ConfigureRoutes
    \/ StartClean \/ CleanEnds
    \/ \E batch \in Pending : CaptureStep(batch) \/ CleanStep(batch) \/ CleanLocked(batch)

Spec == Init /\ [][Next]_vars

-----------------------------------------------------------------------------
(* Properties.                                                             *)

Verdict(p) == Fate(kern[p.fam], p).v
Owned(p) == \/ \E i \in DOMAIN cfg.ProxyUID : p.uid = cfg.ProxyUID[i]
            \/ \E i \in DOMAIN cfg.ProxyGID : p.gid = cfg.ProxyGID[i]

\* "Avoid infinite loops": whatever part of the rules is installed (half an
\* apply, a failed one, a repeated one, half a clean), a TCP connection that
\* the proxy itself opens is not sent back to the port it listens on for
\* outbound traffic, nor to the DNS port of the agent.
ProxyNeverLoops ==
    \A p \in Packets : p.dir = "out" /\ p.proto = "tcp" /\ Owned(p) =>
        ~RedirectedTo(Verdict(p), {cfg.ProxyPort, AgentDNSPort})

In(x, list) == \E i \in DOMAIN list : list[i] = x
InRanges(p, list) == list = AnyRange
                     \/ \E i \in DOMAIN list : list[i].fam = p.fam /\ p.dst \in list[i].addrs
GroupCaptured(g, x) == IF g.OwnerGroupsInclude = <<"*">> THEN ~In(x, g.OwnerGroupsExclude)
                                                         ELSE In(x, g.OwnerGroupsInclude)

\* What the options promise of a new outbound TCP connection of an application.
\* The list of excluded ranges "only applies when all outbound traffic (i.e. "*")
\* is being redirected" (root.go).
OutboundIntent(g, p) ==
    LET dns  == g.RedirectDNS /\ p.dport = DNSPort
        excluded == g.OutboundIPRangesInclude = AnyRange /\ InRanges(p, g.OutboundIPRangesExclude)
        loop == \E i \in DOMAIN g.OutboundIPRangesInclude : g.OutboundIPRangesInclude[i].loopback
    IN  CASE \/ In(p.oif, g.ExcludeInterfaces)
             \/ In(p.dport, g.OutboundPortsExclude)
             \/ p.oif = "lo" /\ (p.src = Lo6 \/ ~(dns \/ loop))
             \/ ~GroupCaptured(g, p.gid) -> Return
          [] OTHER ->
             IF dns /\ (g.CaptureAllDNS \/ In([fam |-> p.fam, addr |-> p.dst], g.DNSServers))
             THEN Redirect(AgentDNSPort)
             ELSE IF /\ p.dst # Lo1 /\ ~excluded
                     /\ In(p.dport, g.OutboundPortsInclude) \/ InRanges(p, g.OutboundIPRangesInclude)
                  THEN Redirect(g.ProxyPort) ELSE Return

\* What they promise of a new inbound TCP connection from another host.
InboundIntent(g, p) ==
    LET tproxy == g.InboundInterceptionMode = "TPROXY"
        excluded == \/ In(p.iif, g.ExcludeInterfaces)
                    \/ p.dport = TunnelPort /\ ~tproxy
                    \/ IF g.InboundPortsInclude = <<"*">> THEN In(p.dport, g.InboundPortsExclude)
                       ELSE ~In(p.dport, g.InboundPortsInclude)
    IN  IF In(p.iif, g.KubeVirtInterfaces)
        THEN IF InRanges(p, g.OutboundIPRangesInclude) THEN Redirect(g.ProxyPort) ELSE Return
        ELSE IF excluded THEN Return
        ELSE <<IF tproxy THEN "TPROXY" ELSE "REDIRECT", g.InboundCapturePort>>

Intent(p) == IF p.dir = "in" THEN InboundIntent(cfg, p) ELSE OutboundIntent(cfg, p)
Asked(p) == p.proto = "tcp" /\ p.ct = "NEW" /\ (p.dir = "out" => ~Owned(p))

\* Whatever part of the rules is installed, a connection that is redirected goes
\* where the options say: no exclusion comes too late in a half applied, failed
\* or half cleaned configuration.
OnlyIntendedCaptured ==
    \A p \in Packets : Asked(p) => LET v == Verdict(p) IN Redirected(v) => v = Intent(p)

\* The rules of the excluded ranges are written whatever the included ones are
\* (run.go), so they also apply where the text of the flag says they do not.
ExcludedAnyway(p) == /\ p.dir = "out" /\ Intent(p) = Redirect(cfg.ProxyPort)
                     /\ cfg.OutboundIPRangesInclude # AnyRange
                     /\ InRanges(p, cfg.OutboundIPRangesExclude)

\* Once a capture has completed, and however often the program is run again
\* after that, every new TCP connection goes where the options say, but for one
\* disagreement: a connection to an excluded range is left alone also where only
\* some ranges or ports are redirected.  An outbound connection of the proxy
\* itself is covered by ProxyNeverLoops.
InstalledMatchesIntent ==
    installed => \A p \in Packets :
        Asked(p) /\ (p.fam = "v4" \/ cfg.EnableInboundIPv6) =>
            Verdict(p) = IF ExcludedAnyway(p) THEN Return ELSE Intent(p)

\* A cleaner that ran to its end, called with the options of the capture, leaves
\* rules behind but none that still sends a packet to the agent.  The exception
\* is DNS over UDP, whose rules are deleted one copy at a time: if an earlier
\* cleaner was cut short, a capture after it adds a second copy.
CleanedCapturesNothing ==
    cleaned => \A p \in Packets : Redirected(Verdict(p)) => p.proto = "udp" /\ cut
=============================================================================
