----------------------------- MODULE MCIptables -----------------------------
(* The capture program with the cleaner, and the validation of a capture.  *)
(* They never run at the same time, so a behaviour runs the first two or   *)
(* the last (part).                                                        *)
EXTENDS Iptables, TLC

CONSTANTS Which, Which6,    \* the setups of a run by name: pods with IPv4, with IPv6
          Long,             \* those of the first with four programs in a behaviour, not two
          Configs, Users, Others

VARIABLES part, probeCfg, applied, user, verdict, strays, todo, up, pending, client, service,
          done, strayed, result

probeVars == <<probeCfg, applied, user, verdict, strays, todo, up, pending, client, service,
               done, strayed, result>>

Validation == INSTANCE IptablesValidation WITH cfg <- probeCfg

Env(f) == [IDEFAV_META_DNS_CAPTURE |-> FALSE, ISTIO_META_DNS_CAPTURE |-> FALSE,
           vars |-> <<>>, podFamily |-> f,
           uidOf |-> [u \in {"lhotse-agent", "istio-proxy"} |-> "1337"],
           resolvConf |-> <<[fam |-> f, addr |-> "dns"]>>]

All == [OutboundIPRangesInclude |-> AnyRange, InboundPortsInclude |-> <<"*">>]
Dns(all) == [RedirectDNS |-> TRUE, CaptureAllDNS |-> all]

\* The options by name, and those of the cleaner.
Flags(f) ==
    [all      |-> All,
     cmds     |-> [RestoreFormat |-> FALSE, DropInvalid |-> TRUE, OutboundPortsExclude |-> <<"80">>,
                   ExcludeInterfaces |-> <<"eth1">>] @@ All,
     ranges   |-> [RestoreFormat |-> FALSE, InboundPortsInclude |-> <<"80", "15008">>,
                   OutboundIPRangesInclude |-> <<CidrEntry(f, {"svc"}, FALSE), CidrEntry("bad", {}, FALSE),
                                                 CidrEntry(f, {"lo9"}, TRUE)>>,
                   OutboundIPRangesExclude |-> <<CidrEntry(f, {"ext"}, FALSE)>>,
                   OutboundPortsInclude |-> <<"443">>],
     nowhere  |-> [RestoreFormat |-> FALSE],
     groups   |-> [RestoreFormat |-> FALSE, OwnerGroupsInclude |-> <<"g1">>,
                   OutboundIPRangesExclude |-> <<CidrEntry(f, {"ext"}, FALSE)>>] @@ All,
     nogroups |-> [OwnerGroupsExclude |-> <<"g1">>, ProxyGID |-> <<"g2">>,
                   InboundPortsExclude |-> <<"443">>] @@ All,
     kube     |-> [KubeVirtInterfaces |-> <<"eth1">>, TraceLogging |-> TRUE,
                   OutboundIPRangesInclude |-> <<CidrEntry(f, {"svc"}, FALSE)>>, RestoreFormat |-> FALSE,
                   InboundPortsInclude |-> <<"80">>],
     tproxy   |-> [InboundInterceptionMode |-> "TPROXY", ExcludeInterfaces |-> <<"eth1">>,
                   InboundPortsExclude |-> <<"443">>, DropInvalid |-> TRUE] @@ All,
     tports   |-> [InboundInterceptionMode |-> "TPROXY", InboundPortsInclude |-> <<"80">>,
                   TraceLogging |-> TRUE, RestoreFormat |-> FALSE],
     dnsall   |-> Dns(TRUE) @@ [RestoreFormat |-> FALSE] @@ All,
     dns      |-> Dns(FALSE) @@ [OwnerGroupsInclude |-> <<"g1">>] @@ All,
     badexcl  |-> [OutboundIPRangesExclude |-> AnyRange] @@ All,
     dry      |-> [DryRun |-> TRUE] @@ All]

\* The cleaner is called with the options it shares with the capture; the one
\* without a flag of its own comes from the environment.
Shared == {"ProxyUID", "ProxyGID", "DryRun", "RedirectDNS"}
EnvOnly == {"OwnerGroupsInclude", "OwnerGroupsExclude", "CaptureAllDNS"}
Only(r, S) == [k \in DOMAIN r \cap S |-> r[k]]

SetupOf(f, n) == [flags |-> Flags(f)[n], cleanFlags |-> Only(Flags(f)[n], Shared),
                  env |-> [Env(f) EXCEPT !.vars = Only(Flags(f)[n], EnvOnly)],
                  runs |-> IF f = "v4" /\ n \in Long THEN 4 ELSE 2]
MCSetups == {SetupOf("v4", n) : n \in Which} \cup {SetupOf("v6", n) : n \in Which6}

Packet(d, proto, sport, dport, src, dst, i, uid, gid, ct) ==
    [fam |-> "v4", dir |-> d, proto |-> proto, sport |-> sport, dport |-> dport,
     src |-> src, dst |-> dst, iif |-> IF d = "in" THEN i ELSE "none",
     oif |-> IF d = "out" THEN i ELSE "none", uid |-> uid, gid |-> gid,
     ct |-> ct, mark |-> "0", connmark |-> "0", zone |-> "0"]

\* Routing sends a loopback address through lo, another one through an
\* interface; the pod's own address, like a loopback one, goes through lo.
Outgoing ==
    {Packet("out", "tcp", "9", dp, "pod", da, i, o[1], o[2], "NEW") :
        dp \in {"53", "80", "443"}, da \in {"svc", "ext", "dns"}, i \in {"eth0", "eth1"},
        o \in {<<"0", "g1">>, <<"0", "g2">>, <<"1337", "1337">>, <<"0", "1337">>}}
    \cup
    {Packet("out", "tcp", "9", dp, sa, da, "lo", o[1], o[2], "NEW") :
        dp \in {"53", "80"}, sa \in {"lo1", "lo6", "pod"}, da \in {"lo1", "lo9", "pod"},
        o \in {<<"0", "g1">>, <<"1337", "1337">>, <<"0", "1337">>}}
Incoming ==
    {Packet("in", "tcp", "9", dp, "ext", da, i, "none", "none", ct) :
        dp \in {"80", "443", "15008"}, da \in {"pod", "svc"}, i \in {"eth0", "eth1"},
        ct \in {"NEW", "ESTABLISHED", "INVALID"}}
Udp ==
    {Packet("out", "udp", "9", "53", "pod", da, "eth0", o[1], o[2], "NEW") :
        da \in {"dns", "ext"}, o \in {<<"0", "g1">>, <<"0", "g2">>, <<"1337", "1337">>}}
    \cup {Packet("in", "udp", "53", "9", "dns", "pod", "eth0", "none", "none", "ESTABLISHED")}
Both(S) == S \cup {[p EXCEPT !.fam = "v6"] : p \in S}
MCPackets == Both(Outgoing \cup Incoming \cup Udp)

MCConfigs == {constructConfig(f, Env("v4")) : f \in {
    <<>>,
    [OutboundIPRangesInclude |-> AnyRange],
    [OutboundIPRangesInclude |-> <<CidrEntry("v4", {Lo6}, TRUE)>>],
    [InboundPortsInclude |-> <<"*">>, InboundInterceptionMode |-> "TPROXY"],
    [OutboundIPRangesInclude |-> AnyRange, OutboundPortsExclude |-> <<"15002">>]}}

\* Connections of an application, of the proxy's user and of a process in its
\* group to the probe port of another host, of the pod and of the probe address.
MCOthers ==
    {Packet("out", "tcp", "9", "15002", "pod", da, IF da = "ext" THEN "eth0" ELSE "lo", o[1], o[2], "NEW") :
        da \in {"ext", "pod", Lo6}, o \in {<<"0", "g1">>, <<"1337", "1337">>, <<"0", "1337">>}}

\* A validation that has failed to bind its ports.
ValidationOver ==
    /\ probeCfg = constructConfig(<<>>, Env("v4")) /\ applied = FALSE /\ user = "0"
    /\ verdict = Return /\ strays = {} /\ strayed = FALSE /\ todo = <<>> /\ up = {} /\ pending = {} /\ client = "waiting"
    /\ service = "failed" /\ done = 0 /\ result = "failed"

MCInit ==
    \/ part = "programs" /\ Init /\ ValidationOver
    \/ /\ part = "validation" /\ Validation!Init
       /\ Init /\ cfg = constructConfig(Flags("v4").all, Env("v4"))

MCNext ==
    \/ part = "programs" /\ Next /\ UNCHANGED <<part, probeVars>>
    \/ part = "validation" /\ Validation!Next /\ UNCHANGED <<part, vars>>

MCSpec == MCInit /\ [][MCNext]_<<part, vars, probeVars>> /\ Validation!Fairness

\* A validation that passes has seen the probe, or a connection of somebody else to
\* the same port, redirected (validator.go).
PassMeansRedirected == Validation!PassMeansRedirected

\* Where the capture works, the validation decides without its timer.
WorkingCaptureDecides == Validation!WorkingCaptureDecides
=============================================================================
