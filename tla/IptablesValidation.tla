------------------------- MODULE IptablesValidation -------------------------
(***************************************************************************)
(* The probe that checks an installed capture: a service listens on the    *)
(* two ports of the proxy, a client connects to 127.0.0.6 (or ::6), and    *)
(* the validation passes when the service accepts a connection whose       *)
(* original destination port is the probe port, whoever opened it.  Where  *)
(* a connection goes is decided by the rules of module IptablesRules.      *)
(***************************************************************************)
EXTENDS IptablesRules

CONSTANTS
    Configs,    \* configurations whose rules are installed, or whose are not
    Users,      \* the users the validation may run as
    Others      \* packets: connections of other processes of the pod to the probe
                \* port of any host

ProbePort == "15002"

VARIABLES
    cfg,        \* the configuration
    applied,    \* whether its rules are in the kernel
    user,       \* the user that runs the validation
    verdict,    \* what the kernel does with the probe of that user
    strays,     \* the ports of the service to which it redirects some of Others
    todo,       \* addresses the service has not tried to bind yet
    up,         \* ports with a listener and its accepting goroutine
    pending,    \* <<port, original port, whose>>: connections not accepted yet
    client,     \* "waiting" for the barrier, "dialling" or "sleeping"
    service,    \* "listening", "waiting", "passed" or "failed"
    done,       \* messages DONE in the channel of the service
    strayed,    \* history: one of them is for a connection of somebody else
    result      \* "none", "passed", "failed" or "timeout"

vars == <<cfg, applied, user, verdict, strays, todo, up, pending, client, service, done,
          strayed, result>>

Kernel(g) == FoldLeft(LAMBDA k, c : Apply(k, c), EmptyKernel, buildRules(RunRules(g, "v4")))

\* The connection of the client to the probe address.
Probe(u) == [fam |-> "v4", dir |-> "out", proto |-> "tcp", sport |-> "9", dport |-> ProbePort,
             src |-> Lo1, dst |-> Lo6, iif |-> "none", oif |-> "lo", uid |-> u, gid |-> u,
             ct |-> "NEW", mark |-> "0", connmark |-> "0", zone |-> "0"]
ProbeVerdict(g, on, u) == Fate(IF on THEN Kernel(g) ELSE EmptyKernel, Probe(u)).v
StrayPorts(g, on) ==
    LET k == IF on THEN Kernel(g) ELSE EmptyKernel
    IN  {q \in {g.ProxyPort, g.InboundCapturePort} : \E p \in Others : Fate(k, p).v = Redirect(q)}

\* NewValidator: the service listens on the ports the rules redirect to.
ListenPorts == <<cfg.ProxyPort, cfg.InboundCapturePort>>

Init ==
    /\ cfg \in Configs /\ applied \in BOOLEAN /\ user \in Users
    /\ verdict = ProbeVerdict(cfg, applied, user) /\ strays = StrayPorts(cfg, applied)
    /\ strayed = FALSE
    /\ todo = ListenPorts /\ up = {} /\ pending = {} /\ done = 0
    /\ client = "waiting" /\ service = "listening" /\ result = "none"

\* The loop of Service.Run: a listener that cannot bind is skipped.
Listen(ok) ==
    /\ service = "listening" /\ todo # <<>>
    /\ todo' = Tail(todo)
    /\ up' = IF ok THEN up \cup {Head(todo)} ELSE up
    /\ UNCHANGED <<cfg, applied, user, verdict, strays, pending, client, service, done, strayed, result>>

\* The end of the loop: the barrier opens if there is a listener.
Ready ==
    /\ service = "listening" /\ todo = <<>>
    /\ service' = IF up # {} THEN "waiting" ELSE "failed"
    /\ client' = IF up # {} THEN "dialling" ELSE client
    /\ UNCHANGED <<cfg, applied, user, verdict, strays, todo, up, pending, done, strayed, result>>

\* Client.Run: the connection is refused unless a rule sends it to a port that
\* somebody listens on.
Dial ==
    /\ client = "dialling" /\ client' = "sleeping"
    /\ pending' = pending \cup {<<port, ProbePort, "probe">> : port \in
                        {q \in up : verdict = Redirect(q)}}
    /\ UNCHANGED <<cfg, applied, user, verdict, strays, todo, up, service, done, strayed, result>>

\* Fault: the client dials once.
WakeNever == FALSE /\ UNCHANGED vars

\* The client sleeps for a second and dials again, for ever.
Wake ==
    /\ client = "sleeping" /\ client' = "dialling"
    /\ UNCHANGED <<cfg, applied, user, verdict, strays, todo, up, pending, service, done, strayed, result>>

\* Somebody else's connection reaches a listener: from anywhere to the port
\* itself, or to the probe port of some host where a rule redirects that.
Stray(port, orig) ==
    /\ port \in up /\ (orig = ProbePort => port \in strays)
    /\ pending' = pending \cup {<<port, orig, "other">>}
    /\ UNCHANGED <<cfg, applied, user, verdict, strays, todo, up, client, service, done, strayed, result>>

\* Fault: any connection counts as the probe.
AcceptAny(c, known) ==
    /\ c \in pending /\ c[1] \in up
    /\ pending' = pending \ {c}
    /\ done' = done + 1 /\ up' = up \ {c[1]}
    /\ strayed' = (strayed \/ (c[2] = ProbePort /\ c[3] = "other"))
    /\ UNCHANGED <<cfg, applied, user, verdict, strays, todo, client, service, result>>

\* restoreOriginalAddress: a connection whose original destination is unknown,
\* or is not the probe port, is closed and the loop goes on.  Nothing else is
\* asked of it: not the address it was meant for, nor who opened it.
Accept(c, known) ==
    /\ c \in pending /\ c[1] \in up
    /\ pending' = pending \ {c}
    /\ IF known /\ c[2] = ProbePort
       THEN done' = done + 1 /\ up' = up \ {c[1]} /\ strayed' = (strayed \/ c[3] = "other")
       ELSE UNCHANGED <<done, up, strayed>>
    /\ UNCHANGED <<cfg, applied, user, verdict, strays, todo, client, service, result>>

ServiceReturns ==
    /\ service = "waiting" /\ done > 0
    /\ service' = "passed" /\ done' = done - 1
    /\ UNCHANGED <<cfg, applied, user, verdict, strays, todo, up, pending, client, strayed, result>>

\* The select of Validator.Run.
Decide ==
    /\ result = "none" /\ service \in {"passed", "failed"}
    /\ result' = service
    /\ UNCHANGED <<cfg, applied, user, verdict, strays, todo, up, pending, client, service, done, strayed>>

Timeout ==
    /\ result = "none" /\ result' = "timeout"
    /\ UNCHANGED <<cfg, applied, user, verdict, strays, todo, up, pending, client, service, done, strayed>>

Next ==
    \/ \E ok \in BOOLEAN : Listen(ok)
    \/ Ready \/ Dial \/ Wake \/ ServiceReturns \/ Decide \/ Timeout
    \/ \E port \in up, orig \in {"9", ProbePort} : Stray(port, orig)
    \/ \E c \in pending, known \in BOOLEAN : Accept(c, known)

Spec == Init /\ [][Next]_vars

\* Goroutines are scheduled, and the original destination of a probe is not
\* unknown for ever.  Nothing is assumed of the timer.
Fairness ==
    /\ WF_vars(\E ok \in BOOLEAN : Listen(ok)) /\ WF_vars(Ready)
    /\ WF_vars(Dial) /\ WF_vars(Wake) /\ WF_vars(ServiceReturns) /\ WF_vars(Decide)
    /\ \A port \in {"15001", "15006"} : SF_vars(Accept(<<port, ProbePort, "probe">>, TRUE))
LiveSpec == Spec /\ Fairness

-----------------------------------------------------------------------------
(* Properties.                                                             *)

\* A validation passes only where the rules are installed, and for one of two
\* reasons: they send the traffic of the user it runs as to the proxy, or they
\* send there a connection to the probe port that somebody else opened meanwhile
\* (validator.go checks no more than the port).  Without installed rules, or
\* where they redirect no connection to the probe port, no stray connection,
\* listener that could not bind or unknown destination makes one pass.
PassMeansRedirected ==
    result = "passed" => /\ applied
                         /\ \/ verdict \in {Redirect(cfg.ProxyPort),
                                            Redirect(cfg.InboundCapturePort)}
                            \/ strayed /\ strays # {}

\* Where the rules send the probe to a port the service listens on, the
\* validation decides without its timer, even if single probes get lost.
WorkingCaptureDecides ==
    (service = "waiting" /\ \E port \in up : verdict = Redirect(port)) ~> (result # "none")
=============================================================================
