---------------------------- MODULE DomainPolicy ----------------------------
(***************************************************************************)
(* The access policy engine (cmd/proxy/domainpolicy/policy.go and          *)
(* Manager.Evaluate): a policy document is compiled into one rule per      *)
(* direction, and every connection is judged by the rule of its direction. *)
(*                                                                         *)
(* A host text is a record: the labels of its name and the decorations a   *)
(* caller may add (a port, a trailing dot, upper case).  A list entry is a *)
(* CIDR block (the set of its addresses), an address, a host, a wildcard   *)
(* host, or blank.  Duplicates and order of a list do not matter to the    *)
(* compiled form, so a list is a set of entries.                           *)
(***************************************************************************)
EXTENDS Naturals, SequencesExt

CONSTANTS
    Docs,       \* policy documents: sequences of rule records
    Hosts,      \* host texts a connection may carry; NoHost for none
    Addrs,      \* target addresses of a connection
    Metadata,   \* the address of the cloud metadata service
    Scopes      \* values of the scope option that are explored

VARIABLES
    scope,      \* m.options.Scope, as configured
    doc,        \* the document that was installed, empty before
    policy,     \* m.policy, Nil before the first install
    decision    \* the last decision with the connection it was made for

vars == <<scope, doc, policy, decision>>

DirectionInbound == "inbound"
DirectionOutbound == "outbound"
Directions == {DirectionInbound, DirectionOutbound}
ModeDefaultAllow == "default_allow"
ModeDefaultDeny == "default_deny"

Nil == [nil |-> TRUE]
NoHost == [labels |-> <<>>, port |-> FALSE, dot |-> FALSE, upper |-> FALSE]
Undecided == [allowed |-> "undecided"]
CompileError == [error |-> TRUE]

-----------------------------------------------------------------------------
(***************************************************************************)
(* Compilation                                                             *)
(***************************************************************************)

\* normalizeDomain drops the port, the trailing dot and the letter case.
normalizeDomain(host) == host.labels

\* A wildcard entry needs a suffix: "*.." is the one list entry that is refused.
BadEntry(e) == e.kind = "wild" /\ normalizeDomain(e.host) = <<>>

compileMatcherSet(list) ==
    [nets |-> {e.net : e \in {x \in list : x.kind = "cidr"}},
     ips |-> {e.ip : e \in {x \in list : x.kind = "ip"}},
     domains |-> {normalizeDomain(e.host) : e \in {x \in list : x.kind = "host"}} \ {<<>>},
     wildcardDomains |-> {normalizeDomain(e.host) : e \in {x \in list : x.kind = "wild"}}]

\* An absent mode means default_allow.
ModeOf(rule) == IF rule.mode = "" THEN ModeDefaultAllow ELSE rule.mode

BadRule(rule) ==
    \/ rule.direction \notin Directions
    \/ ModeOf(rule) \notin {ModeDefaultAllow, ModeDefaultDeny}
    \/ \E e \in rule.allowList \cup rule.blockList : BadEntry(e)

directionPolicy(rule) == [mode |-> ModeOf(rule),
                   allow |-> compileMatcherSet(rule.allowList),
                   block |-> compileMatcherSet(rule.blockList)]

\* Fault: the first rule of a direction wins.
compileRuleFirstWins(rules, rule) ==
    IF rules = CompileError \/ BadRule(rule) THEN CompileError
    ELSE [d \in DOMAIN rules \cup {rule.direction} |->
              IF d \in DOMAIN rules THEN rules[d] ELSE directionPolicy(rule)]

\* One round of Compile's loop: a later rule replaces an earlier one.
compileRule(rules, rule) ==
    IF rules = CompileError \/ BadRule(rule) THEN CompileError
    ELSE [d \in DOMAIN rules \cup {rule.direction} |->
              IF d = rule.direction THEN directionPolicy(rule) ELSE rules[d]]

\* after[i] is p.rules after i rounds.
Compile(rules) ==
    LET after[i \in 0 .. Len(rules)] ==
            IF i = 0 THEN <<>> ELSE compileRule(after[i - 1], rules[i])
    IN  after[Len(rules)]

-----------------------------------------------------------------------------
(***************************************************************************)
(* Evaluation                                                              *)
(***************************************************************************)

matches(set, domain, ip) ==
    \/ domain # <<>> /\ domain \in set.domains
    \/ domain # <<>> /\ \E suffix \in set.wildcardDomains : IsStrictSuffix(suffix, domain)
    \/ ip \in set.ips
    \/ \E net \in set.nets : ip \in net

PolicyAllows(p, direction, host, ip) ==
    \/ p = Nil
    \/ direction \notin DOMAIN p
    \/ LET rule == p[direction]
           domain == normalizeDomain(host) IN
       \/ rule.mode = ModeDefaultAllow /\ ~matches(rule.block, domain, ip)
       \/ rule.mode = ModeDefaultDeny /\ matches(rule.allow, domain, ip)

\* Any other value of the scope option behaves like "outbound".
directionEnabled(s, direction) ==
    \/ s = "both"
    \/ s = "inbound" /\ direction = DirectionInbound
    \/ s \notin {"both", "inbound"} /\ direction = DirectionOutbound

Evaluate(direction, host, ip) ==
    \/ ~directionEnabled(scope, direction)
    \/ PolicyAllows(policy, direction, host, ip)

-----------------------------------------------------------------------------
Init ==
    /\ scope \in Scopes
    /\ doc = <<>>
    /\ policy = Nil
    /\ decision = Undecided

\* Parse, then setPolicy; a document that does not compile changes nothing.
\* Neither Compile nor Evaluate looks at earlier documents or decisions, so a
\* behaviour is bounded to one document and one decision (the two guards).
Install(d) ==
    /\ policy = Nil
    /\ decision = Undecided
    /\ Compile(d) # CompileError
    /\ doc' = d
    /\ policy' = Compile(d)
    /\ UNCHANGED <<scope, decision>>

Decide(direction, host, ip) ==
    /\ decision = Undecided
    /\ decision' = [direction |-> direction, host |-> host, ip |-> ip,
                    allowed |-> Evaluate(direction, host, ip)]
    /\ UNCHANGED <<scope, doc, policy>>

Next ==
    \/ \E d \in Docs : Install(d)
    \/ \E direction \in Directions, host \in Hosts, ip \in Addrs :
           Decide(direction, host, ip)

Spec == Init /\ [][Next]_vars
-----------------------------------------------------------------------------
(***************************************************************************)
(* Properties                                                              *)
(***************************************************************************)

\* What an entry of a list stands for, said of whole names and addresses.
Covers(e, host, ip) ==
    CASE e.kind = "cidr" -> ip \in e.net
      [] e.kind = "ip"   -> ip = e.ip
      [] e.kind = "host" -> host.labels # <<>> /\ host.labels = e.host.labels
      [] e.kind = "wild" -> \E n \in 1 .. Len(host.labels) - 1 :
                               SubSeq(host.labels, n + 1, Len(host.labels)) = e.host.labels
      [] OTHER -> FALSE

RulesFor(direction) ==
    {i \in DOMAIN doc : doc[i].direction = direction}

\* The decision read off the document alone: the last rule of the direction
\* speaks; default_deny lets through exactly what its allow list covers,
\* default_allow exactly what its block list does not cover; without a rule,
\* without a document or outside the scope everything passes.
DocumentAllows(direction, host, ip) ==
    \A i \in RulesFor(direction) :
        \/ \E j \in RulesFor(direction) : j > i
        \/ IF doc[i].mode = ModeDefaultDeny
             THEN \E e \in doc[i].allowList : Covers(e, host, ip)
             ELSE \A e \in doc[i].blockList : ~Covers(e, host, ip)

\* A scope that the option does not have counts as the default one.
InScope(direction) ==
    \/ scope \in {"both", direction}
    \/ scope \notin {"both", "inbound"} /\ direction = DirectionOutbound

\* Compile and Evaluate together decide what the document says: neither the
\* overwriting of rules, nor the split of a list into four matchers, nor the
\* normalisation of names lets a connection through or stops one wrongly.
DecisionFollowsDocument ==
    decision # Undecided =>
        (decision.allowed <=>
            \/ ~InScope(decision.direction)
            \/ DocumentAllows(decision.direction, decision.host, decision.ip))

\* readme.md:19: access to internal endpoints such as the metadata service is
\* blocked by default, that is, unless an installed document opens it.
MetadataBlockedByDefault ==
    decision # Undecided /\ decision.direction = DirectionOutbound
      /\ decision.ip = Metadata /\ policy = Nil => ~decision.allowed

-----------------------------------------------------------------------------
(***************************************************************************)
(* Types, and what the proof needs beside DecisionFollowsDocument          *)
(***************************************************************************)

HostText == [labels : Seq(STRING), port : BOOLEAN, dot : BOOLEAN, upper : BOOLEAN]
Entry == [kind : {"cidr"}, net : SUBSET Addrs] \cup [kind : {"ip"}, ip : Addrs]
         \cup [kind : {"host", "wild"}, host : HostText] \cup [kind : {"blank"}]
RuleDocument == [direction : STRING, mode : STRING, allowList : SUBSET Entry,
                 blockList : SUBSET Entry]
DocsAssumption == Docs \subseteq Seq(RuleDocument) /\ Hosts \subseteq HostText

\* There is no policy before a document is installed, then it is that of the
\* document.
PolicyIsCompiled ==
    \/ doc = <<>> /\ policy = Nil
    \/ doc \in Seq(RuleDocument) /\ policy = Compile(doc) /\ policy # CompileError
EngineInv == PolicyIsCompiled /\ DecisionFollowsDocument
=============================================================================
