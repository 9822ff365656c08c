---------------------------- MODULE PolicyInputs ----------------------------
(* Small sets of policy documents, host texts and addresses.               *)
EXTENDS SequencesExt

CONSTANTS ip1, ip2, ipMeta, noIp

MCAddrs == {ip1, ip2, ipMeta, noIp}
Plain(l) == [labels |-> l, port |-> FALSE, dot |-> FALSE, upper |-> FALSE]
Decorated(l) == [labels |-> l, port |-> TRUE, dot |-> TRUE, upper |-> TRUE]

MCHosts == {Plain(<<>>), Plain(<<"corp">>), Decorated(<<"a", "corp">>),
            Plain(<<"b", "a", "corp">>), Plain(<<"xcorp">>)}

Cidr == [kind |-> "cidr", net |-> {ip1, ipMeta}]
Ip == [kind |-> "ip", ip |-> ip2]
Name == [kind |-> "host", host |-> Decorated(<<"a", "corp">>)]
Wild == [kind |-> "wild", host |-> Plain(<<"corp">>)]
WildWithoutSuffix == [kind |-> "wild", host |-> Plain(<<>>)]
Blank == [kind |-> "blank"]

Lists == {{}, {Cidr}, {Name, Blank}, {Wild}, {Ip, Wild}}

RuleDocuments ==
    [direction : {"inbound", "outbound"}, mode : {"default_allow"}, allowList : {{}}, blockList : Lists]
    \cup
    [direction : {"inbound", "outbound"}, mode : {"default_deny"}, allowList : Lists, blockList : {{}}]
    \cup
    \* Both lists filled: each mode must ignore one of them.
    [direction : {"outbound"}, mode : {"", "default_deny"},
     allowList : {{Ip, Wild}}, blockList : {{Ip, Cidr}}]
    \cup
    \* Documents that must not compile.
    [direction : {"sideways"}, mode : {""}, allowList : {{}}, blockList : {{}}]
    \cup
    [direction : {"outbound"}, mode : {"deny"}, allowList : {{}}, blockList : {{}}]
    \cup
    [direction : {"inbound"}, mode : {""}, allowList : {{}}, blockList : {{WildWithoutSuffix}}]

MCDocs == BoundedSeq(RuleDocuments, 2)
MCScopes == {"both", "inbound", "outbound", "sideways"}
=============================================================================
