--------------------------- MODULE MCPolicySerial ---------------------------
(* The way of a decision, in three parts that share nothing: the policy    *)
(* manager without reload handlers, the policy engine, and the parser that *)
(* finds the name a TLS connection is judged by.  A behaviour runs one of  *)
(* them (part).                                                            *)
EXTENDS PolicyManager, PolicyInputs

CONSTANTS Docs, Hosts, Addrs, Metadata, Scopes, RandomLen, MaxRecord, Hellos

VARIABLES part, scope, doc, compiled, decision, sent, stream, parsed

engineVars == <<scope, doc, compiled, decision>>
helloVars == <<sent, stream, parsed>>

Engine == INSTANCE DomainPolicy WITH policy <- compiled
Parser == INSTANCE ClientHello

ASSUME EngineAssumption == Engine!DocsAssumption
ASSUME ParserAssumption == Parser!HellosAssumption

MCMalformed == {2}
MCOptions ==
    {o \in [enabled : BOOLEAN, appName : BOOLEAN, instanceIP : BOOLEAN,
            refreshInterval : BOOLEAN] : o.instanceIP => o.enabled /\ o.appName}

\* Hellos without a name, with one, with several extensions and names, with
\* bytes that look like fields of their own, and with an empty name list.
Ext(t, d) == [type |-> t, data |-> d]
SNI(entries) == Ext(0, Parser!Prefixed(Parser!Items(entries)))
Hello(sid, exts, names, name) ==
    [sid |-> sid, suites |-> <<4>>, methods |-> <<0>>, exts |-> exts, names |-> names, name |-> name]
MCHellos ==
    LET one == <<Ext(0, <<8>>)>>
        two == <<Ext(1, <<0, 1>>), Ext(0, <<8, 0>>)>>
    IN  {Hello(<<>>, <<>>, <<>>, <<>>),
         Hello(<<7>>, <<Ext(5, <<>>), SNI(one)>>, one, <<8>>),
         Hello(<<0, 0>>, <<SNI(two), SNI(<<Ext(0, <<1>>)>>)>>, two, <<8, 0>>),
         Hello(<<>>, <<SNI(<<>>)>>, <<>>, <<>>)}

ManagerIdle == options.enabled /\ options.instanceIP /\ options.refreshInterval
               /\ remote = 1 /\ cacheFile = Nil
EngineIdle == scope = "both"
ParserIdle == sent = [hello |-> Hello(<<>>, <<>>, <<>>, <<>>), cut |-> 1, seen |-> 0]

MCInit ==
    /\ \/ part = "manager" /\ EngineIdle /\ ParserIdle
       \/ part = "engine" /\ ParserIdle
       \/ part = "parser" /\ EngineIdle
    /\ Init /\ Engine!Init /\ Parser!Init
    /\ part # "manager" => ManagerIdle

MCNext ==
    \/ part = "manager" /\ Next /\ UNCHANGED <<part, engineVars, helloVars>>
    \/ part = "engine" /\ Engine!Next /\ UNCHANGED <<part, vars, helloVars>>
    \/ part = "parser" /\ Parser!Next /\ UNCHANGED <<part, vars, engineVars>>

MCSpec == MCInit /\ [][MCNext]_<<part, vars, engineVars, helloVars>>

\* Compile and Evaluate decide what the document says (policy.go).
DecisionFollowsDocument == Engine!DecisionFollowsDocument

\* The parser of client_hello.go never reports a name the client did not mean.
NeverTheWrongName == Parser!NeverTheWrongName
=============================================================================
