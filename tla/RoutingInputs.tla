----------------------------- MODULE RoutingInputs -----------------------------
(* Small static files and requests for service routing.                    *)
EXTENDS Integers, Sequences

MCLower == [a |-> "a", B |-> "b", b |-> "b", GET |-> "GET"]

None == [exact |-> <<>>, prefix |-> <<>>, regex |-> {}]
AnyReq == [method |-> None, authority |-> None, scheme |-> None, uri |-> None,
        ignoreUriCase |-> FALSE, headers |-> <<>>, without |-> <<>>, params |-> <<>>, port |-> 0]

UnderB == [AnyReq EXCEPT !.uri = [None EXCEPT !.prefix = <<"b">>], !.ignoreUriCase = TRUE]
WithHeader == [AnyReq EXCEPT !.headers = [x |-> [None EXCEPT !.exact = <<"a">>], y |-> None],
                          !.without = [x |-> [None EXCEPT !.prefix = <<"b">>]]]
WithParam == [AnyReq EXCEPT !.params = [p |-> [None EXCEPT !.regex = {<<"a">>}]], !.port = 80]

C(name, simple, eps) == [name |-> name, simple |-> simple, endpoints |-> eps]
Route(match, dests) == [match |-> match, route |-> dests]
Dest(c, w) == [cluster |-> c, weight |-> w]

\* A service with rules, two clusters of which one is passed through.
Ruled == [name |-> "s", hosts |-> {"h"},
          clusters |-> <<C("v1", "RANDOM", <<"e1", "e2">>), C("v2", "", <<"e3">>)>>,
          rules |-> << <<Route(<<UnderB, WithHeader>>, <<Dest("v1", 0), Dest("v2", 10)>>),
                         Route(<<WithParam>>, <<Dest("v1", -1), Dest("gone", 1)>>)>>,
                       <<Route(<<AnyReq>>, <<>>)>> >>]
\* The same service, its rules and a cluster removed.
Plain == [Ruled EXCEPT !.clusters = <<C("v1", "RANDOM", <<"e2">>)>>, !.rules = <<>>]
\* Its rules changed.
Changed == [Ruled EXCEPT !.clusters = <<C("v1", "RANDOM", <<"e2", "e4">>)>>,
                         !.rules = << <<Route(<<AnyReq>>, <<Dest("v1", 5)>>)>> >>]
Hollow == [Ruled EXCEPT !.clusters = <<C("v1", "RANDOM", <<>>)>>]
Other == [Plain EXCEPT !.name = "t", !.hosts = {"k"}]
\* A second service of the same name, which only adds a cluster.
Twin == [Hollow EXCEPT !.hosts = {"k"}, !.rules = <<>>]

MCFiles == {<<Ruled>>, <<Plain, Other>>, <<Changed>>, <<Changed, Twin>>, <<>>}

Req(host, uri, x, p) == [host |-> host, method |-> <<"GET">>, authority |-> <<>>, scheme |-> <<>>,
                         uri |-> uri, header |-> x, params |-> p, port |-> 80]
MCRoutingRequests == {Req("h", <<"B", "a">>, <<>>, <<>>),
               Req("h", <<"a">>, [x |-> <<"a">>], <<>>),
               Req("h", <<"a">>, [x |-> <<"b">>], [p |-> <<"a">>]),
               Req("k", <<>>, <<>>, <<>>)}
=============================================================================
