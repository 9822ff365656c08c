------------------------------ MODULE Routing ------------------------------
(***************************************************************************)
(* Service routing of the outbound proxy (cmd/proxy/data/config.go) and    *)
(* the endpoint balancers of cmd/config.                                   *)
(*                                                                         *)
(* At start Load reads the routing cache, merges the static file into it,  *)
(* and asks a goroutine to save the merged tables; every HTTP request of   *)
(* the outbound proxy then calls Match.  Balancers are not part of the     *)
(* JSON form (json:"-"): a table that went through the cache has lost      *)
(* them.  A panic in a connection goroutine ends the process: util.GO      *)
(* recovers it and panics again.                                           *)
(*                                                                         *)
(* A text (method, URI, header value, ...) is a sequence of symbols, as    *)
(* long as its prefixes matter; "" is <<>>.  The weighted choice among the *)
(* destinations of a rule is any of its balancer's nodes here; WeightedRR  *)
(* models the choice itself.                                               *)
(***************************************************************************)
EXTENDS Integers, Sequences, FiniteSets, SequencesExt, Functions

CONSTANTS Files,        \* the contents the static file may have
          Requests,     \* the requests clients may send
          Lower,        \* symbol |-> its lower-case form
          Wrap,         \* 2^32 in the code: the width of the counter next
          MaxStarts     \* bound: starts of the process

VARIABLES file,         \* the static file; <<>> also when it does not parse
          cache,        \* the cache file: the tables it parses to, if it does
          up,           \* the process runs
          maps,         \* ServiceData
          next,         \* next of every RoundRobinLoadBalancer, by its owner
          saveC,        \* messages in the channel save (capacity 1)
          saver,        \* the save goroutine: idle, writing (the file is truncated), gone
          saveFailed,   \* the last save of this process failed (history)
          timer,        \* AutoSaveTimer has not fired yet
          starts,       \* starts so far
          loaded        \* the static file as the running process read it

vars == <<file, cache, up, maps, next, saveC, saver, saveFailed, timer, starts, loaded>>

----------------------------------------------------------------------------
(* Matching one condition.                                                 *)

ToLower(t) == [i \in DOMAIN t |-> Lower[t[i]]]

\* StringMatch.Empty.
Empty(sm) == sm.exact = <<>> /\ sm.prefix = <<>> /\ sm.regex = {}

\* checkMatch, for a condition that is not empty: the exact text is looked
\* at before the prefix, the prefix before the expression.  An expression is
\* the set of texts it matches; it is not lowered.
checkMatch(sm, text, ignoreCase) ==
    LET fold(t) == IF ignoreCase THEN ToLower(t) ELSE t
    IN  IF sm.exact # <<>> THEN fold(text) = fold(sm.exact)
        ELSE IF sm.prefix # <<>> THEN IsPrefix(fold(sm.prefix), fold(text))
        ELSE fold(text) \in sm.regex

Holds(sm, text, ignoreCase) == Empty(sm) \/ checkMatch(sm, text, ignoreCase)

\* Header.Get, Query().Get: the empty text when absent.
Lookup(f, key) == IF key \in DOMAIN f THEN f[key] ELSE <<>>

\* The header loop of Match.  Go visits the map in any order and stops at
\* the first condition that fails; headerMatched is what the last visited
\* entry said, so an entry with an empty condition, which never matches,
\* rejects the request when it is visited last.
HeadersHold(match, req) ==
    LET hs == match.headers
        said(h) == ~Empty(hs[h]) /\ checkMatch(hs[h], Lookup(req.header, h), FALSE)
    IN  IF hs = <<>> THEN {TRUE}
        ELSE IF \E h \in DOMAIN hs : ~Empty(hs[h]) /\ ~said(h) THEN {FALSE}
        ELSE {said(h) : h \in DOMAIN hs}

\* The loop over withoutHeaders: a condition that matches rejects.
WithoutHold(match, req) ==
    \A h \in DOMAIN match.without :
        Empty(match.without[h])
        \/ ~checkMatch(match.without[h], Lookup(req.header, h), FALSE)

\* The loop over queryParams, as it stands: a condition that matches rejects.
ParamsHold(match, req) ==
    \A p \in DOMAIN match.params :
        Empty(match.params[p])
        \/ ~checkMatch(match.params[p], Lookup(req.params, p), FALSE)

\* The verdicts one HttpMatchRequest may give a request.
Verdicts(match, req) ==
    {/\ Holds(match.method, req.method, FALSE)
     /\ Holds(match.authority, req.authority, FALSE)
     /\ Holds(match.scheme, req.scheme, FALSE)
     /\ Holds(match.uri, req.uri, match.ignoreUriCase)
     /\ hs
     /\ WithoutHold(match, req)
     /\ ParamsHold(match, req)
     /\ match.port = 0 \/ match.port = req.port : hs \in HeadersHold(match, req)}

----------------------------------------------------------------------------
(* The tables.                                                             *)

NewMaps == [services |-> <<>>, rules |-> <<>>, endpoints |-> <<>>, clusters |-> <<>>]

\* f with g's entries, g's first.
Over(g, f) == [x \in DOMAIN g \cup DOMAIN f |-> IF x \in DOMAIN g THEN g[x] ELSE f[x]]
Put1(f, k, v) == Over([x \in {k} |-> v], f)

\* Marshal and Unmarshal: everything but the balancers.
JsonForm(m) ==
    [m EXCEPT !.services = [h \in DOMAIN @ |-> [@[h] EXCEPT !.lb = FALSE]],
              !.rules = [s \in DOMAIN @ |->
                  [i \in DOMAIN @[s] |->
                      [j \in DOMAIN @[s][i] |-> [@[s][i][j] EXCEPT !.lb = {}]]]],
              !.clusters = [s \in DOMAIN @ |->
                  [c \in DOMAIN @[s] |-> [@[s][c] EXCEPT !.lb = FALSE]]]]

\* WeightRoundRobinBalancer.Add for every destination with a positive weight
\* and a cluster; defaults.Set has given an absent weight (0) the value 100.
Nodes(route) ==
    {route[i].cluster : i \in {i \in DOMAIN route : route[i].weight >= 0 /\ route[i].cluster # ""}}

\* What a service of the file becomes: its clusters by name (the last one of a
\* name), all their endpoints, and its rules with a balancer each.
ClusterTable(s) ==
    [c \in {s.clusters[i].name : i \in DOMAIN s.clusters} |->
        LET i == CHOOSE i \in DOMAIN s.clusters :
                   /\ s.clusters[i].name = c
                   /\ \A j \in DOMAIN s.clusters : s.clusters[j].name = c => j <= i
        IN  [simple |-> s.clusters[i].simple, endpoints |-> s.clusters[i].endpoints, lb |-> TRUE]]
AllEndpoints(s) == UNION {ToSet(s.clusters[i].endpoints) : i \in DOMAIN s.clusters}
RuleTable(s) ==
    [i \in DOMAIN s.rules |->
        [j \in DOMAIN s.rules[i] |->
            [match |-> s.rules[i][j].match, lb |-> {Nodes(s.rules[i][j].route)}]]]

\* Fault: rules already in the tables are kept instead of added to.
LoadServiceKeepsRules(m, s) ==
    [services |-> Over([h \in s.hosts |-> [name |-> s.name, lb |-> TRUE]], m.services),
     rules |-> Over(m.rules, Put1(<<>>, s.name, RuleTable(s))),
     endpoints |-> Put1(m.endpoints, s.name, AllEndpoints(s)),
     clusters |-> Put1(m.clusters, s.name, ClusterTable(s))]

\* The loop of LoadServiceData on one service.
LoadService(m, s) ==
    LET old(f, none) == IF s.name \in DOMAIN f THEN f[s.name] ELSE none
    IN  [services |-> Over([h \in s.hosts |-> [name |-> s.name, lb |-> TRUE]], m.services),
         rules |-> IF s.rules = <<>> THEN m.rules
                   ELSE Put1(m.rules, s.name, old(m.rules, <<>>) \o RuleTable(s)),
         endpoints |-> Put1(m.endpoints, s.name, AllEndpoints(s) \cup old(m.endpoints, {})),
         clusters |-> Put1(m.clusters, s.name, Over(ClusterTable(s), old(m.clusters, <<>>)))]

\* LoadServiceData: a file that cannot be read or parsed adds nothing.
\* after[i] are the tables after i services.
LoadServiceData(m, f) ==
    LET after[i \in 0 .. Len(f)] == IF i = 0 THEN m ELSE LoadService(after[i - 1], f[i])
    IN  after[Len(f)]

\* LoadCache: a file that is absent or does not parse adds nothing.
LoadCache(c) == IF c = {} THEN NewMaps ELSE CHOOSE m \in c : TRUE

----------------------------------------------------------------------------
(* Endpoint balancers and Match.                                           *)

Out(kind, what) == [kind |-> kind, what |-> what]
Panic == Out("panic", "")
Err(what) == Out("error", what)
To(ep) == Out("endpoint", ep)

\* Fault: the remainder is taken by the index of the last endpoint plus two.
RoundRobinIndexPastEnd(v, n) == IF n = 0 THEN 0 ELSE v % (n + 1)

\* RoundRobinLoadBalancer.Select on n endpoints, after its counter became v:
\* the index, where Go's % keeps the sign, or 0 when it panics.
RoundRobinIndex(v, n) ==
    IF n = 0 THEN 0
    ELSE IF v = 0 THEN (IF n = 1 THEN 1 ELSE 0)
    ELSE ((v - 1) % n) + 1

Bump(owner) == ((IF owner \in DOMAIN next THEN next[owner] ELSE 0) + 1) % Wrap

\* What Match does once a match of an HTTP rule accepted the request:
\* Select on the rule's balancer, then on the cluster's.  Records are
\* [out, owner]: owner is the balancer whose counter moved.
Chosen(m, name, nodes) ==
    LET still(o) == [out |-> o, owner |-> <<>>]
        clusters == m.clusters[name]
        pick(c) ==
            IF c \notin DOMAIN clusters \/ ~clusters[c].lb THEN still(Err("cluster not found"))
            ELSE IF clusters[c].simple = "" THEN still(Err("PassThrough"))
            ELSE LET eps == clusters[c].endpoints
                     i == RoundRobinIndex(Bump(<<name, c>>), Len(eps))
                 IN  [out |-> IF i = 0 THEN Panic ELSE To(eps[i]), owner |-> <<name, c>>]
    IN  IF name \notin DOMAIN m.clusters THEN {still(Err("service no cluster"))}
        ELSE {pick(c) : c \in IF nodes = {} THEN {""} ELSE nodes}

\* The HTTP rules that can be used, by their two indexes: a rule whose balancer
\* was lost in the cache is passed over.
Usable(rules) ==
    {p \in UNION {{<<i, j>> : j \in DOMAIN rules[i]} : i \in DOMAIN rules} :
        rules[p[1]][p[2]].lb # {}}

Before(p, q) == p[1] < q[1] \/ (p[1] = q[1] /\ p[2] < q[2])

\* A rule may accept a request, or has to; one without conditions never does.
May(rule, req) == \E k \in DOMAIN rule.match : TRUE \in Verdicts(rule.match[k], req)
Must(rule, req) == \E k \in DOMAIN rule.match : Verdicts(rule.match[k], req) = {TRUE}

\* The rules are tried in order: those that may be the first to accept.
First(rules, req) ==
    {p \in Usable(rules) :
        /\ May(rules[p[1]][p[2]], req)
        /\ \A q \in Usable(rules) : Before(q, p) => ~Must(rules[q[1]][q[2]], req)}

ByRules(m, name, rules, req) ==
    (UNION {Chosen(m, name, UNION rules[p[1]][p[2]].lb) : p \in First(rules, req)})
    \cup IF \E p \in Usable(rules) : Must(rules[p[1]][p[2]], req) THEN {}
         ELSE {[out |-> Err("no endpoint"), owner |-> <<>>]}

\* A service without rules: Select on its balancer.
ByEndpoints(m, service) ==
    LET eps == m.endpoints[service.name]
        i == RoundRobinIndex(Bump(<<service.name>>), Cardinality(eps))
    IN  IF service.name \notin DOMAIN m.endpoints \/ eps = {}
        THEN {[out |-> Err("no cluster"), owner |-> <<>>]}
        ELSE IF ~service.lb THEN {[out |-> Panic, owner |-> <<>>]}
        ELSE IF i = 0 THEN {[out |-> Panic, owner |-> <<service.name>>]}
        ELSE {[out |-> To(ep), owner |-> <<service.name>>] : ep \in eps}

Match(m, req) ==
    IF req.host \notin DOMAIN m.services THEN {[out |-> Err("no service"), owner |-> <<>>]}
    ELSE LET service == m.services[req.host]
             name == service.name
         IN  IF name \notin DOMAIN m.rules \/ m.rules[name] = <<>>
             THEN ByEndpoints(m, service)
             ELSE ByRules(m, name, m.rules[name], req)

----------------------------------------------------------------------------
Init == /\ file \in Files
        /\ cache = {} /\ up = FALSE /\ maps = NewMaps /\ next = <<>>
        /\ saveC = 0 /\ saver = "idle" /\ saveFailed = FALSE /\ timer = FALSE /\ starts = 0
        /\ loaded = <<>>

\* The operator edits the static file; it is read at the next start.
EditFile == /\ file' \in Files
            /\ UNCHANGED <<cache, up, maps, next, saveC, saver, saveFailed, timer, starts, loaded>>

\* Fault: the tables are saved only when there was no cache.
LoadSavesOnce ==
        /\ ~up /\ starts < MaxStarts
        /\ up' = TRUE /\ starts' = starts + 1 /\ loaded' = file
        /\ \E seen \in {cache, {}} : maps' = LoadServiceData(LoadCache(seen), file)
        /\ next' = <<>> /\ saver' = "idle" /\ saveFailed' = FALSE
        /\ saveC' = (IF cache = {} THEN 1 ELSE 0) /\ timer' = (cache = {})
        /\ UNCHANGED <<file, cache>>

\* Load: cache, static file, the goroutines, and the deferred SaveAsync.  The
\* ReadFile of LoadCache may fail; the tables then start empty.
Load == /\ ~up /\ starts < MaxStarts
        /\ up' = TRUE /\ starts' = starts + 1 /\ loaded' = file
        /\ \E seen \in {cache, {}} : maps' = LoadServiceData(LoadCache(seen), file)
        /\ next' = <<>> /\ saver' = "idle" /\ saveFailed' = FALSE
        /\ saveC' = 1 /\ timer' = TRUE
        /\ UNCHANGED <<file, cache>>

\* The save goroutine of SaveCache takes the message; WriteFile truncates.
SaveTruncates == /\ up /\ saver = "idle" /\ saveC = 1
                 /\ saveC' = 0 /\ saver' = "writing" /\ cache' = {}
                 /\ UNCHANGED <<file, up, maps, next, saveFailed, timer, starts, loaded>>

\* WriteFile cannot open the file: the error is logged, the message is gone.
SaveOpenFails == /\ up /\ saver = "idle" /\ saveC = 1
                 /\ saveC' = 0 /\ saveFailed' = TRUE
                 /\ UNCHANGED <<file, cache, up, maps, next, saver, timer, starts, loaded>>

\* json.Marshal fails: the goroutine returns and nobody receives any more.  (No
\* field of the present tables can make it fail; the code has the path.)
SaveGivesUp == /\ up /\ saver = "idle" /\ saveC = 1
               /\ saveC' = 0 /\ saver' = "gone" /\ saveFailed' = TRUE
               /\ UNCHANGED <<file, cache, up, maps, next, timer, starts, loaded>>

\* WriteFile writes.
SaveWrites == /\ up /\ saver = "writing"
              /\ saver' = "idle" /\ saveFailed' = FALSE /\ cache' = {JsonForm(maps)}
              /\ UNCHANGED <<file, up, maps, next, saveC, timer, starts, loaded>>

\* A write fails after the truncation: what is left does not parse, the error is
\* logged and nothing asks for another save.
SaveFails == /\ up /\ saver = "writing"
             /\ saver' = "idle" /\ saveFailed' = TRUE
             /\ UNCHANGED <<file, cache, up, maps, next, saveC, timer, starts, loaded>>

\* AutoSaveTimer is a timer, not a ticker: it fires once.
AutoSave == /\ up /\ timer /\ saveC = 0
            /\ timer' = FALSE /\ saveC' = 1
            /\ UNCHANGED <<file, cache, up, maps, next, saver, saveFailed, starts, loaded>>

\* The process ends: it is killed, or a goroutine panics.
Crash == /\ up
         /\ up' = FALSE /\ saveC' = 0 /\ saver' = "idle" /\ saveFailed' = FALSE /\ timer' = FALSE
         /\ maps' = NewMaps /\ next' = <<>> /\ loaded' = <<>>
         /\ UNCHANGED <<file, cache, starts>>

\* HttpProc calls Match; where it goes then is the outbound proxy's matter.
Request(req) ==
    /\ up
    /\ \E r \in Match(maps, req) :
        \/ r.out = Panic /\ Crash
        \/ /\ r.out # Panic
           /\ next' = IF r.owner = <<>> THEN next ELSE Put1(next, r.owner, Bump(r.owner))
           /\ UNCHANGED <<file, cache, up, maps, saveC, saver, saveFailed, timer, starts, loaded>>

\* What the save goroutine does with a message, and how a write ends.
SaveTakes == SaveTruncates \/ SaveOpenFails \/ SaveGivesUp
SaveEnds == SaveWrites \/ SaveFails

Next == \/ EditFile \/ Load \/ SaveTakes \/ SaveEnds \/ AutoSave \/ Crash
        \/ \E req \in Requests : Request(req)

Spec == Init /\ [][Next]_vars

\* The save goroutine, while it lives, is always ready to receive, its writes
\* end, well or not, and the timer (CacheDuration, a minute by default) fires.
Fairness == WF_vars(SaveTakes) /\ WF_vars(SaveEnds) /\ WF_vars(AutoSave)

LiveSpec == Spec /\ Fairness

----------------------------------------------------------------------------
(* Properties.                                                             *)

\* The service of the loaded file that a host belongs to (the last one).
Owners(host) == {i \in DOMAIN loaded : host \in loaded[i].hosts}
Owner(host) == loaded[CHOOSE i \in Owners(host) : \A j \in Owners(host) : j <= i]

\* Once a service of the static file has rules, what Match decides for its
\* hosts does not depend on anything earlier runs left in the cache: no rule,
\* cluster or endpoint that was removed from the file is ever used.
HistoryFree ==
    \A req \in Requests :
        (up /\ Owners(req.host) # {} /\ Owner(req.host).rules # <<>>)
        => Match(maps, req) = Match(LoadServiceData(NewMaps, loaded), req)

\* A request can end the whole agent in three situations only: a cluster of
\* its service has no endpoint in the file (of any entry with the service's
\* name, LoadServiceData merges them), a counter wraps, or the service is known
\* from the cache alone and has lost its balancer.
PanicIsExplained ==
    \A req \in Requests : (up /\ \E r \in Match(maps, req) : r.out = Panic)
        => \/ Owners(req.host) = {}
           \/ \E k \in DOMAIN loaded : \E i \in DOMAIN loaded[k].clusters :
                 /\ loaded[k].name = Owner(req.host).name
                 /\ loaded[k].clusters[i].endpoints = <<>>
           \/ \E o \in DOMAIN next : next[o] = Wrap - 1

\* Another save is still to come: one is asked for, or the timer will ask.
SavesLeft == saver # "gone" /\ (timer \/ saveC = 1)

\* A running agent eventually has its merged tables in the cache file, also after
\* a crash in the middle of a write, unless its saves are used up (the one of
\* Load and the one of the timer) and the last one failed: a failed save alone
\* does not leave the file behind, nor does a save that is never asked for.
CacheCatchesUp ==
    [](up => <>(~up \/ cache = {JsonForm(maps)} \/ (saveFailed /\ ~SavesLeft)))

----------------------------------------------------------------------------
(* The inductive invariant.                                                *)

IsSequence(q) == q \in Seq({q[i] : i \in DOMAIN q})

\* The lists of a file are lists, and a counter has more than one value.
FilesAssumption ==
    /\ Wrap \in Nat \ {0, 1}
    /\ \A f \in Files : IsSequence(f) /\ \A k \in DOMAIN f :
          /\ IsSequence(f[k].rules) /\ IsSequence(f[k].clusters)
          /\ \A i \in DOMAIN f[k].clusters : IsSequence(f[k].clusters[i].endpoints)

\* Tables that the code can hold, and those that come out of the cache file,
\* which hold no balancer.
Tables(m) ==
    /\ m = [services |-> m.services, rules |-> m.rules, endpoints |-> m.endpoints,
            clusters |-> m.clusters]
    /\ \A h \in DOMAIN m.services : m.services[h] = [name |-> m.services[h].name,
                                                    lb |-> m.services[h].lb]
    /\ \A n \in DOMAIN m.rules : IsSequence(m.rules[n])
    /\ \A n \in DOMAIN m.rules : \A i \in DOMAIN m.rules[n] : \A j \in DOMAIN m.rules[n][i] :
          "lb" \in DOMAIN m.rules[n][i][j]
    /\ \A n \in DOMAIN m.endpoints : IsFiniteSet(m.endpoints[n])
    /\ \A n \in DOMAIN m.clusters : \A c \in DOMAIN m.clusters[n] :
          "lb" \in DOMAIN m.clusters[n][c]
BareRules(rules) ==
    \A i \in DOMAIN rules : \A j \in DOMAIN rules[i] : rules[i][j].lb = {}
Bare(m) ==
    /\ \A n \in DOMAIN m.rules : BareRules(m.rules[n])
    /\ \A n \in DOMAIN m.clusters : \A c \in DOMAIN m.clusters[n] : ~m.clusters[n][c].lb

\* rules ends with fresh, and nothing before it can be used.
EndsWith(rules, fresh) ==
    LET d == Len(rules) - Len(fresh)
    IN  /\ d >= 0
        /\ \A i \in 1 .. d : \A j \in DOMAIN rules[i] : rules[i][j].lb = {}
        /\ \A i \in 1 .. Len(fresh) : rules[d + i] = fresh[i]

\* The tables m are those of the static file alone, g, over what a cache left:
\* what is not g's has no balancer.
Merged(m, g) ==
    /\ DOMAIN g.services \subseteq DOMAIN m.services
    /\ \A h \in DOMAIN g.services : m.services[h] = g.services[h]
    /\ DOMAIN g.rules \subseteq DOMAIN m.rules
    /\ \A n \in DOMAIN m.rules :
          IF n \in DOMAIN g.rules THEN EndsWith(m.rules[n], g.rules[n]) ELSE BareRules(m.rules[n])
    /\ DOMAIN g.clusters \subseteq DOMAIN m.clusters
    /\ \A n \in DOMAIN m.clusters : \A c \in DOMAIN m.clusters[n] :
          IF n \in DOMAIN g.clusters /\ c \in DOMAIN g.clusters[n]
          THEN m.clusters[n][c] = g.clusters[n][c] ELSE ~m.clusters[n][c].lb
    /\ \A n \in DOMAIN g.clusters : DOMAIN g.clusters[n] \subseteq DOMAIN m.clusters[n]

\* A cache file holds no balancer, and the tables of a running process are those
\* of the file it read over tables without balancers.
RoutingInv ==
    /\ file \in Files
    /\ \A m \in cache : Tables(m) /\ Bare(m) /\ cache = {m}
    /\ next \in [DOMAIN next -> 0 .. Wrap - 1]
    /\ up => /\ loaded \in Files /\ Tables(maps)
             /\ Merged(maps, LoadServiceData(NewMaps, loaded))
=============================================================================
