# Lhotse Agent in TLA+

Lhotse Agent is a sidecar that sits between the processes of a container and the
network. iptables redirects their traffic to it; it decides by policy what may
pass, relays the rest, and for selected hosts opens the TLS connection (MITM) to
inject credentials the container never sees. This directory holds TLA+ models of
its parts, TLC configurations that check them on small instances, and proofs that
hold for instances of any size. Paths below are relative to `src/`.

## Inventory

| Component | State | Operations | Hard behaviour |
|---|---|---|---|
| UDP proxy, `cmd/proxy/udp.go` | session map, upstream sockets, reply sockets, listening socket | Startup, Shutdown, serve, getOrCreateSession, proxyReplies, getReplyConn, closeSession | one goroutine per session beside serve; close by key; timeouts; Shutdown does not wait |
| Policy engine, `cmd/proxy/domainpolicy/policy.go` | compiled rules | Compile, Evaluate | overwriting rules, wildcard boundaries, normalisation |
| Policy manager, `cmd/proxy/domainpolicy/manager.go` | policy in memory, cache file, refresh loop | Start, Stop, Reload, loadCache, saveCache | overlapping reloads, crashes, failing server, fail-open without policy |
| Certificate store, `pkg/tls/mitm/ca.go` | two CAs, leaf cache | GetCertificate, FetchAndReload, Reload, GetActiveCAPEM | rotation beside handshakes; the cache is outside the mutex |
| Outbound proxy, `cmd/proxy/outbound.go`, `http.go`, `domain_policy.go` | one goroutine per connection, NumOpen | accept loop, HttpProc, mitmTLSProc, passthrough, Shutdown | policy changes during keep-alive, MITM fallback, draining |
| Inbound proxy, `cmd/proxy/inbound.go` | one goroutine per connection, NumOpen | accept loop, HttpProc2, passthrough, Shutdown | accept errors are ignored |
| Tunnel, `cmd/proxy/http.go:357` | two copying goroutines | proxyTunnel | half-close, no deadline |
| HTTP framing, `cmd/proxy/http.go`, `pkg/protocol/http` | read-ahead buffers | ReadRequest, ReadResponse, body copying | pipelining, 100-continue, bodies without length |
| Resolvers, `pkg/credential`, `pkg/identity` | TTL caches | Resolve, Fetch | stale and negative entries |
| Runtime configuration, `cmd/proxy/runtimeconfig` | configuration in memory, cache file | as the policy manager | as the policy manager |
| Lifecycle, `cmd/proxy/server.go`, `cmd/upgrade`, `cmd/server` | server list, tableflip | start order, Ready, Stop | a 30 second exit timer against draining |
| Routing and load balancing, `cmd/proxy/data`, `cmd/config` | tables, cache file, counters, current weights | Load, Match, SaveCache, Select | tables of earlier runs, balancers lost in the cache, wrap-around, unsynchronised counters |
| Connection pool, `pkg/pool` | channel of idle connections | Get, Put, Close, Release | Close against Release |
| Management, `cmd/mgr` | the executable on disk | Download, handlers | crash between two renames |
| iptables, `iptables`, `clean-iptables` | the kernel's tables | capture, cleanup, validation probe | order of rules, half-applied and repeated configurations, a second program that undoes the first |
| ClientHello parser, `pkg/protocol/tls` | none | PeekClientHelloServerName | nested lengths over a stream cut anywhere |
| Sockets, logging, helpers, command line | none that a property speaks of | | |

How they interact: `server.go` starts the policy manager, waits for a first CA,
then starts the management, inbound, outbound and UDP servers. A connection
goroutine of the outbound proxy reads the policy (`Manager.Evaluate`) and the
runtime configuration (`MITMEnabledForHost`) as they are at that moment, asks the
certificate store for a leaf and the resolvers for a credential, and then relays.
The refresh loops, the management handlers and the vault change those shared
objects at any time. On an upgrade `upgrade.Stop` calls the Shutdown of each server
in turn.

What makes each component correct:

* UDP: no upstream socket is lost or left unread, flows do not disturb each other,
  idle sessions go away, Shutdown leaves nothing but the datagram in flight.
* Policy engine and ClientHello parser: the decision is the one the document states,
  for the name the client means.
* Policy and runtime managers: a node that has a usable cache never serves without
  a policy; memory and file only ever hold documents that parse; the policy does not
  go back in time without a reason, and follows the server in the end.
* Certificate store: bundles are consistent, a CA once loaded is never lost, and
  leaves of a replaced CA do not survive the rotation (they can: see below).
* Resolvers: an injected credential is the one of the request's own user and its age
  is bounded.
* Outbound and inbound: nothing is dialled that the policy did not allow, on any path;
  no upstream socket and no count is leaked; draining waits for every counted
  connection.
* Framing and tunnel: requests are read from message boundaries, what is relayed is
  complete or the loss has a known reason, half-closes pass, tunnels end.
* Lifecycle and self-update: there is always a process in service and an image to
  start it from.
* Routing and balancers: decisions depend on the file, not on history; shares are
  kept; a request does not end the agent (it can, in three situations).
* iptables: the proxy never captures itself, what is captured is what the options
  say, in every intermediate state; a clean captures nothing.

`PROJECT.json` lists every hazard found in the code with the properties aimed at it.

## Modules

Every module models whole handlers; a step runs from one blocking call (or one
critical section) to the next. Operators marked "Fault" in a module are not part of
its specification: each is a plausible mistake in the operation that follows it,
kept to show that the properties notice it.

An MC module may hold several components that share no state. A variable `part`,
chosen in the initial state and never changed, says which of them runs; the others
stay in one fixed initial state, in which their invariants hold and no action that a
fairness condition names is enabled. The reachable states are the union of those of
the parts, so nothing is lost against separate runs. Components are put together
where they answer one question: `MCPolicySerial` holds what lies on the way of a
decision, `MCOutbound` what serves a connection, `MCCertStore` what the vault
supplies, `MCAgent` the rest.

### UdpSessions

`sessions`, `keyOf`, `upstream`, `replyConn` and `conn` are the maps and sockets of
`UDPServer`; `servePc`, `serveKey`, `serveSid` are the serve goroutine's position and
locals, `replier` the position of each proxyReplies goroutine. `getOrCreateSession`,
`getReplyConn`, `closeSession` and `Shutdown` hold the mutex throughout and are one
step each; the socket reads and writes between them are steps of their own and may
fail at any time. Session objects are never reused, so a stale pointer stays
recognisable. Payloads, original-destination parsing and socket options are left
out; a datagram without original destination is dropped without a change of state.

### DomainPolicy

A host text is a sequence of labels with decorations (port, trailing dot, upper
case), a list entry a CIDR block, an address, a host, a wildcard or blank.
`Compile`, `matches`, `PolicyAllows` and `Evaluate` follow the functions of the same
names; a scope the manager does not know counts as outbound. The reference, `DocumentAllows`, reads the decision off the document without
compiling it. Compilation and evaluation keep nothing between calls, so a behaviour
is one document and one decision.

### PolicyManager

`options`, `policy`, `lastError`, `stopped` are the manager's fields, `loop` its
refresh goroutine, `pc` and `body` the position and local of each Reload call,
`cacheFile` what the file system holds. A version number stands for the body the
server publishes. Start and the refresh loop never run Reload at once, so they share
the caller `Main`; each handler is a caller of its own. `Crash` loses everything but
the file and may fall between any two steps; the temporary file has a unique name
and the rename is atomic, so only the rename changes the cache. A cache file that is
there is taken to be readable: `loadCache` treats a read error as no cache, so a file the
agent may not read leaves it without a policy until the first fetch.

### CertStore

`primary`, `secondary`, `leafCache` are the fields of the store, `wlocked` its write
lock. Readers hold the lock for one step only. `Reload` sets two pointers and clears
the cache host by host; `GetCertificate` misses, signs and stores in three steps,
the last without the lock. `late` records which hosts hold a leaf that was stored
after its signer had been replaced, `reloads` which CA sets were ever installed.

### Outbound

`pc` is the position of each connection's goroutine; `host`, `sni`, `verdict` belong
to the request or ClientHello in hand; `upstream` and `stream` are the two sockets;
`forwarded`, `relayed` and `cutShort` are history. The upstream of an intercepted
connection belongs to an `http.Transport`: it is "busy" while requests are in flight and
"open" between them. `MitmHttpEnd` is the end of `mitmTLSProc`, whose deferred
CloseIdleConnections closes an idle one and leaves a busy one; an HTTP/2 server returns
with handlers in flight when its client goes away, and `LateResponse` is what becomes of
their connection after the goroutine. `denied` and `mitmHosts` are what the policy
and runtime managers answer at the moment and may change at any step. What a client
sends, whether a dial, a handshake or a transfer fails, and how an exchange ends is
left open. An HTTP exchange and a tunnel are one position each; their inside is in
`HttpExchange` and `Tunnel`. Routing (`data.Match`) changes only the
address that is dialled, after the policy was asked, and is not told apart here.

### Inbound

The second copy of the connection loop (`inbound.go`), with variable names of its own:
no MITM, TLS not told from other bytes, and an accept loop that ignores errors
(`AcceptFails`: the goroutine of the nil connection panics, `util.GO` panics again and
the process is over). `InboundIsOutbound` instantiates `Outbound` with no intercepted
hosts and states that every behaviour is one of it. The loopback address that
`inboundDialTarget` puts in place of the destination is not told apart.

### HttpExchange

One client connection below the level of `Outbound`: the client's units (`toSend`,
`sock`), the `bufio.Reader` of this turn of the loop (`buf`), the exchange (`phase`,
`need`, `req`, `resp`) and the upstream's units (`up`). A unit is a header block, a byte
of data, a chunk-size line, a bare CRLF or a trailer line. `requestBody`,
`responseBody` and `Take` are `writeHTTPRequest`, `proxyHTTPBody` and the two copy loops;
header blocks are records of the fields the framing code reads. The Transfer-Encoding
of a request is a list of lines, each a list of codings, because `requestIsChunked` splits
the first line only: a `chunked` in a later line behind another coding is not found
(`Misread`, history `misread`). The client may
pipeline, may wait for 100 (Continue), and `bufio` may read ahead any number of units.
Once the proxy is out of step with its client, because read-ahead was dropped or a request
misread, the model follows it to the next thing it peeks at (raw bytes, `NotHttp`, or a
header) and no further.

### Tunnel and Pipe

`Pipe` is what a user of a tunnel expects: in each direction bytes arrive in order and
in number, the end of the stream comes after the last byte, and only an end that leaves
may break that. `Tunnel` is `proxyTunnel`: two copying goroutines (`pc`, `held`), socket
buffers (`in`, `out`, at most `Window` bytes), the two shutdown calls, the error channel
and the caller. Both have the same variables for what the ends see, so the refinement
mapping is the identity.

### RuntimeConfig

The runtime configuration manager, written after its own source, with other
preconditions (an agent id; an address that is only reported when missing) and a
distinction of the errors. `SameProtocol` maps it to `PolicyManager`.

### Credentials

`applyCredentialInjection` for several requests at once: the list of user sources, the
identity and the credential cache with their lifetimes (negative entries included), a
vault whose answers take up to `Timeout`, fail, or are overtaken by changes. Time is a
number; it passes only while calls wait, which is the worst case for a call's own age.
`idUntil` and `credUntil` record when a value was last the vault's.

### ClientHello

`PeekClientHelloServerName` and the parser on sequences of small numbers, with each
length check as in the code; the random field has `RandomLen` bytes and a length field
one. The client's `Encoding` is the reference: a hello is cut into two records at
every position and the stream stops at every position.

### Routing and WeightedRR

`Routing` has the tables (`maps`), the file, the cache file and the goroutines that save
it: one message from Load, one from a timer that fires once, and a save that may fail to
open the file, fail after truncating it, or (Marshal) end its goroutine; all of these are
logged and none is retried. Load may also fail to read the cache: `WriteFile` is called
with the mode 644 in decimal, octal 1204, which lets no owner but root read the file back.
`Match` computes the set of possible results for a request, a panic among them.
Texts are sequences of symbols. Two entries of the file may have one name; their
rules, clusters and endpoints are merged, and a host belongs to the last that names it. The balancers of endpoints are part of `Match`; the
weighted choice of a destination is `WeightedRR`, read by read and write by write, for
goroutines that call Next at once; `debt` records what calls that overlapped have left in
the weights.

### ConnPool, Lifecycle, SelfUpdate

`ConnPool`: Get, Put, Close and Release, with every region under the mutex and every
channel operation as a step. `Lifecycle`: generations of the process that inherit the
TCP listeners; how many servers each has started, from when on they accept, ready or not;
which server's Shutdown is running; where each client connection is. The UDP port is
not inherited, so a fixed one can be bound by one process at a time (`udpFixed`).
tableflip is modelled from how it is used; it may refuse an upgrade in more cases than
the model does.
`SelfUpdate`: directory entries and inodes, the steps of Download, of which each rename
may fail and between which the process may die (`exeLost`: the second rename has failed),
and the supervisor that starts whatever has the executable's name.

### IptablesRules, Iptables, IptablesValidation

`IptablesRules` builds, as pure operators, the configuration of the capture program and
of the cleaner from flags and environment, the rules of `Run`, their command and
restore forms and the cleaner's commands, and says what a kernel that holds given
rules does with a packet. `Iptables` runs the two programs command by command: a
command may fail, the capture then exits, the cleaner goes on; a lock that stays held
skips a command of the cleaner; the programs may be run again. `ipRule` is what
`ConfigureRoutes` changes and what its error depends on; no property asks about it, since
the cleaner leaves it and a packet's verdict does not depend on it. `IptablesValidation`
is the probe: client, listeners, timer, and connections of other processes that reach a
listener, directly or, where the installed rules redirect a connection of `Others` to the
probe port, with the probe port as their original destination (`strays`).

## Runs

| Run | Instance | What it shows |
|---|---|---|
| `udp` | 2 clients, 1 destination, 3 session objects | SessionsAccounted, OneStragglerAfterShutdown, FlowIsolation; SilentSessionsAreReaped under fairness of the reply goroutines |
| `policy_concurrent` | policy: 2 handlers, 4 versions with a malformed one, 1 crash; runtime: 1 handler, 3 documents, 1 crash | NeverOpenWithCache, CacheOnlyGetsParsedBodies, RefreshConverges; SameProtocol |
| `policy_serial` | manager: no handler, 5 versions, 2 crashes; engine: all documents of at most 2 of 25 rules, 5 hosts, 4 addresses, 4 scopes; parser: 4 hellos, every cut and every end | NoRollback, CacheNotAheadOfMemory; DecisionFollowsDocument; NeverTheWrongName |
| `certstore` | certificates: 2 hosts, 2 handshakes, 1 client, 2 payloads; credentials: 2 requests, 4 ticks, 1 change | BundleIsOneReload, StaleOnlyByLateStore; CredentialIsCurrent |
| `outbound` | 2 connections, 2 hosts, outbound and inbound; exchanges: 2 requests out of 9 kinds, 10 kinds of responses | OpenIsAllowed, ForwardedWasJudged, NoUpstreamLeak, NumOpenIsExact, DrainedWhenShutdownReturns; InboundIsOutbound; InSync, LossIsExplained, MutualWaitOnlyByExpect |
| `iptables` | 15 configurations, 338 packets, 2 programs one after the other, 4 for three of the configurations; 5 configurations and 2 users of the probe, 9 connections of others to its port | ProxyNeverLoops, OnlyIntendedCaptured, InstalledMatchesIntent, CleanedCapturesNothing; PassMeansRedirected, WorkingCaptureDecides |
| `agent` | tunnel: 2 bytes, window 1; routing: 5 files, 3 starts, counters of width 3; choice: 2 goroutines, weights 5, 1, 2 over 9 calls, one overlap; pool: 3 clients, 3 connections, capacity 2; life: 3 generations, 1 connection; update: 2 versions | ImplementsPipe, HalfCloseIsRelayed, TunnelEnds; HistoryFree, PanicIsExplained, CacheCatchesUp; ProportionalAtAllTimes; EachConnInOnePlace; AlwaysInService; AlwaysAnImage |

What some of these say about limits of the code:

* `LossIsExplained`: a response is cut in three cases, an interim (1xx) response, a
  body delimited only by the end of the stream without `Connection: close`, and a last
  coding other than `chunked`. `InSync` is about clients that do not pipeline; the
  read-ahead of one that does is thrown away with the old reader. It also excepts what
  follows a misread request (`Transfer-Encoding: gzip`, then `Transfer-Encoding: deflate,
  chunked`): its body is left in the stream and read as the next request, or a
  Content-Length beside it is believed, which is the second case of
  `MutualWaitOnlyByExpect`.
* `NoUpstreamLeak` excepts one path: the client of an intercepted connection goes away
  while a request is in flight. The upstream connection then stays until the request has
  ended, and if it becomes idle after that, for the 90 seconds of the transport's idle
  timeout, because nobody closes the idle ones a second time.
* `MutualWaitOnlyByExpect`: a client that waits for 100 (Continue) and the proxy do wait
  for each other, for ever.
* `TunnelEnds` supposes that both ends close: no deadline bounds a silent one.
* `PanicIsExplained`: a request ends the agent when the chosen cluster has no endpoints,
  when the round-robin counter wraps, or when its service is known from the cache only.
  The cluster without endpoints may stand in another entry of the file with the same
  service name: LoadServiceData merges the entries of a name.
* `EachConnInOnePlace`: a connection given back after Release leaks, and a Get that was
  past its test of `ping` when Release cleared it panics; nothing else goes wrong.
* `CredentialIsCurrent`: a slow answer stored over a newer one adds the vault's timeout
  to the lifetime of an entry.
* `ProportionalAtAllTimes` is exact for goroutines that take turns: less than a call ahead
  of the share, and at most about half as many calls behind as there are other nodes (with
  four destinations and the weights 1, 4, 30, 30 a node does fall behind by more than a
  call). Calls that overlap lose updates of the weights. What they have left stays there for
  good: nothing repairs it, and later calls that do not overlap add nothing to it.
* `CacheCatchesUp`: a process saves twice, after Load and when the timer fires. If the last
  of these fails, the file stays behind, or truncated, until the next start.
* `InstalledMatchesIntent` has an exception for the excluded ranges: the text of the flag
  (`iptables/pkg/cmd/root.go:412-414`) says that they apply only when all outbound traffic
  is redirected, the rules are written always (`run.go`), so a connection to an excluded
  range that the included ranges or ports would redirect is left alone (`ExcludedAnyway`).
  The exception is exact: without it the run fails. The intent for the tunnel port follows
  the code: its RETURN is in the nat table only, so TPROXY, which works in the mangle table,
  captures that port too, whatever the comment at `run.go:350` suggests.
* `PassMeansRedirected`: the service compares nothing but the port (`validator.go:152`), so a
  connection of another user to port 15002 of any host, if the rules redirect it, makes a
  validation pass whose own user's traffic is not redirected. TLC reaches this; the property
  says that it is the only way.
* `CleanedCapturesNothing` excepts DNS over UDP behind a cleaner that was cut short: the rules
  of the hooks are deleted by one `-D` each, so a copy that a capture added on top of rules
  which the first cleaner had left survives the second.
* `AlwaysInService` excepts a panic. A child accepts connections as soon as it has started
  a server, and log.Fatal cuts them if a later Startup fails (`server.go:179-181`). With a
  fixed UDP port, which is the default, it always does, since the parent has the port
  (`udp.go:58`): such an upgrade never hands over (proved, `LifeFixedPortNeverHandsOver`).
* `AlwaysAnImage` is about one download at a time. If the second rename fails, the running
  process has no file under its name, and a second download of the same process moves the
  image on to a name with one more -bak.

Five runs show where the code and the repository's own words part:

* `metadata_default`: `readme.md:19` says that the metadata endpoint is blocked by
  default; with no document installed `Manager.Evaluate` allows everything.
* `stale_leaf`: `ca.go:197` says that the leaf cache is cleared on rotation; a
  handshake that signed before the rotation may store its leaf after it. The leaf
  then lives up to 23 hours. `StaleOnlyByLateStore` shows that this is the only way.
* `fallback_replay`: `docs/mitm-credential-vault-design.md:59` describes the
  passthrough as the fallback for a failed MITM; a MITM tunnel that ended normally
  returns `errProxyConnectionDone`, is taken for a failure, and the destination is
  dialled a second time.
* `fallback_transparent`: the same line promises transparent forwarding; the
  fallback mostly starts on a stream that the TLS server has written to or closed.
* `upgrade_cut`: `readme.md:28` promises that an upgrade does not interrupt HTTP
  connections in progress. The accept loops of a draining process go on; a connection
  that arrives at a server whose Shutdown has already returned, or has not been counted
  yet, is cut when Run returns.

### Bounds

Three session objects let a flow lose its session, get a second one, and meet the
leftover goroutine of the first while another flow is active. Four versions with
the second malformed let two reloads overlap with a good, a bad and a newer document
between them; one crash is enough for any pair of "before" and "after", two let a
cache survive a life that never reached the server. Two payloads are one rotation,
with an overlap CA; two handshakes let one store late while the other signs anew; two
requests, a lifetime of two and four ticks let one call store what is outdated while
the other reads it until it expires. Two connections are needed to see one of them
miscounted while the other drains; two requests, one after the other, to see the first
leave something behind for the second. Two bytes through a window of one make a
goroutine wait at every place where it can. Three starts let a file change twice,
so that a removed rule has been in the cache; a counter of width 3 wraps after a list
was gone through. Nine calls are a full turn of the weights and one more; one overlap of
two goroutines loses an update and leaves the rest of the turn to see what becomes of it.
Three clients of a pool of two connections compete for one and wait.
Three generations are an upgrade during the drain of the one before. Two iptables
programs are a repeated apply and a clean after an apply, each complete, failed or cut
short; four, for a plain, a TPROXY and a DNS configuration, let an apply and a clean meet
what an interrupted clean has left. The configurations switch every option at least once,
and the packets differ in every field that a rule looks at, except that no incoming packet
arrives on lo or carries a mark: the rules that keep TPROXY from taking its own packets a
second time are installed, but no packet of a run meets them.

Symmetry is used over clients, sessions, handlers, hosts, workers, requests and
connections, none of which is ordered, and only in runs without liveness.

Deadlock is not checked where the system may stop: all goroutines returned after
Shutdown, a stopped manager, a connection or a program that has come to its end.

### Fairness

* UDP: weak fairness of each reply goroutine. Its read has a deadline (`udp.go:151`), so
  none of its calls blocks for ever. Nothing is assumed of serve.
* Policy: weak fairness of the ticker and of the loop's Reload, whose fetch has a
  timeout, and strong fairness of a successful fetch: a server that is asked again and
  again answers at some time. The handlers may stop anywhere.
* Tunnel: the two goroutines and their caller are scheduled, and an end that is there
  reads what it is sent. An end need not send or close.
* Routing: the save goroutine, while it lives, receives, its write ends, well or not, and
  the timer fires.
* Validation: goroutines are scheduled, and the original destination of a probe that is
  repeated is not unknown every time. Nothing is assumed of the timer.

## Proofs

Eight modules hold theorems. A module of proofs extends the MC module whose run checks
the properties it proves, so a theorem names the very definition that TLC checked; the
theorem is about the specification of the component (`Engine!Spec`, `Router!Spec`, ...),
for every value of its constants. Every inductive invariant below was first checked by
TLC as an invariant of the run of its component. The assumptions on constants are
ASSUMEs of the component's or the MC module; TLC evaluates them on every run.

`LeastElement` has what the others need of the naturals: a non-empty set of naturals has
a least element (from the well-foundedness of `<`), hence induction stated for a set
(`SetInduction`), a largest element of a bounded set, and that a loop which concatenates
the parts of a list is defined (`ConcatLoop`). This is how theorems about definitions that
recurse over a list are reached: `Compile`, `LoadServiceData`, the walk of a packet through
a chain, the execution of a batch of commands and the loops of the parser are recursive
functions, `SetInduction` shows that such a function exists and then carries a property from
round to round.

`UdpSessionsProofs` proves, for any sets of clients, destinations and sessions, the
invariants (`SessionsAccounted` is three in one) and the action property of the UDP
proxy. They need each other: a
reply goroutine returns after closing whatever the map holds for its key, so its own
socket is closed only because every open socket is in the map under its own key.
The inductive invariant adds
that mapped sessions are stored under their own key (`MapKeyed`), that a session gets
key, socket and goroutine together (`AllocatedTogether`), what serve holds at each
position (`ServeHolds`), and that after Shutdown a datagram waiting for its lookup
finds every socket closed (`StragglerOnlyFromLookup`). Assumptions: `NoSid` is not a
session and `NoKey` not a flow.

`PolicyManagerProofs` proves, for any number of handlers, versions, malformed bodies
and crashes, type correctness, `NeverOpenWithCache` and `CacheOnlyGetsParsedBodies`.
The invariant must speak of the time before Start returns (`LoadedFromCache`) and of
calls that are about to write the file (`SavesWhatItInstalled`): they have parsed the
body and have put a policy in memory before. With no reload handlers it goes on to
prove `NoRollback` and `CacheNotAheadOfMemory` from the order file <= memory <= body in
hand <= published (`Ordered`). Assumptions: the bounds are numbers, malformed versions
are versions, the main caller is no handler.

Its second part is the policy engine: `DecisionFollowsDocument` for every document of
any length, host, address and scope. The invariant (`EngineInv`) is that the policy in
force is the compiled document. `EngineRound` says what n rounds of Compile leave (the
last rule of each direction, unless one was bad), `EngineMatches` that the four kinds of
matchers find exactly the entries that cover a host or address (the step that takes
work is that a wildcard matches by a proper suffix of labels, `SuffixIsEnd`), and
`EngineAllows` puts the two together. Assumption: documents, hosts and addresses have
the shapes that `DocsAssumption` lists.

Its third part is the ClientHello parser: `NeverTheWrongName` for every hello, with any
number of extensions and names, cut and read up to anywhere. The two loops of the parser
are functions over sequences of bytes; that they are defined follows from the input getting
shorter in every round (`ParseLoop`). `ItemsWalk` takes the bytes of a list apart item by
item, which gives what a loop finds in the list a client encoded: the first item of type 0
(`NamesWalk`, `ExtensionsWalk`). The bytes of an incomplete hello fail a length check before
a loop starts. The invariant (`ParserInv`) only says that what was parsed is what the peeked
bytes give. Assumption (`ParserAssumption`): a hello means what RFC 6066 says, the first
name of type 0 in the first extension of type 0; the bytes themselves may be anything.

`CertStoreProofs` proves `BundleIsOneReload`, `StaleOnlyByLateStore`, and that no answer of
the vault takes a loaded CA away (`CAStaysLoaded`), for any numbers of hosts, handshakes,
clients and rotations. The invariant says what is true in the middle
of Reload: the write lock covers exactly the replacing and clearing
(`LockedInReload`), between the two assignments the parsed list is already recorded
(`ActiveIsOneReload`), and while Range runs the hosts it has visited are accounted for
(`ClearedIsAccounted`). Assumption: the bound on payloads is a positive number.

Its second part is the resolvers: `CredentialIsCurrent` for any numbers of requests,
users, sources and changes, any lifetimes and any timeout. The invariant (`CredInv`)
bounds the age of every value at every place it can be: in either cache until its entry
expires (`IdCacheIsRight`, `CredCacheIsRight`), and in the hands of a call at each position
(`CallIsRight`), where the time of the vault's answer, of the call's start and of the
cache's deadline have to be kept apart. Assumption: lifetimes and timeout are numbers
(`CredAssumption`).

`OutboundProofs` proves all properties of `Outbound` for any finite set of
connections. The invariant is stated connection by connection: past the policy the
verdict is "allowed" (`JudgedIsAllowed`), a socket is open at four positions only, or
behind a connection that was cut short (`UpstreamIsHeld`), past the handshake the ClientHello named its host
(`InterceptedHasName`), and a connection that forwarded a MITM request never returns
to Peek, where its host would change (`ForwardedStays`). That the counter is exact
follows from every step adding one goroutine to the counted ones, removing one, or
leaving them as they are (`CounterStep`). Assumption: `Conn` is finite. It also proves
`InboundIsOutbound` for any connections and hosts. That needs no
invariant: each step of the inbound loop is a step of the outbound one from the same
position, and a panic changes nothing that Outbound has. What is proved of Outbound so
holds of the inbound server as well.

Its second part is the exchanges: `InSync`, `LossIsExplained` and `MutualWaitOnlyByExpect`, for any
sequence of requests and responses of any length. The invariant (`ExchangeInv`) says how
far a body copy has come in its message (`Reads`), that the units from the reader to the
client's hands are whole messages from a known point on (`Aligned`, `Holds`), in which
turn client and proxy are (`InTurn`), and what of a response was passed on (`Relayed`);
behind a misread request it says nothing of the stream.
Assumption (`PeersAssumption`): clients and servers keep to the framing of HTTP, which is
what the three properties suppose; the proxy's own mistakes are not excluded by it.

`RuntimeConfigProofs` proves `SameProtocol` for any numbers of handlers, documents and
crashes. The invariant it needs is that a process that is down has nothing in memory
and no call in progress (`DownIsEmpty`): a Start without a usable cache leaves the
configuration as it is, which is the protocol's "no policy" only because of that.

`AgentProofs` has the parts that `MCAgent` puts side by side:

* Tunnel: `ImplementsPipe` for any number of bytes and any window. The
  invariant `TunnelInv` counts the bytes: what was sent is received, held, on its way or
  delivered (`Conserved`); a goroutine has ended only if an end has left or the writer has
  closed and nothing is left behind; a reader sees the end only behind the last byte.
* Lifecycle: `AlwaysInService`, and that with a fixed UDP port no process is ever replaced
  (`FixedPortNeverHandsOver`), for any number of generations. The invariant (`LifeInv`) adds
  that at most one process serves and one starts, that each starts and stops its servers in
  order, that one process at most has a fixed UDP port, and that connections are with
  processes that live.
* Connection pool: `EachConnInOnePlace` for any clients, connections and capacity. The
  invariant (`PoolInv`) says which places exclude each other (`Apart`), that the channel,
  the hands and the sockets are the same connections (`HandsMatch`, `NoneLost`), that the
  count is their number (`Counted`), and that only a cleared `ping` panics.
* Self-update: `AlwaysAnImage` when downloads do not overlap, for any versions, crashes,
  failing renames and restarts. The invariant (`UpdateInv`) gives, for each step of Download, what the
  three names lead to (`NamesAreRight`, `ExeIsRight`).
* Routing: `HistoryFree` and `PanicIsExplained` for any files, requests and numbers of
  starts. Neither is inductive: both speak of the tables as the file alone would
  give them. The invariant (`RoutingInv`) is that what a cache file holds has no balancer
  (`Bare`) and that the tables of a running process are those of its file over such
  leftovers (`Merged`): the rules of a service end with the file's, and whatever cluster is
  not the file's cannot be picked. `RouteMerged` carries that through one service of the
  file, `RouteLoaded` through all of them; `RouteFirst` and `RouteByRules` then show that the
  rules in front, being passed over, change no choice. Assumption (`FilesAssumption`): the
  lists of a file are lists and a counter has more than one value.
* Weighted choice: for any goroutines, nodes, weights and number of calls, the exact
  account (`ChoiceInv`). While no two calls overlap, every `currentWeight` is what the node is
  owed, plus what earlier overlaps left (`debt`), plus what the call in progress has added.
  Before the first overlap there is no debt, and the amounts add up to one call when all
  weights have been added (the sum lemmas, over any finite set of nodes):
  so the best node has something, and after its turn is ahead by less than a call; and
  another node, having no more than the best, has at most half of what is left for the two
  when all the others are ahead (`ChoiceBest`), which is less than half as many calls as
  there are other nodes. `ProportionalAtAllTimes` follows. Of what overlapping calls
  themselves may do to the weights nothing is claimed. Assumption (`WeightsAssumption`):
  weights are numbers and not all of them zero.

`IptablesProofs` is about any options, packets and numbers of runs, with every failure and
interruption between two commands:

* `ProxyNeverLoops`. The rules of a configuration never capture a connection in
  `ISTIO_OUTPUT` before the rule that leaves the proxy's own users and groups alone
  (`Sheltered`), and this is carried from `Run`, option by option, through the builder into
  the two forms of the commands, and from there into the kernel. The invariant
  (`ProgramsInv`) says that each chain of a kernel holds only rules of the program, whose
  jumps lead to chains that exist, and that `ISTIO_OUTPUT` is sheltered (`Sound`); and that
  among the commands to come a capturing rule comes behind its shelter, or finds it in the
  kernel (`Expected`). Deletions and flushes keep it because the cleaner removes whole chains
  there, never a shelter alone. `Fate` then walks a packet of the proxy through such a kernel.
  A second capture meets chains that exist and stops, or appends behind the first.
* `PassMeansRedirected`, for any configurations, users and connections of others. What waits at
  a listener with the probe port as its destination was redirected there, and what was
  accepted is the probe or leaves its trace in `strayed` (`ProbeInv`).
* The TCP half of `CleanedCapturesNothing`: behind a cleaner that ran all of its commands
  every chain of the program is empty, because each is flushed and nothing fills it again
  (`CleanInv`), and the hooks that are left redirect nothing but DNS over UDP. It needs no
  agreement between the options of the two programs.

Assumptions: the options have their types, and the port for inbound traffic is not one of
the two for outbound traffic (`SetupsAssumption`), without which the proxy's calls to its own
pod would end where they started; packets have the fields that rules look at
(`PacketsAssumption`).

The attempt to prove `PanicIsExplained` showed an earlier form of it to be false, which
spoke only of the last entry of the file with the host: see Runs.

Only model-checked:

* the liveness properties (the prover has no fairness reasoning);
* the UDP half of `CleanedCapturesNothing`: it depends on the number of copies of every DNS
  rule in a hook, and on the two programs being called with the same DNS options, which
  the constants do not force;
* `OnlyIntendedCaptured` and `InstalledMatchesIntent`: they compare every rule of every chain,
  in order, with the intent of the options. The proofs above need to know of the rules
  only which may capture, and what comes before those; these two would need the whole table
  for any lists of options, including lists that contradict each other, of which it is
  open what they should mean.

## Not modelled

* Socket options and the original destination (`pkg/socket`): system calls; their
  results are inputs of the modules.
* Logging (`pkg/log`): configuration and output; no other component reads its state.
* Environment variables, sets and copy-on-write helpers: sequential helpers without a
  protocol; the copy-on-write types of `util/sync/cow` have no user.
* The random, last-connection and pass-through balancers: `Match` cannot reach them.
* Generated code (`RouteRule.pb.go`), flag parsing, scripts, the demo.
* The read-only and pprof handlers of the management server, and its `/iptables` and
  `/clean-iptables` handlers, which call the modelled programs inside the agent with a
  fixed configuration (an error there exits the agent).
* The subcommand `configure-routes`, which passes no dependencies to a function that
  `Iptables` models as a part of the capture.
* CNI mode (`CNIMode`), which runs the same iptables commands in another network namespace,
  and `configureIPv6Addresses`, which adds ::6 to lo before the TPROXY routes (its error ends
  the program there, which `CaptureEnds` does too).
* Contents: header texts, certificates, payloads and log lines are model values or the
  few fields that the code branches on. Data races other than those of the weighted
  balancer are not looked for.

## Plan

Done: all components named above, with proofs about all of them. Left:

1. The UDP half of `CleanedCapturesNothing`, for a cleaner that shares the DNS options of the
   capture, by counting the copies of a rule in the hooks.
2. `OnlyIntendedCaptured`, for options that do not contradict each other, first for the
   outbound chains.
