------------------------ MODULE RuntimeConfigProofs ------------------------
(* The runtime configuration manager implements the policy manager's       *)
(* protocol, for any number of handlers, documents and crashes.            *)
EXTENDS MCPolicyManager, TLAPS

\* A process that is not running has no call in progress and nothing in memory;
\* without this a Start that finds no cache could keep an older configuration.
DownIsEmpty ==
    /\ rcPc \in [Rc!RcReloader -> {"idle", "begin", "fetch", "parse", "save", "rename"}]
    /\ rcPhase = "down" => /\ cfg = 0 /\ rcLoop = "none" /\ ~rcStop
                           /\ rcPc = [r \in Rc!RcReloader |-> "idle"]

\* DownIsEmpty is inductive.
LEMMA DownIsEmptyStep == DownIsEmpty /\ [Rc!Next]_(Rc!rcVars) => DownIsEmpty'
<1> SUFFICES ASSUME DownIsEmpty, [Rc!Next]_(Rc!rcVars) PROVE DownIsEmpty'
  OBVIOUS
<1> USE DEF DownIsEmpty
<1>1. ASSUME NEW ipFound \in BOOLEAN, Rc!Start(ipFound) PROVE DownIsEmpty'
  BY <1>1 DEF Rc!Start, Rc!RcReloader
<1>2. CASE Rc!StartDisabled
  BY <1>2 DEF Rc!StartDisabled
<1>3. CASE Rc!Stop \/ Rc!LoopExit \/ Rc!Publish
  BY <1>3 DEF Rc!Stop, Rc!LoopExit, Rc!Publish
<1>4. CASE Rc!Crash
  BY <1>4 DEF Rc!Crash
<1>5. ASSUME NEW r \in Rc!RcReloader, Rc!Call(r) PROVE DownIsEmpty'
  BY <1>5 DEF Rc!Call
<1>6. ASSUME NEW r \in Rc!RcReloader, Rc!Reload(r) PROVE DownIsEmpty'
  <2>1. rcPc[r] # "idle"
    BY <1>6 DEF Rc!Reload, Rc!ReloadRefused, Rc!ReloadBegin, Rc!fetch, Rc!Install, Rc!saveCache
  <2>2. rcPhase # "down"
    BY <2>1
  <2>3. Rc!Return(r) \/ \E to \in {"fetch", "parse", "save", "rename"} : Rc!Goes(r, to)
    <3>1. CASE Rc!ReloadRefused(r)
      BY <3>1 DEF Rc!ReloadRefused
    <3>2. CASE Rc!ReloadBegin(r)
      BY <3>2 DEF Rc!ReloadBegin
    <3>3. CASE Rc!fetch(r)
      BY <3>3 DEF Rc!fetch
    <3>4. CASE Rc!Install(r)
      BY <3>4 DEF Rc!Install
    <3>5. CASE Rc!saveCache(r)
      BY <3>5 DEF Rc!saveCache
    <3> QED BY <1>6, <3>1, <3>2, <3>3, <3>4, <3>5 DEF Rc!Reload
  <2> QED BY <2>2, <2>3 DEF Rc!Return, Rc!Goes
<1>7. CASE UNCHANGED Rc!rcVars
  BY <1>7 DEF Rc!rcVars
<1> QED BY <1>1, <1>2, <1>3, <1>4, <1>5, <1>6, <1>7 DEF Rc!Next

\* Reload of the runtime manager is Reload of the policy manager.
LEMMA RcReloadStep ==
    ASSUME DownIsEmpty, NEW r \in Rc!RcReloader, Rc!Reload(r)
    PROVE  Rc!PM!Reload(r)
<1> USE DEF Rc!PmOptions, Rc!PM!Nil, Rc!PM!Main, Rc!RcMain
<1>1. rcPhase # "down" /\ rcPhase' # "down"
  <2>1. rcPc[r] # "idle"
    BY DEF Rc!Reload, Rc!ReloadRefused, Rc!ReloadBegin, Rc!fetch, Rc!Install, Rc!saveCache
  <2>2. rcPhase # "down"
    BY <2>1 DEF DownIsEmpty
  <2>3. rcPhase' \in {rcPhase, "running"}
    BY DEF Rc!Reload, Rc!ReloadRefused, Rc!ReloadBegin, Rc!fetch, Rc!Install, Rc!saveCache, Rc!Return, Rc!Goes
  <2> QED BY <2>2, <2>3
<1>2. Rc!Return(r) => Rc!PM!Return(r)
  BY DEF Rc!Return, Rc!PM!Return
<1>3. \A to : Rc!Goes(r, to) => Rc!PM!Goes(r, to)
  BY DEF Rc!Goes, Rc!PM!Goes
<1>4. CASE Rc!ReloadRefused(r)
  BY <1>1, <1>2, <1>4 DEF Rc!ReloadRefused, Rc!setError, Rc!PM!Reload, Rc!PM!ReloadBegin
<1>5. CASE Rc!ReloadBegin(r)
  BY <1>1, <1>3, <1>5 DEF Rc!ReloadBegin, Rc!PM!Reload, Rc!PM!ReloadBegin
<1>6. CASE Rc!fetch(r)
  BY <1>1, <1>2, <1>3, <1>6 DEF Rc!fetch, Rc!setError, Rc!PM!Reload, Rc!PM!FetchOk, Rc!PM!FetchFailed
<1>7. CASE Rc!Install(r)
  BY <1>1, <1>2, <1>3, <1>7 DEF Rc!Install, Rc!setConfig, Rc!setError, Rc!PM!Reload, Rc!PM!Install,
                                Rc!PM!Valid, Rc!PM!Version, Rc!Docs
<1>8. CASE Rc!saveCache(r)
  BY <1>1, <1>2, <1>3, <1>8 DEF Rc!saveCache, Rc!PM!Reload, Rc!PM!Save, Rc!PM!Rename
<1> QED BY <1>4, <1>5, <1>6, <1>7, <1>8 DEF Rc!Reload

\* Every step of the runtime manager is one of the protocol.
LEMMA RcStep == DownIsEmpty /\ [Rc!Next]_(Rc!rcVars) => [Rc!PM!Next]_(Rc!PM!vars)
<1> SUFFICES ASSUME DownIsEmpty, [Rc!Next]_(Rc!rcVars) PROVE [Rc!PM!Next]_(Rc!PM!vars)
  OBVIOUS
<1> USE DEF Rc!PmOptions, Rc!PM!Nil, Rc!PM!Main, Rc!RcMain
<1>1. ASSUME NEW ipFound \in BOOLEAN, Rc!Start(ipFound) PROVE Rc!PM!Next
  <2>1. Rc!PM!Start(ipFound)
    BY <1>1 DEF Rc!Start, DownIsEmpty, Rc!setConfig, Rc!setError, Rc!PM!Start, Rc!PM!Valid, Rc!PM!Version, Rc!Docs
  <2> QED BY <2>1 DEF Rc!PM!Next
<1>2. CASE Rc!StartDisabled
  BY <1>2 DEF Rc!StartDisabled, Rc!PM!Next, Rc!PM!StartDisabled
<1>3. CASE Rc!Stop
  BY <1>3 DEF Rc!Stop, Rc!PM!Next, Rc!PM!Stop
<1>4. CASE Rc!LoopExit
  BY <1>4 DEF Rc!LoopExit, Rc!PM!Next, Rc!PM!LoopExit
<1>5. CASE Rc!Publish
  BY <1>5 DEF Rc!Publish, Rc!PM!Next, Rc!PM!Publish
<1>6. CASE Rc!Crash
  BY <1>6 DEF Rc!Crash, Rc!PM!Next, Rc!PM!Crash, Rc!RcReloader, Rc!PM!Reloader
<1>7. ASSUME NEW r \in Rc!RcReloader, Rc!Call(r) PROVE Rc!PM!Next
  BY <1>7 DEF Rc!Call, Rc!RcReloader, Rc!PM!Next, Rc!PM!Tick, Rc!PM!HandlerReload
<1>8. ASSUME NEW r \in Rc!RcReloader, Rc!Reload(r) PROVE Rc!PM!Next
  BY <1>8, RcReloadStep DEF Rc!RcReloader, Rc!PM!Reloader, Rc!PM!Next
<1>9. CASE UNCHANGED Rc!rcVars
  BY <1>9 DEF Rc!rcVars, Rc!PM!vars
<1> QED BY <1>1, <1>2, <1>3, <1>4, <1>5, <1>6, <1>7, <1>8, <1>9 DEF Rc!Next

\* The runtime manager (runtimeconfig/manager.go:98-152, 261-318) implements
\* the policy manager's protocol: what PolicyManagerProofs shows of that
\* protocol holds of it.
THEOREM RuntimeRefinesPolicy == Rc!Spec => SameProtocol
<1>1. Rc!Init => Rc!PM!Init
  BY DEF Rc!Init, Rc!PM!Init, Rc!PmOptions, Rc!PM!Nil, Rc!PM!Main, Rc!RcMain, Rc!PM!Version, Rc!RcReloader, Rc!PM!Reloader
<1>2. Rc!Init => DownIsEmpty
  BY DEF Rc!Init, DownIsEmpty
<1>3. DownIsEmpty /\ [Rc!Next]_(Rc!rcVars) => DownIsEmpty'
  BY DownIsEmptyStep
<1>4. DownIsEmpty /\ [Rc!Next]_(Rc!rcVars) => [Rc!PM!Next]_(Rc!PM!vars)
  BY RcStep
<1> QED BY <1>1, <1>2, <1>3, <1>4, PTL DEF Rc!Spec, Rc!PM!Spec, SameProtocol, Rc!SameProtocol
=============================================================================
