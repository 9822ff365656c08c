---------------------------- MODULE PolicyManager ----------------------------
(***************************************************************************)
(* The policy manager (cmd/proxy/domainpolicy/manager.go): it keeps the    *)
(* policy in memory, refreshes it from the configuration server and leaves *)
(* a copy in a cache file for the next start.  Start, the refresh loop and *)
(* every POST /domain-policy/reload run Reload, which holds the mutex only *)
(* while it sets the policy: reloads overlap, and a crash may fall between *)
(* any two of their steps.                                                 *)
(*                                                                         *)
(* The server publishes versions 1, 2, ...; a version stands for the body  *)
(* that the server returns.  Bodies in Malformed do not Parse; a cache file *)
(* that cannot be read or parsed holds one of those.                       *)
(***************************************************************************)
EXTENDS Naturals

CONSTANTS
    Handler,        \* concurrent POST /domain-policy/reload requests
    MaxVersion,     \* bound on what the server publishes
    Malformed,      \* versions whose body Parse refuses
    MaxCrash,       \* bound on crashes
    Options         \* option records that are explored

ASSUME VersionAssumption == MaxVersion \in Nat \ {0} /\ Malformed \subseteq 1 .. MaxVersion
ASSUME CrashAssumption == MaxCrash \in Nat
ASSUME OptionsAssumption ==
    Options \subseteq [enabled : BOOLEAN, appName : BOOLEAN, instanceIP : BOOLEAN,
                       refreshInterval : BOOLEAN]

VARIABLES
    options,        \* which options are set; instanceIP may be filled in by Start
    remote,         \* the version that the server returns now
    phase,          \* "down", "starting" (inside Start) or "running"
    policy,         \* m.policy, 0 for nil
    lastError,      \* m.lastError # ""
    stopped,        \* m.stop is closed
    loop,           \* the refreshLoop goroutine: "none", "live" or "exited"
    pc,             \* where each Reload call is
    body,           \* the body that each Reload call has fetched
    cacheFile,      \* what the cache file holds, Nil when it is missing
    instanceIP,     \* m.options.InstanceIP # ""
    crashes

vars == <<options, remote, phase, policy, lastError, stopped, loop, pc, body,
          cacheFile, instanceIP, crashes>>

Version == 1 .. MaxVersion
Valid == Version \ Malformed
Nil == 0

\* Start calls Reload before it spawns refreshLoop, so one caller is enough for both.
Main == "main"
ASSUME HandlerAssumption == Main \notin Handler
Reloader == Handler \cup {Main}
ReloadPc == {"idle", "begin", "fetch", "parse", "save", "rename"}

TypeOK ==
    /\ options \in Options
    /\ remote \in Version
    /\ phase \in {"down", "starting", "running"}
    /\ policy \in Valid \cup {Nil}
    /\ lastError \in BOOLEAN
    /\ stopped \in BOOLEAN
    /\ loop \in {"none", "live", "exited"}
    /\ pc \in [Reloader -> ReloadPc]
    /\ body \in [Reloader -> Version \cup {Nil}]
    /\ cacheFile \in Version \cup {Nil}
    /\ instanceIP \in BOOLEAN
    /\ crashes \in 0 .. MaxCrash

\* NewManager.  A cache file of an earlier life may be damaged.
Init ==
    /\ options \in Options
    /\ remote \in Version
    /\ phase = "down"
    /\ policy = Nil
    /\ lastError = FALSE
    /\ stopped = FALSE
    /\ loop = "none"
    /\ pc = [r \in Reloader |-> "idle"]
    /\ body = [r \in Reloader |-> Nil]
    /\ cacheFile \in Malformed \cup {Nil}
    /\ instanceIP = FALSE
    /\ crashes = 0

-----------------------------------------------------------------------------
(***************************************************************************)
(* Start and Stop                                                          *)
(***************************************************************************)

\* Fault: Start relies on the server alone.
StartWithoutCache(ipFound) ==
    /\ phase = "down"
    /\ options.enabled
    /\ instanceIP' = (options.instanceIP \/ ipFound)
    /\ lastError' = ~instanceIP'
    /\ phase' = "starting"
    /\ pc' = [pc EXCEPT ![Main] = "begin"]
    /\ UNCHANGED <<options, remote, policy, stopped, loop, body, cacheFile, crashes>>

\* Start up to its call of Reload: localIP (which may find no address), then
\* loadCache, whose setPolicy also clears the error that localIP may have left.
Start(ipFound) ==
    /\ phase = "down"
    /\ options.enabled
    /\ instanceIP' = (options.instanceIP \/ ipFound)
    /\ policy' = IF cacheFile \in Valid THEN cacheFile ELSE Nil
    /\ lastError' = (cacheFile \notin Valid /\ ~instanceIP')
    /\ phase' = "starting"
    /\ pc' = [pc EXCEPT ![Main] = "begin"]
    /\ UNCHANGED <<options, remote, stopped, loop, body, cacheFile, crashes>>

\* Without a URL, Start returns at once.
StartDisabled ==
    /\ phase = "down"
    /\ ~options.enabled
    /\ phase' = "running"
    /\ UNCHANGED <<options, remote, policy, lastError, stopped, loop, pc, body,
                   cacheFile, instanceIP, crashes>>

\* Stop, from the shutdown hook of a running process.
Stop ==
    /\ phase = "running"
    /\ ~stopped
    /\ stopped' = TRUE
    /\ UNCHANGED <<options, remote, phase, policy, lastError, loop, pc, body,
                   cacheFile, instanceIP, crashes>>

\* The ticker of refreshLoop.  When the ticker and the stop channel are both
\* ready, select takes either, so a stopped loop may still reload.
Tick ==
    /\ loop = "live"
    /\ pc[Main] = "idle"
    /\ pc' = [pc EXCEPT ![Main] = "begin"]
    /\ UNCHANGED <<options, remote, phase, policy, lastError, stopped, loop, body,
                   cacheFile, instanceIP, crashes>>

LoopExit ==
    /\ loop = "live"
    /\ pc[Main] = "idle"
    /\ stopped
    /\ loop' = "exited"
    /\ UNCHANGED <<options, remote, phase, policy, lastError, stopped, pc, body,
                   cacheFile, instanceIP, crashes>>

\* The management server is started after Start has returned.
HandlerReload(h) ==
    /\ phase = "running"
    /\ pc[h] = "idle"
    /\ pc' = [pc EXCEPT ![h] = "begin"]
    /\ UNCHANGED <<options, remote, phase, policy, lastError, stopped, loop, body,
                   cacheFile, instanceIP, crashes>>

-----------------------------------------------------------------------------
(***************************************************************************)
(* Reload, by caller r                                                     *)
(***************************************************************************)

\* Reload returns; the first return of Main is inside Start, which then
\* spawns refreshLoop if there is a refresh interval.
Return(r) ==
    /\ pc' = [pc EXCEPT ![r] = "idle"]
    /\ body' = [body EXCEPT ![r] = Nil]
    /\ IF r = Main /\ phase = "starting"
         THEN /\ phase' = "running"
              /\ loop' = IF options.refreshInterval THEN "live" ELSE "none"
         ELSE UNCHANGED <<phase, loop>>

Goes(r, to) ==
    /\ pc' = [pc EXCEPT ![r] = to]
    /\ UNCHANGED <<phase, loop>>

\* The checks before the request.
ReloadBegin(r) ==
    /\ pc[r] = "begin"
    /\ \/ /\ ~options.enabled
          /\ Return(r)
          /\ UNCHANGED lastError
       \/ /\ options.enabled
          /\ ~(options.appName /\ instanceIP)
          /\ lastError' = TRUE
          /\ Return(r)
       \/ /\ options.enabled /\ options.appName /\ instanceIP
          /\ Goes(r, "fetch")
          /\ UNCHANGED <<body, lastError>>
    /\ UNCHANGED <<options, remote, policy, stopped, cacheFile, instanceIP, crashes>>

\* The server answers with what it publishes at that moment.
FetchOk(r) ==
    /\ pc[r] = "fetch"
    /\ body' = [body EXCEPT ![r] = remote]
    /\ Goes(r, "parse")
    /\ UNCHANGED <<options, remote, policy, lastError, stopped, cacheFile, instanceIP, crashes>>

\* Fault: a failed fetch falls back to the cache file at any time.
FetchFailedLoadsCache(r) ==
    /\ pc[r] = "fetch"
    /\ lastError' = TRUE
    /\ policy' = IF cacheFile \in Valid THEN cacheFile ELSE policy
    /\ Return(r)
    /\ UNCHANGED <<options, remote, stopped, cacheFile, instanceIP, crashes>>

\* Timeout, refused connection or a status outside 2xx.
FetchFailed(r) ==
    /\ pc[r] = "fetch"
    /\ lastError' = TRUE
    /\ Return(r)
    /\ UNCHANGED <<options, remote, policy, stopped, cacheFile, instanceIP, crashes>>

\* Fault: a body that does not parse is still written to the cache.
InstallOrSave(r) ==
    /\ pc[r] = "parse"
    /\ policy' = IF body[r] \in Valid THEN body[r] ELSE policy
    /\ lastError' = (body[r] \notin Valid)
    /\ Goes(r, "save")
    /\ UNCHANGED <<options, remote, stopped, body, cacheFile, instanceIP, crashes>>

\* Fault: the cache is written, but the policy in force stays when there is one.
InstallOnce(r) ==
    /\ pc[r] = "parse"
    /\ \/ /\ body[r] \in Valid
          /\ policy' = IF policy = Nil THEN body[r] ELSE policy
          /\ lastError' = FALSE
          /\ Goes(r, "save")
          /\ UNCHANGED body
       \/ /\ body[r] \notin Valid
          /\ lastError' = TRUE
          /\ Return(r)
          /\ UNCHANGED policy
    /\ UNCHANGED <<options, remote, stopped, cacheFile, instanceIP, crashes>>

\* Parse, then setPolicy or setError.
Install(r) ==
    /\ pc[r] = "parse"
    /\ \/ /\ body[r] \in Valid
          /\ policy' = body[r]
          /\ lastError' = FALSE
          /\ Goes(r, "save")
          /\ UNCHANGED body
       \/ /\ body[r] \notin Valid
          /\ lastError' = TRUE
          /\ Return(r)
          /\ UNCHANGED policy
    /\ UNCHANGED <<options, remote, stopped, cacheFile, instanceIP, crashes>>

\* saveCache up to the closed temporary file, which has a name of its own.
\* A failure is only logged.
Save(r) ==
    /\ pc[r] = "save"
    /\ \/ Goes(r, "rename") /\ UNCHANGED body
       \/ Return(r)
    /\ UNCHANGED <<options, remote, policy, lastError, stopped, cacheFile, instanceIP, crashes>>

\* os.Rename replaces the cache file in one step.
Rename(r) ==
    /\ pc[r] = "rename"
    /\ cacheFile' \in {body[r], cacheFile}
    /\ Return(r)
    /\ UNCHANGED <<options, remote, policy, lastError, stopped, instanceIP, crashes>>

Reload(r) ==
    \/ ReloadBegin(r)
    \/ FetchOk(r)
    \/ FetchFailed(r)
    \/ Install(r)
    \/ Save(r)
    \/ Rename(r)

-----------------------------------------------------------------------------
(***************************************************************************)
(* The environment                                                         *)
(***************************************************************************)

Publish ==
    /\ remote < MaxVersion
    /\ remote' = remote + 1
    /\ UNCHANGED <<options, phase, policy, lastError, stopped, loop, pc, body,
                   cacheFile, instanceIP, crashes>>

\* The process dies, wherever its goroutines are; the file system survives.
Crash ==
    /\ phase # "down"
    /\ crashes < MaxCrash
    /\ crashes' = crashes + 1
    /\ phase' = "down"
    /\ policy' = Nil
    /\ lastError' = FALSE
    /\ stopped' = FALSE
    /\ loop' = "none"
    /\ pc' = [r \in Reloader |-> "idle"]
    /\ body' = [r \in Reloader |-> Nil]
    /\ instanceIP' = FALSE
    /\ UNCHANGED <<options, remote, cacheFile>>

Next ==
    \/ \E ipFound \in BOOLEAN : Start(ipFound)
    \/ StartDisabled
    \/ Stop
    \/ Tick
    \/ LoopExit
    \/ \E h \in Handler : HandlerReload(h)
    \/ \E r \in Reloader : Reload(r)
    \/ Publish
    \/ Crash

Spec == Init /\ [][Next]_vars

\* The ticker fires and the loop's goroutine runs (its fetch has a timeout);
\* the server is not unreachable for ever, so a loop that keeps asking is
\* answered infinitely often.  Nothing is assumed about the handlers.
Fairness ==
    /\ WF_vars(Tick)
    /\ WF_vars(Reload(Main))
    /\ SF_vars(FetchOk(Main))

FairSpec == Spec /\ Fairness

-----------------------------------------------------------------------------
(***************************************************************************)
(* Properties                                                              *)
(***************************************************************************)

\* A node that has once saved a policy never serves without one again: after
\* any crash, and with the server down, a running manager whose cache file
\* holds a policy has a policy in memory.  With none, Evaluate allows all
\* (manager.go:146), so losing it here would silently open the sandbox.
NeverOpenWithCache ==
    options.enabled /\ phase = "running" /\ cacheFile \in Valid => policy # Nil

\* The cache file only ever receives bodies that Parse accepted, whatever the
\* server sends and whenever the process dies (manager.go:127-133, 250-273).
CacheOnlyGetsParsedBodies ==
    [][cacheFile' # cacheFile => cacheFile' \in Valid]_vars

\* Without overlapping reloads, a live process never goes back to an older
\* policy: not on a failed fetch, not on a failed save, not in Start, where
\* the cached policy comes first and the server's replaces it.
NoRollback ==
    [][phase' # "down" /\ policy' # policy => policy' > policy]_vars

\* Without overlapping reloads, the cache file is never ahead of memory, so
\* a failed fetch has nothing newer to fall back to (readme.md:57).
CacheNotAheadOfMemory ==
    phase = "running" /\ options.enabled /\ cacheFile \in Valid => policy >= cacheFile

\* Overlapping reloads may install an older policy over a newer one, but not
\* for long: while the refresh loop lives, the policy in force ends up being
\* the one the server publishes, unless that one does not parse.
RefreshConverges ==
    <>[](loop = "live" /\ ~stopped /\ options.appName /\ instanceIP)
        => <>[](remote \in Malformed \/ policy = remote)
=============================================================================
