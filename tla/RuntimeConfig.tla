---------------------------- MODULE RuntimeConfig ----------------------------
(***************************************************************************)
(* The runtime configuration manager (cmd/proxy/runtimeconfig/manager.go): *)
(* it fetches the hosts to intercept and the sources of user identities.   *)
(* Its code repeats the policy manager's with other preconditions: Reload  *)
(* needs an agent id, and an instance address that localIP does not find   *)
(* is only reported.  SameProtocol shows that it is the same protocol, so  *)
(* what is proved of PolicyManager holds here too.                         *)
(*                                                                         *)
(* A version 1, 2, ... stands for the body the vault returns; json.Unmarshal *)
(* refuses the ones in BadDocs.                                            *)
(***************************************************************************)
EXTENDS Naturals

CONSTANTS
    RcHandler,      \* concurrent POST /credential-runtime/reload requests
    MaxDoc,         \* bound on what the vault publishes
    BadDocs,        \* versions that do not parse
    MaxRcCrash,     \* bound on crashes
    RcOptions       \* option records that are explored

VARIABLES
    rcOptions,      \* whether URL, AgentID, InstanceIP and RefreshInterval are set
    vaultDoc,       \* the version that the vault returns now
    rcPhase,        \* "down", "starting" (inside Start) or "running"
    cfg,            \* m.cfg, 0 for nil
    source,         \* m.source
    rcError,        \* what m.lastError is about
    rcStop,         \* m.stop is closed
    rcLoop,         \* the refreshLoop goroutine
    rcPc,           \* where each Reload call is
    rcBody,         \* the body that each Reload call has fetched
    rcFile,         \* what the cache file holds, 0 when it is missing
    rcCrashes

rcVars == <<rcOptions, vaultDoc, rcPhase, cfg, source, rcError, rcStop, rcLoop,
            rcPc, rcBody, rcFile, rcCrashes>>

\* Start calls Reload before it spawns refreshLoop, so one caller is enough for both.
RcMain == "main"
RcReloader == RcHandler \cup {RcMain}
Docs == (1 .. MaxDoc) \ BadDocs

\* NewManager; a cache file of an earlier life may be damaged.
Init ==
    /\ rcPhase = "down"
    /\ cfg = 0
    /\ source = ""
    /\ rcError = ""
    /\ rcStop = FALSE
    /\ rcLoop = "none"
    /\ rcPc = [r \in RcReloader |-> "idle"]
    /\ rcBody = [r \in RcReloader |-> 0]
    /\ rcOptions \in RcOptions
    /\ vaultDoc \in 1 .. MaxDoc
    /\ rcFile \in BadDocs \cup {0}
    /\ rcCrashes = 0

setConfig(doc, from) == cfg' = doc /\ source' = from /\ rcError' = ""

setError(about) == rcError' = about /\ UNCHANGED <<cfg, source>>

\* Start up to its call of Reload.  A cached configuration clears the error
\* that a failed localIP has left.
Start(ipFound) ==
    /\ rcPhase = "down"
    /\ rcOptions.url
    /\ rcPhase' = "starting"
    /\ IF rcFile \in Docs THEN setConfig(rcFile, "cache")
       ELSE setError(IF rcOptions.instanceIP \/ ipFound THEN "" ELSE "ip")
    /\ rcPc' = [rcPc EXCEPT ![RcMain] = "begin"]
    /\ UNCHANGED <<rcOptions, vaultDoc, rcStop, rcLoop, rcBody, rcFile, rcCrashes>>

StartDisabled ==
    /\ rcPhase = "down"
    /\ ~rcOptions.url
    /\ rcPhase' = "running"
    /\ UNCHANGED <<rcOptions, vaultDoc, cfg, source, rcError, rcStop, rcLoop, rcPc,
                   rcBody, rcFile, rcCrashes>>

Stop ==
    /\ rcPhase = "running"
    /\ ~rcStop
    /\ rcStop' = TRUE
    /\ UNCHANGED <<rcOptions, vaultDoc, rcPhase, cfg, source, rcError, rcLoop, rcPc,
                   rcBody, rcFile, rcCrashes>>

\* refreshLoop's ticker, or one request of the reload handler.
Call(r) ==
    /\ IF r = RcMain THEN rcLoop = "live" ELSE rcPhase = "running"
    /\ rcPc[r] = "idle"
    /\ rcPc' = [rcPc EXCEPT ![r] = "begin"]
    /\ UNCHANGED <<rcOptions, vaultDoc, rcPhase, cfg, source, rcError, rcStop, rcLoop,
                   rcBody, rcFile, rcCrashes>>

LoopExit ==
    /\ rcLoop = "live" /\ rcPc[RcMain] = "idle" /\ rcStop
    /\ rcLoop' = "exited"
    /\ UNCHANGED <<rcOptions, vaultDoc, rcPhase, cfg, source, rcError, rcStop, rcPc,
                   rcBody, rcFile, rcCrashes>>

-----------------------------------------------------------------------------
\* Reload returns, the first time into Start.
Return(r) ==
    /\ rcPc' = [rcPc EXCEPT ![r] = "idle"]
    /\ rcBody' = [rcBody EXCEPT ![r] = 0]
    /\ IF r = RcMain /\ rcPhase = "starting"
         THEN /\ rcPhase' = "running"
              /\ rcLoop' = IF rcOptions.refreshInterval THEN "live" ELSE "none"
         ELSE UNCHANGED <<rcPhase, rcLoop>>

Goes(r, to) ==
    /\ rcPc' = [rcPc EXCEPT ![r] = to]
    /\ UNCHANGED <<rcPhase, rcLoop>>

\* Reload without a URL, and without an agent id.
ReloadRefused(r) ==
    /\ rcPc[r] = "begin"
    /\ ~(rcOptions.url /\ rcOptions.agentID)
    /\ setError(IF rcOptions.url THEN "reload" ELSE rcError)
    /\ Return(r)
    /\ UNCHANGED <<rcOptions, vaultDoc, rcStop, rcFile, rcCrashes>>

ReloadBegin(r) ==
    /\ rcPc[r] = "begin"
    /\ rcOptions.url /\ rcOptions.agentID
    /\ Goes(r, "fetch")
    /\ UNCHANGED <<rcOptions, vaultDoc, cfg, source, rcError, rcStop, rcBody, rcFile, rcCrashes>>

\* The vault answers; or it cannot be reached, or answers outside 2xx.
fetch(r) ==
    /\ rcPc[r] = "fetch"
    /\ \/ /\ rcBody' = [rcBody EXCEPT ![r] = vaultDoc]
          /\ Goes(r, "parse")
          /\ UNCHANGED <<cfg, source, rcError>>
       \/ setError("reload") /\ Return(r)
    /\ UNCHANGED <<rcOptions, vaultDoc, rcStop, rcFile, rcCrashes>>

\* Fault: an unreadable document empties the configuration.
InstallOrReset(r) ==
    /\ rcPc[r] = "parse"
    /\ IF rcBody[r] \in Docs
         THEN setConfig(rcBody[r], "remote") /\ Goes(r, "save") /\ UNCHANGED rcBody
         ELSE cfg' = 0 /\ rcError' = "reload" /\ UNCHANGED source /\ Return(r)
    /\ UNCHANGED <<rcOptions, vaultDoc, rcStop, rcFile, rcCrashes>>

\* parse, then setConfig or setError.
Install(r) ==
    /\ rcPc[r] = "parse"
    /\ IF rcBody[r] \in Docs
         THEN setConfig(rcBody[r], "remote") /\ Goes(r, "save") /\ UNCHANGED rcBody
         ELSE setError("reload") /\ Return(r)
    /\ UNCHANGED <<rcOptions, vaultDoc, rcStop, rcFile, rcCrashes>>

\* saveCache: a temporary file, then a rename; a failure of either is logged.
saveCache(r) ==
    /\ \/ rcPc[r] = "save" /\ Goes(r, "rename") /\ UNCHANGED <<rcBody, rcFile>>
       \/ rcPc[r] = "rename" /\ rcFile' = rcBody[r] /\ Return(r)
       \/ rcPc[r] \in {"save", "rename"} /\ Return(r) /\ UNCHANGED rcFile
    /\ UNCHANGED <<rcOptions, vaultDoc, cfg, source, rcError, rcStop, rcCrashes>>

Reload(r) ==
    ReloadRefused(r) \/ ReloadBegin(r) \/ fetch(r) \/ Install(r) \/ saveCache(r)

-----------------------------------------------------------------------------
\* The vault gets a newer document.
Publish ==
    /\ vaultDoc < MaxDoc
    /\ vaultDoc' = vaultDoc + 1
    /\ UNCHANGED <<rcOptions, rcPhase, cfg, source, rcError, rcStop, rcLoop, rcPc,
                   rcBody, rcFile, rcCrashes>>

\* The process dies; the next one starts from the cache file.
Crash ==
    /\ rcPhase # "down"
    /\ rcCrashes < MaxRcCrash
    /\ rcCrashes' = rcCrashes + 1
    /\ rcPhase' = "down"
    /\ cfg' = 0 /\ source' = "" /\ rcError' = ""
    /\ rcStop' = FALSE /\ rcLoop' = "none"
    /\ rcPc' = [r \in RcReloader |-> "idle"]
    /\ rcBody' = [r \in RcReloader |-> 0]
    /\ UNCHANGED <<rcOptions, vaultDoc, rcFile>>

Next ==
    \/ \E ipFound \in BOOLEAN : Start(ipFound)
    \/ StartDisabled \/ Stop \/ LoopExit \/ Publish \/ Crash
    \/ \E r \in RcReloader : Call(r) \/ Reload(r)

Spec == Init /\ [][Next]_rcVars

-----------------------------------------------------------------------------
\* The refinement mapping: an agent id takes the place of the application
\* name, the address is never missing, and only Reload's errors count.
PmOptions(o) ==
    [enabled |-> o.url, appName |-> o.agentID, instanceIP |-> TRUE,
     refreshInterval |-> o.refreshInterval]

PM == INSTANCE PolicyManager
        WITH Handler <- RcHandler, MaxVersion <- MaxDoc, Malformed <- BadDocs,
             MaxCrash <- MaxRcCrash, Options <- {PmOptions(o) : o \in RcOptions},
             options <- PmOptions(rcOptions), remote <- vaultDoc, phase <- rcPhase,
             policy <- cfg, lastError <- (rcError = "reload"), stopped <- rcStop,
             loop <- rcLoop, pc <- rcPc, body <- rcBody, cacheFile <- rcFile,
             instanceIP <- (rcPhase # "down" /\ rcOptions.url), crashes <- rcCrashes

\* Every behaviour of the runtime manager (manager.go:98-152, 261-318) is one
\* of the policy manager's protocol: in particular a node that has once saved
\* a configuration never runs without one, a body that does not parse reaches
\* neither the memory nor the cache, and no crash between the steps of Reload
\* leaves the two in a state the protocol does not have.
SameProtocol == PM!Spec
=============================================================================
