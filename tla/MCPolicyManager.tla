--------------------------- MODULE MCPolicyManager ---------------------------
(* The policy manager with overlapping reloads and, beside it, the runtime *)
(* configuration manager.  They share nothing, so a behaviour runs one of  *)
(* them (part) and leaves the other where it is created.                   *)
EXTENDS PolicyManager

CONSTANTS h1, h2, RcHandler, MaxDoc, BadDocs, MaxRcCrash, RcOptions

VARIABLES part, rcOptions, vaultDoc, rcPhase, cfg, source, rcError, rcStop, rcLoop,
          rcPc, rcBody, rcFile, rcCrashes

rcVars == <<rcOptions, vaultDoc, rcPhase, cfg, source, rcError, rcStop, rcLoop,
            rcPc, rcBody, rcFile, rcCrashes>>

Rc == INSTANCE RuntimeConfig

MCHandlers == {h1, h2}
MCOneHandler == {h1}
\* One version in the middle that does not parse.
MCMalformed == {2}
MCOptions ==
    {o \in [enabled : BOOLEAN, appName : BOOLEAN, instanceIP : BOOLEAN,
            refreshInterval : BOOLEAN] : o.instanceIP => o.enabled /\ o.appName}
MCRcOptions ==
    [url : BOOLEAN, agentID : BOOLEAN, instanceIP : BOOLEAN, refreshInterval : BOOLEAN]

AllSet == [enabled |-> TRUE, appName |-> TRUE, instanceIP |-> TRUE, refreshInterval |-> TRUE]
RcAllSet == [url |-> TRUE, agentID |-> TRUE, instanceIP |-> TRUE, refreshInterval |-> TRUE]

MCInit ==
    /\ Init /\ Rc!Init
    /\ \/ part = "policy" /\ rcOptions = RcAllSet /\ vaultDoc = 1 /\ rcFile = 0
       \/ part = "runtime" /\ options = AllSet /\ remote = 1 /\ cacheFile = Nil

MCNext ==
    \/ part = "policy" /\ Next /\ UNCHANGED <<part, rcVars>>
    \/ part = "runtime" /\ Rc!Next /\ UNCHANGED <<part, vars>>

MCSpec == MCInit /\ [][MCNext]_<<part, vars, rcVars>> /\ Fairness

\* The runtime configuration manager follows the policy manager's protocol
\* (runtimeconfig/manager.go).
SameProtocol == Rc!SameProtocol
=============================================================================
