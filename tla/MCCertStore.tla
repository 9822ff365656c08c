----------------------------- MODULE MCCertStore -----------------------------
(* What an intercepted connection gets from the vault, in two parts that   *)
(* share nothing: certificates and credentials.  A behaviour runs one of   *)
(* them (part).                                                            *)
EXTENDS CertStore, TLC

CONSTANTS h1, h2, w1, w2, c1, r1, r2,
          Request, Token, User, Secret, NoToken, NoUser, NoCred, Headers, SourceLists,
          TTL, IdTTLs, Timeout, MaxTime, MaxChange

VARIABLES part, now, sources, identity, credential, idUntil, credUntil, idCache,
          credCache, call, changes

credVars == <<now, sources, identity, credential, idUntil, credUntil, idCache,
              credCache, call, changes>>

Cred == INSTANCE Credentials

ASSUME CredAssumption == Cred!CachesAssumption

MCHost == {h1, h2}
MCOneHost == {h1}
MCWorker == {w1, w2}
MCOneWorker == {w1}
MCClient == {c1}
MCRequest == {r1, r2}
MCSymmetry ==
    Permutations(MCHost) \cup Permutations(MCWorker) \cup Permutations(MCRequest)

\* A token, and a token without the prefix beside a trusted header.
MCHeaders == {[token |-> "t1", prefixed |-> TRUE, user |-> "none"],
              [token |-> "t1", prefixed |-> FALSE, user |-> "al"]}
MCSourceLists == {<<"oauth2_token", "trusted_header">>, <<"trusted_header">>}

MCInit ==
    /\ Init /\ Cred!Init
    /\ sources = <<"oauth2_token", "trusted_header">>
    /\ identity["t1"] = "al" /\ credential["al"] = "s1" /\ credential["none"] = "none"
    /\ \/ part = "certificates"
       \/ part = "credentials" /\ \A v, w \in Worker : workerHost[v] = workerHost[w]

MCNext ==
    \/ part = "certificates" /\ Next /\ UNCHANGED <<part, credVars>>
    \/ part = "credentials" /\ Cred!Next /\ UNCHANGED <<part, vars>>

MCSpec == MCInit /\ [][MCNext]_<<part, vars, credVars>>

\* A request is sent on with a credential that its own headers lead to and
\* that the caches of the two resolvers have not kept for too long.
CredentialIsCurrent == Cred!CredentialIsCurrent
=============================================================================
