------------------------------ MODULE CertStore ------------------------------
(***************************************************************************)
(* The certificate store of the MITM proxy (pkg/tls/mitm/ca.go).  TLS      *)
(* handshakes call GetCertificate, which signs a leaf for the host with    *)
(* the primary CA and caches it; one refresher calls FetchAndReload, which *)
(* replaces the CAs and clears the leaf cache; /ca.crt hands out the       *)
(* bundle of active CAs.  The RWMutex protects the two CA pointers only:   *)
(* the leaf cache is a sync.Map that handshakes read and write without it. *)
(*                                                                         *)
(* server.go starts the proxies only after a first load; the store itself  *)
(* does not rely on it, and neither does this module.                      *)
(*                                                                         *)
(* CAs are numbered; the vault's payload n is the pair (n, n + 1), the     *)
(* signing CA and the one it will rotate to.                               *)
(***************************************************************************)
EXTENDS Naturals, Sequences

CONSTANTS
    Host,       \* server names
    Worker,     \* concurrent TLS handshakes
    Client,     \* containers that download /ca.crt
    MaxPayload  \* bound on the payloads that the vault publishes

ASSUME PayloadAssumption == MaxPayload \in Nat \ {0}

VARIABLES
    vault,      \* the payload that the vault serves now
    primary,    \* cs.primary, 0 for nil
    secondary,  \* cs.secondary, 0 for nil
    leafCache,  \* cs.leafCache: host -> the leaf's issuer and age, or NoLeaf
    wlocked,    \* the refresher holds cs.mu for writing
    refreshPc,  \* where FetchAndReload is
    certs,      \* the CAs that it parsed out of the payload
    toClear,    \* hosts that Range has not visited yet
    workerPc,   \* where each GetCertificate call is
    workerHost, \* its server name
    signer,     \* the CA that it took for signing
    bundle,     \* what each client downloaded last
    reloads,    \* history: the CA sets that Reload was called with
    late        \* history: hosts whose leaf was stored after its signer was replaced

vars == <<vault, primary, secondary, leafCache, wlocked, refreshPc, certs, toClear,
          workerPc, workerHost, signer, bundle, reloads, late>>

CA == 1 .. MaxPayload + 1
NilCA == 0
NoLeaf == [issuer |-> NilCA, age |-> "none"]
\* "old" means that less than one hour of validity is left.
Leaf == [issuer : CA, age : {"fresh", "old"}]

TypeOK ==
    /\ vault \in 1 .. MaxPayload
    /\ primary \in CA \cup {NilCA}
    /\ secondary \in CA \cup {NilCA}
    /\ leafCache \in [Host -> Leaf \cup {NoLeaf}]
    /\ wlocked \in BOOLEAN
    /\ refreshPc \in {"idle", "fetched", "secondary", "clear"}
    /\ certs \in Seq(CA) /\ Len(certs) <= 2
    /\ toClear \subseteq Host
    /\ workerPc \in [Worker -> {"idle", "generate", "store"}]
    /\ workerHost \in [Worker -> Host]
    /\ signer \in [Worker -> CA \cup {NilCA}]
    /\ bundle \in [Client -> SUBSET CA]
    /\ reloads \subseteq SUBSET CA
    /\ late \subseteq Host

Init ==
    /\ vault = 1
    /\ primary = NilCA
    /\ secondary = NilCA
    /\ leafCache = [h \in Host |-> NoLeaf]
    /\ wlocked = FALSE
    /\ refreshPc = "idle"
    /\ certs = <<>>
    /\ toClear = {}
    /\ workerPc = [w \in Worker |-> "idle"]
    /\ workerHost \in [Worker -> Host]
    /\ signer = [w \in Worker |-> NilCA]
    /\ bundle = [c \in Client |-> {}]
    /\ reloads = {}
    /\ late = {}

-----------------------------------------------------------------------------
(***************************************************************************)
(* FetchAndReload.  A failed request, a bad status, a payload that does    *)
(* not decode or whose lists differ in length change nothing, and are no   *)
(* step here; pairs that do not parse are skipped, so any subset of the    *)
(* payload may be left.                                                    *)
(***************************************************************************)

otherVars == <<vault, workerPc, workerHost, signer, bundle>>

\* The pairs of payload n that parse, in the payload's order.
ParsedCAs(n) == {<<>>, <<n>>, <<n + 1>>, <<n, n + 1>>}

Fetch ==
    /\ refreshPc = "idle"
    /\ refreshPc' = "fetched"
    /\ certs' \in ParsedCAs(vault)
    /\ UNCHANGED <<primary, secondary, leafCache, wlocked, toClear, reloads, late, otherVars>>

\* No valid CA: an error, and the old CAs stay.
FetchEmpty ==
    /\ refreshPc = "fetched"
    /\ certs = <<>>
    /\ refreshPc' = "idle"
    /\ UNCHANGED <<primary, secondary, leafCache, wlocked, certs, toClear, reloads, late,
                   otherVars>>

\* Fault: Reload does not take the mutex.
ReloadPrimaryUnlocked ==
    /\ refreshPc = "fetched"
    /\ certs # <<>>
    /\ primary' = certs[1]
    /\ reloads' = reloads \cup {{certs[i] : i \in DOMAIN certs}}
    /\ refreshPc' = "secondary"
    /\ UNCHANGED <<secondary, leafCache, wlocked, certs, toClear, late, otherVars>>

\* Reload takes the mutex, then sets one pointer after the other.
ReloadPrimary ==
    /\ refreshPc = "fetched"
    /\ certs # <<>>
    /\ wlocked' = TRUE
    /\ primary' = certs[1]
    /\ reloads' = reloads \cup {{certs[i] : i \in DOMAIN certs}}
    /\ refreshPc' = "secondary"
    /\ UNCHANGED <<secondary, leafCache, certs, toClear, late, otherVars>>

ReloadSecondary ==
    /\ refreshPc = "secondary"
    /\ secondary' = IF Len(certs) > 1 THEN certs[2] ELSE NilCA
    /\ toClear' = Host
    /\ refreshPc' = "clear"
    /\ UNCHANGED <<primary, leafCache, wlocked, certs, reloads, late, otherVars>>

\* leafCache.Range visits the hosts in any order, handshakes running beside it.
ReloadClear(h) ==
    /\ refreshPc = "clear"
    /\ h \in toClear
    /\ leafCache' = [leafCache EXCEPT ![h] = NoLeaf]
    /\ toClear' = toClear \ {h}
    /\ late' = late \ {h}
    /\ UNCHANGED <<primary, secondary, wlocked, refreshPc, certs, reloads, otherVars>>

\* Fault: Range stops half way, as if its callback had returned false.
ReloadUnlockEarly ==
    /\ refreshPc = "clear"
    /\ toClear # Host
    /\ wlocked' = FALSE
    /\ refreshPc' = "idle"
    /\ toClear' = {}
    /\ certs' = <<>>
    /\ UNCHANGED <<primary, secondary, leafCache, reloads, late, otherVars>>

ReloadUnlock ==
    /\ refreshPc = "clear"
    /\ toClear = {}
    /\ wlocked' = FALSE
    /\ refreshPc' = "idle"
    /\ certs' = <<>>
    /\ UNCHANGED <<primary, secondary, leafCache, toClear, reloads, late, otherVars>>

FetchAndReload ==
    \/ Fetch
    \/ FetchEmpty
    \/ ReloadPrimary
    \/ ReloadSecondary
    \/ \E h \in Host : ReloadClear(h)
    \/ ReloadUnlock

-----------------------------------------------------------------------------
(***************************************************************************)
(* GetCertificate, by handshake w.  A fresh cached leaf is returned as it  *)
(* is and changes nothing.                                                 *)
(***************************************************************************)

refresherVars == <<vault, primary, secondary, wlocked, refreshPc, certs, toClear,
                   bundle, reloads>>

CacheMiss(w, h) ==
    /\ workerPc[w] = "idle"
    /\ leafCache[h].age # "fresh"
    /\ workerPc' = [workerPc EXCEPT ![w] = "generate"]
    /\ workerHost' = [workerHost EXCEPT ![w] = h]
    /\ UNCHANGED <<leafCache, signer, late, refresherVars>>

\* generateLeafCert reads cs.primary under RLock.  The key and the signature
\* are made after RUnlock; without a CA, or if one of them fails, the
\* handshake gets an error.
Sign(w) ==
    /\ workerPc[w] = "generate"
    /\ ~wlocked
    /\ \/ /\ primary # NilCA
          /\ signer' = [signer EXCEPT ![w] = primary]
          /\ workerPc' = [workerPc EXCEPT ![w] = "store"]
       \/ /\ workerPc' = [workerPc EXCEPT ![w] = "idle"]
          /\ UNCHANGED signer
    /\ UNCHANGED <<leafCache, workerHost, late, refresherVars>>

\* leafCache.Store, whatever has become of the signing CA meanwhile.
Store(w) ==
    LET h == workerHost[w] IN
    /\ workerPc[w] = "store"
    /\ leafCache' = [leafCache EXCEPT ![h] = [issuer |-> signer[w], age |-> "fresh"]]
    /\ late' = IF signer[w] = primary THEN late \ {h} ELSE late \cup {h}
    /\ workerPc' = [workerPc EXCEPT ![w] = "idle"]
    /\ signer' = [signer EXCEPT ![w] = NilCA]
    /\ UNCHANGED <<workerHost, refresherVars>>

GetCertificate(w) ==
    \/ \E h \in Host : CacheMiss(w, h)
    \/ Sign(w)
    \/ Store(w)

-----------------------------------------------------------------------------
(***************************************************************************)
(* The environment: time, the vault, and clients that download /ca.crt     *)
(***************************************************************************)

Age(h) ==
    /\ leafCache[h].age = "fresh"
    /\ leafCache' = [leafCache EXCEPT ![h].age = "old"]
    /\ UNCHANGED <<workerPc, workerHost, signer, late, refresherVars>>

Rotate ==
    /\ vault < MaxPayload
    /\ vault' = vault + 1
    /\ UNCHANGED <<primary, secondary, leafCache, wlocked, refreshPc, certs, toClear,
                   workerPc, workerHost, signer, bundle, reloads, late>>

\* GetActiveCAPEM under RLock; without a primary the handler answers 503.
Download(c) ==
    /\ ~wlocked
    /\ primary # NilCA
    /\ bundle' = [bundle EXCEPT ![c] = {primary, secondary} \ {NilCA}]
    /\ UNCHANGED <<vault, primary, secondary, leafCache, wlocked, refreshPc, certs,
                   toClear, workerPc, workerHost, signer, reloads, late>>

Next ==
    \/ FetchAndReload
    \/ \E w \in Worker : GetCertificate(w)
    \/ \E h \in Host : Age(h)
    \/ Rotate
    \/ \E c \in Client : Download(c)

Spec == Init /\ [][Next]_vars

-----------------------------------------------------------------------------
(***************************************************************************)
(* Properties                                                              *)
(***************************************************************************)

\* Once a CA is loaded there is always one: no answer of the vault, however
\* broken, takes the signing CA away from running handshakes (ca.go:149-179).
CAStaysLoaded == [][primary # NilCA => primary' # NilCA]_vars

\* A downloaded trust bundle is exactly one payload's CAs: no client is ever
\* handed the new primary with the old secondary (ca.go:189-196, 205).
BundleIsOneReload == \A c \in Client : bundle[c] # {} => bundle[c] \in reloads

\* Outside a rotation, a cached leaf of a replaced CA can only come from a
\* handshake that signed before the rotation and stored after the host was
\* cleared; Range itself leaves none behind (ca.go:198-201).
StaleOnlyByLateStore ==
    refreshPc \in {"idle", "fetched"} =>
        \A h \in Host : leafCache[h] = NoLeaf \/ leafCache[h].issuer = primary \/ h \in late

\* ca.go:197: "Clear leaf cache on CA rotation".  After a rotation every
\* cached leaf is signed by the primary CA.
LeafCacheClearedOnRotation ==
    refreshPc = "idle" =>
        \A h \in Host : leafCache[h] = NoLeaf \/ leafCache[h].issuer = primary
=============================================================================
