--------------------------- MODULE CertStoreProofs ---------------------------
(***************************************************************************)
(* Proofs about the certificate store, for any numbers of hosts,           *)
(* handshakes, clients and rotations: a downloaded bundle is one payload's *)
(* CAs, a loaded CA is never lost, and the only leaf of a replaced CA that *)
(* survives a rotation is one stored late.  Then about the resolvers: an   *)
(* injected credential is of the request's user and not too old.           *)
(***************************************************************************)
EXTENDS MCCertStore, LeastElement, TLAPS

-----------------------------------------------------------------------------
(***************************************************************************)
(* The inductive invariant                                                 *)
(***************************************************************************)

\* The write lock is held exactly while Reload replaces and clears.
LockedInReload == wlocked <=> refreshPc \in {"secondary", "clear"}

\* The CAs in force, as GetActiveCAPEM would see them.
Active == {primary, secondary} \ {NilCA}

\* Except between the two assignments of Reload, the CAs in force are those
\* of one Reload call; there, they are about to become so.
ActiveIsOneReload ==
    /\ refreshPc # "secondary" /\ primary # NilCA => Active \in reloads
    /\ refreshPc = "secondary" => /\ certs # <<>>
                                  /\ primary = certs[1]
                                  /\ {certs[i] : i \in DOMAIN certs} \in reloads

\* A cached leaf is absent, current, or known to have been stored late.
Accounted(h) == leafCache[h] = NoLeaf \/ leafCache[h].issuer = primary \/ h \in late

\* Outside Reload every host is accounted for; while Reload clears, every
\* host that Range has visited.
ClearedIsAccounted ==
    /\ refreshPc \in {"idle", "fetched"} => \A h \in Host : Accounted(h)
    /\ refreshPc = "clear" => \A h \in Host \ toClear : Accounted(h)

\* A handshake that is about to store holds a CA.
StoresSigned == \A w \in Worker : workerPc[w] = "store" => signer[w] \in CA

Inv ==
    /\ TypeOK
    /\ LockedInReload
    /\ ActiveIsOneReload
    /\ ClearedIsAccounted
    /\ StoresSigned
    /\ BundleIsOneReload

-----------------------------------------------------------------------------
(***************************************************************************)
(* Lemmas                                                                  *)
(***************************************************************************)

\* NewCertStore: nothing is loaded, cached or downloaded.
LEMMA InitInv == Init => Inv
<1> SUFFICES ASSUME Init PROVE Inv
  OBVIOUS
<1>1. TypeOK
  <2>1. vault \in 1 .. MaxPayload
    BY PayloadAssumption DEF Init
  <2>2. certs \in Seq(CA) /\ Len(certs) <= 2
    BY DEF Init
  <2>3. leafCache \in [Host -> Leaf \cup {NoLeaf}]
    BY DEF Init
  <2> QED BY <2>1, <2>2, <2>3 DEF Init, TypeOK
<1>2. LockedInReload /\ ActiveIsOneReload /\ ClearedIsAccounted
  BY DEF Init, LockedInReload, ActiveIsOneReload, ClearedIsAccounted, Accounted
<1>3. StoresSigned /\ BundleIsOneReload
  BY DEF Init, StoresSigned, BundleIsOneReload
<1> QED BY <1>1, <1>2, <1>3 DEF Inv

\* What is left of a payload is a list of at most two CAs.
LEMMA ParsedType ==
    ASSUME vault \in 1 .. MaxPayload, NEW s \in ParsedCAs(vault)
    PROVE  s \in Seq(CA) /\ Len(s) <= 2
<1>1. vault \in CA /\ vault + 1 \in CA
  BY PayloadAssumption DEF CA
<1>2. CASE s = <<>>
  BY <1>2
<1>3. ASSUME NEW x \in CA, s = <<x>> PROVE s \in Seq(CA) /\ Len(s) <= 2
  BY <1>3
<1>4. CASE s = <<vault, vault + 1>>
  BY <1>1, <1>4
<1> QED BY <1>1, <1>2, <1>3, <1>4 DEF ParsedCAs

\* Elements of the parsed list, by position.
LEMMA CertsAre ==
    ASSUME TypeOK, certs # <<>>
    PROVE  /\ certs[1] \in CA /\ certs[1] # NilCA
           /\ Len(certs) > 1 => certs[2] \in CA /\ certs[2] # NilCA
           /\ {certs[i] : i \in DOMAIN certs} =
                 IF Len(certs) > 1 THEN {certs[1], certs[2]} ELSE {certs[1]}
           /\ {certs[i] : i \in DOMAIN certs} \in SUBSET CA
<1>1. Len(certs) \in {1, 2} /\ DOMAIN certs = 1 .. Len(certs)
  <2>1. certs \in Seq(CA) /\ Len(certs) <= 2
    BY DEF TypeOK
  <2>2. Len(certs) \in Nat /\ DOMAIN certs = 1 .. Len(certs)
    BY <2>1
  <2>3. Len(certs) # 0
    BY <2>1
  <2> QED BY <2>1, <2>2, <2>3
<1>2. \A i \in DOMAIN certs : certs[i] \in CA
  BY DEF TypeOK
<1>3. NilCA \notin CA
  BY DEF CA, NilCA
<1>4. CASE Len(certs) = 1
  <2>1. DOMAIN certs = {1}
    BY <1>1, <1>4
  <2> QED BY <2>1, <1>2, <1>3, <1>4
<1>5. CASE Len(certs) = 2
  <2>1. DOMAIN certs = {1, 2}
    BY <1>1, <1>5
  <2> QED BY <2>1, <1>2, <1>3, <1>5
<1> QED BY <1>1, <1>4, <1>5

LEMMA NextInv == Inv /\ [Next]_vars => Inv'
<1> SUFFICES ASSUME Inv, [Next]_vars PROVE Inv'
  OBVIOUS
<1> USE DEF Inv
<1>n. NilCA \notin CA
  BY DEF CA, NilCA
<1>1. CASE Fetch
  <2>0. certs' \in Seq(CA) /\ Len(certs') <= 2
    BY <1>1, ParsedType DEF Fetch, TypeOK
  <2>1. TypeOK'
    BY <1>1, <2>0 DEF TypeOK, Fetch, otherVars
  <2>2. (LockedInReload /\ ActiveIsOneReload)'
    BY <1>1 DEF TypeOK, LockedInReload, ActiveIsOneReload, Active, Fetch, otherVars
  <2>3. ClearedIsAccounted'
    BY <1>1 DEF TypeOK, ClearedIsAccounted, Accounted, Fetch, otherVars
  <2>4. (StoresSigned /\ BundleIsOneReload)'
    BY <1>1 DEF TypeOK, StoresSigned, BundleIsOneReload, Fetch, otherVars
  <2> QED BY <2>1, <2>2, <2>3, <2>4
<1>2. CASE FetchEmpty
  <2>1. TypeOK'
    BY <1>2 DEF TypeOK, FetchEmpty, otherVars
  <2>2. (LockedInReload /\ ActiveIsOneReload)'
    BY <1>2 DEF TypeOK, LockedInReload, ActiveIsOneReload, Active, FetchEmpty, otherVars
  <2>3. ClearedIsAccounted'
    BY <1>2 DEF TypeOK, ClearedIsAccounted, Accounted, FetchEmpty, otherVars
  <2>4. (StoresSigned /\ BundleIsOneReload)'
    BY <1>2 DEF TypeOK, StoresSigned, BundleIsOneReload, FetchEmpty, otherVars
  <2> QED BY <2>1, <2>2, <2>3, <2>4
<1>3. CASE ReloadPrimary
  <2>0. certs[1] \in CA /\ {certs[i] : i \in DOMAIN certs} \in SUBSET CA
    BY <1>3, CertsAre DEF ReloadPrimary
  <2>1. TypeOK'
    BY <1>3, <2>0 DEF TypeOK, ReloadPrimary, otherVars
  <2>2. (LockedInReload /\ ActiveIsOneReload)'
    BY <1>3, <2>0, <1>n DEF TypeOK, LockedInReload, ActiveIsOneReload, Active,
       ReloadPrimary, otherVars
  <2>3. ClearedIsAccounted'
    BY <1>3, <2>0, <1>n DEF TypeOK, ClearedIsAccounted, Accounted, ReloadPrimary, otherVars
  <2>4. (StoresSigned /\ BundleIsOneReload)'
    BY <1>3, <2>0, <1>n DEF TypeOK, StoresSigned, BundleIsOneReload, ReloadPrimary,
       otherVars
  <2> QED BY <2>1, <2>2, <2>3, <2>4
<1>4. CASE ReloadSecondary
  <2>0. /\ certs[1] \in CA /\ certs[1] # NilCA
        /\ Len(certs) > 1 => certs[2] \in CA /\ certs[2] # NilCA
        /\ {certs[i] : i \in DOMAIN certs} =
              IF Len(certs) > 1 THEN {certs[1], certs[2]} ELSE {certs[1]}
    BY <1>4, CertsAre DEF ReloadSecondary, ActiveIsOneReload
  <2>1. TypeOK'
    BY <1>4, <2>0 DEF TypeOK, ReloadSecondary, otherVars
  <2>2. (LockedInReload /\ ActiveIsOneReload)'
    <3>1. Active' = {certs[i] : i \in DOMAIN certs}
      BY <1>4, <2>0 DEF Active, ReloadSecondary, ActiveIsOneReload
    <3>2. Active' \in reloads'
      BY <1>4, <3>1 DEF ReloadSecondary, ActiveIsOneReload
    <3> QED BY <1>4, <3>2 DEF LockedInReload, ActiveIsOneReload, ReloadSecondary
  <2>3. ClearedIsAccounted'
    BY <1>4, <2>0, <1>n DEF TypeOK, ClearedIsAccounted, Accounted, ReloadSecondary,
       otherVars
  <2>4. (StoresSigned /\ BundleIsOneReload)'
    BY <1>4, <2>0, <1>n DEF TypeOK, StoresSigned, BundleIsOneReload, ReloadSecondary,
       otherVars
  <2> QED BY <2>1, <2>2, <2>3, <2>4
<1>5. ASSUME NEW h \in Host, ReloadClear(h) PROVE Inv'
  <2>1. TypeOK'
    BY <1>5 DEF TypeOK, ReloadClear, otherVars
  <2>2. (LockedInReload /\ ActiveIsOneReload)'
    BY <1>5 DEF TypeOK, LockedInReload, ActiveIsOneReload, Active, ReloadClear, otherVars
  <2>3. ClearedIsAccounted'
    BY <1>5 DEF TypeOK, ClearedIsAccounted, Accounted, ReloadClear, otherVars
  <2>4. (StoresSigned /\ BundleIsOneReload)'
    BY <1>5 DEF TypeOK, StoresSigned, BundleIsOneReload, ReloadClear, otherVars
  <2> QED BY <2>1, <2>2, <2>3, <2>4
<1>6. CASE ReloadUnlock
  <2>0. certs' \in Seq(CA) /\ Len(certs') <= 2
    BY <1>6 DEF ReloadUnlock
  <2>1. TypeOK'
    BY <1>6, <2>0 DEF TypeOK, ReloadUnlock, otherVars
  <2>2. (LockedInReload /\ ActiveIsOneReload)'
    BY <1>6 DEF TypeOK, LockedInReload, ActiveIsOneReload, Active, ReloadUnlock, otherVars
  <2>3. ClearedIsAccounted'
    BY <1>6 DEF TypeOK, ClearedIsAccounted, Accounted, ReloadUnlock, otherVars
  <2>4. (StoresSigned /\ BundleIsOneReload)'
    BY <1>6 DEF TypeOK, StoresSigned, BundleIsOneReload, ReloadUnlock, otherVars
  <2> QED BY <2>1, <2>2, <2>3, <2>4
<1>7. ASSUME NEW w \in Worker, NEW h \in Host, CacheMiss(w, h) PROVE Inv'
  <2>1. TypeOK'
    BY <1>7 DEF TypeOK, CacheMiss, refresherVars
  <2>2. (LockedInReload /\ ActiveIsOneReload)'
    BY <1>7 DEF TypeOK, LockedInReload, ActiveIsOneReload, Active, CacheMiss, refresherVars
  <2>3. ClearedIsAccounted'
    BY <1>7 DEF TypeOK, ClearedIsAccounted, Accounted, CacheMiss, refresherVars
  <2>4. (StoresSigned /\ BundleIsOneReload)'
    BY <1>7 DEF TypeOK, StoresSigned, BundleIsOneReload, CacheMiss, refresherVars
  <2> QED BY <2>1, <2>2, <2>3, <2>4
<1>8. ASSUME NEW w \in Worker, Sign(w) PROVE Inv'
  <2>1. TypeOK'
    BY <1>8 DEF TypeOK, Sign, refresherVars
  <2>2. (LockedInReload /\ ActiveIsOneReload)'
    BY <1>8, <1>n DEF TypeOK, LockedInReload, ActiveIsOneReload, Active, Sign, refresherVars
  <2>3. ClearedIsAccounted'
    BY <1>8, <1>n DEF TypeOK, ClearedIsAccounted, Accounted, Sign, refresherVars
  <2>4. (StoresSigned /\ BundleIsOneReload)'
    BY <1>8, <1>n DEF TypeOK, StoresSigned, BundleIsOneReload, Sign, refresherVars
  <2> QED BY <2>1, <2>2, <2>3, <2>4
<1>9. ASSUME NEW w \in Worker, Store(w) PROVE Inv'
  <2>0. [issuer |-> signer[w], age |-> "fresh"] \in Leaf /\ workerHost[w] \in Host
    BY <1>9 DEF Store, StoresSigned, Leaf, TypeOK
  <2>1. TypeOK'
    BY <1>9, <2>0 DEF TypeOK, Store, refresherVars
  <2>2. (LockedInReload /\ ActiveIsOneReload)'
    BY <1>9, <2>0, <1>n DEF TypeOK, LockedInReload, ActiveIsOneReload, Active, Store,
       refresherVars
  <2>3. ClearedIsAccounted'
    BY <1>9, <2>0, <1>n DEF TypeOK, ClearedIsAccounted, Accounted, Store, refresherVars
  <2>4. (StoresSigned /\ BundleIsOneReload)'
    BY <1>9, <2>0, <1>n DEF TypeOK, StoresSigned, BundleIsOneReload, Store, refresherVars
  <2> QED BY <2>1, <2>2, <2>3, <2>4
<1>10. ASSUME NEW h \in Host, Age(h) PROVE Inv'
  <2>0. /\ leafCache[h] \in Leaf
        /\ [leafCache[h] EXCEPT !.age = "old"] \in Leaf
        /\ [leafCache[h] EXCEPT !.age = "old"].issuer = leafCache[h].issuer
    BY <1>10 DEF Age, TypeOK, Leaf, NoLeaf
  <2>1. TypeOK'
    BY <1>10, <2>0 DEF TypeOK, Age, refresherVars
  <2>2. (LockedInReload /\ ActiveIsOneReload)'
    BY <1>10, <2>0, <1>n DEF TypeOK, LockedInReload, ActiveIsOneReload, Active, Age,
       refresherVars
  <2>3. ClearedIsAccounted'
    <3>1. leafCache[h] # NoLeaf
      BY <1>10 DEF Age, NoLeaf
    <3>2. leafCache'[h].issuer = leafCache[h].issuer
      BY <1>10, <2>0 DEF Age, TypeOK
    <3>3. \A g \in Host \ {h} : leafCache'[g] = leafCache[g]
      BY <1>10 DEF Age, TypeOK
    <3>4. \A g \in Host : Accounted(g) => Accounted(g)'
      BY <1>10, <3>1, <3>2, <3>3 DEF Accounted, Age, refresherVars
    <3> QED BY <1>10, <3>4 DEF ClearedIsAccounted, Age, refresherVars
  <2>4. (StoresSigned /\ BundleIsOneReload)'
    BY <1>10, <2>0, <1>n DEF TypeOK, StoresSigned, BundleIsOneReload, Age, refresherVars
  <2> QED BY <2>1, <2>2, <2>3, <2>4
<1>11. CASE Rotate
  <2>1. TypeOK'
    BY <1>11, PayloadAssumption DEF TypeOK, Rotate
  <2>2. (LockedInReload /\ ActiveIsOneReload)'
    BY <1>11 DEF TypeOK, LockedInReload, ActiveIsOneReload, Active, Rotate
  <2>3. ClearedIsAccounted'
    BY <1>11 DEF TypeOK, ClearedIsAccounted, Accounted, Rotate
  <2>4. (StoresSigned /\ BundleIsOneReload)'
    BY <1>11 DEF TypeOK, StoresSigned, BundleIsOneReload, Rotate
  <2> QED BY <2>1, <2>2, <2>3, <2>4
<1>12. ASSUME NEW c \in Client, Download(c) PROVE Inv'
  <2>1. TypeOK'
    BY <1>12 DEF TypeOK, Download
  <2>2. (LockedInReload /\ ActiveIsOneReload)'
    BY <1>12, <1>n DEF TypeOK, LockedInReload, ActiveIsOneReload, Active, Download
  <2>3. ClearedIsAccounted'
    BY <1>12, <1>n DEF TypeOK, ClearedIsAccounted, Accounted, Download
  <2>4. (StoresSigned /\ BundleIsOneReload)'
    BY <1>12, <1>n DEF TypeOK, StoresSigned, BundleIsOneReload, Download, LockedInReload,
       ActiveIsOneReload, Active
  <2> QED BY <2>1, <2>2, <2>3, <2>4
<1>13. CASE UNCHANGED vars
  BY <1>13 DEF vars, TypeOK, LockedInReload, ActiveIsOneReload, Active, ClearedIsAccounted,
     Accounted, StoresSigned, BundleIsOneReload
<1> QED BY <1>1, <1>2, <1>3, <1>4, <1>5, <1>6, <1>7, <1>8,
          <1>9, <1>10, <1>11, <1>12, <1>13
        DEF Next, FetchAndReload, GetCertificate

LEMMA SpecInv == Spec => []Inv
BY InitInv, NextInv, PTL DEF Spec

-----------------------------------------------------------------------------
(***************************************************************************)
(* Theorems                                                                *)
(***************************************************************************)

\* Type correctness of the certificate store; in particular every cached leaf
\* has an issuer.
THEOREM CertTypeCorrect == Spec => []TypeOK
<1>1. Inv => TypeOK
  BY DEF Inv
<1> QED BY <1>1, SpecInv, PTL

\* The bundle of GetActiveCAPEM is never a mixture of two payloads.
THEOREM CertBundleIsOneReload == Spec => []BundleIsOneReload
<1>1. Inv => BundleIsOneReload
  BY DEF Inv
<1> QED BY <1>1, SpecInv, PTL

\* Reload's Range leaves no leaf of a replaced CA behind: outside a rotation
\* such a leaf was stored late by a handshake that overlapped one.
THEOREM CertStaleOnlyByLateStore == Spec => []StaleOnlyByLateStore
<1>1. Inv => StaleOnlyByLateStore
  BY DEF Inv, ClearedIsAccounted, Accounted, StaleOnlyByLateStore
<1> QED BY <1>1, SpecInv, PTL

\* No payload takes the signing CA away.
THEOREM CertCAStaysLoaded == Spec => CAStaysLoaded
<1>1. Inv /\ [Next]_vars => [primary # NilCA => primary' # NilCA]_vars
  <2> SUFFICES ASSUME Inv, Next, primary' # primary PROVE primary' # NilCA
    OBVIOUS
  <2>1. ReloadPrimary
    BY DEF Next, FetchAndReload, GetCertificate, Fetch, FetchEmpty, ReloadSecondary,
       ReloadClear,
       ReloadUnlock, CacheMiss, Sign, Store, Age, Rotate, Download, refresherVars
  <2> QED BY <2>1, CertsAre DEF ReloadPrimary, Inv
<1> QED BY <1>1, SpecInv, PTL DEF Spec, CAStaysLoaded

-----------------------------------------------------------------------------
(***************************************************************************)
(* The credential and identity resolvers (Credentials)                     *)
(***************************************************************************)

\* The longest lifetime of an identity.
LEMMA CredLongest ==
    /\ Cred!Longest \in Nat \ {0} /\ \A m \in IdTTLs : m \in Nat /\ m <= Cred!Longest
    /\ TTL \in Nat \ {0} /\ Timeout \in Nat
<1>1. \E n \in IdTTLs : \A m \in IdTTLs : n >= m
  BY CredAssumption DEF Cred!CachesAssumption
<1>2. Cred!Longest \in IdTTLs /\ \A m \in IdTTLs : Cred!Longest >= m
  BY <1>1 DEF Cred!Longest
<1> QED BY <1>2, CredAssumption DEF Cred!CachesAssumption

\* The headers of a call and their token.
LEMMA CredHeaders ==
    ASSUME NEW c \in Cred!Call
    PROVE  /\ c.headers \in Headers /\ c.headers.user \in Cred!AnyUser
           /\ Cred!TokenOf(c.headers) # NoToken => Cred!TokenOf(c.headers) \in Token
<1>1. Headers \subseteq Cred!Header
  BY CredAssumption DEF Cred!CachesAssumption
<1>2. c.headers \in Headers
  BY DEF Cred!Call
<1>3. c.headers \in Cred!Header
  BY <1>1, <1>2
<1> QED BY <1>2, <1>3 DEF Cred!Header, Cred!TokenOf

\* A call that has not begun.
LEMMA CredIdle == Cred!Idle \in Cred!Call /\ Cred!Idle.at = "idle" /\ Cred!CallIsRight(Cred!Idle)
<1>1. (CHOOSE h \in Headers : TRUE) \in Headers
  BY CredAssumption DEF Cred!CachesAssumption
<1>2. Cred!Idle \in Cred!Call /\ Cred!Idle.at = "idle"
  BY <1>1 DEF Cred!Idle, Cred!Call, Cred!AnyUser, Cred!AnyCred
<1>3. Cred!CallIsRight(Cred!Idle)
  BY <1>2 DEF Cred!CallIsRight
<1> QED BY <1>2, <1>3

\* resolveUserID has a user.
LEMMA CredWithUser ==
    ASSUME NEW c \in Cred!Call, NEW u \in Cred!AnyUser
    PROVE  LET n == Cred!WithUser(c, u)
           IN  /\ n \in Cred!Call /\ n.at = "cred" /\ n.answer = {} /\ n.user = u
               /\ n.headers = c.headers
<1>1. <<>> \in Seq(Cred!Source) /\ {} \in SUBSET (Cred!AnyUser \cup Cred!AnyCred) /\ 0 \in Nat
  OBVIOUS
<1>2. Cred!WithUser(c, u) \in Cred!Call
  BY <1>1 DEF Cred!WithUser, Cred!Call
<1>3. /\ Cred!WithUser(c, u).at = "cred" /\ Cred!WithUser(c, u).answer = {}
      /\ Cred!WithUser(c, u).user = u /\ Cred!WithUser(c, u).headers = c.headers
  BY DEF Cred!WithUser, Cred!Call
<1> QED BY <1>2, <1>3

\* The loop of resolveUserID ends with a user that the headers name or stops at
\* a token.
LEMMA CredNextSource ==
    ASSUME NEW c \in Cred!Call
    PROVE  /\ Cred!NextSource(c) \in Cred!Call
           /\ Cred!CallIsRight(Cred!NextSource(c))
<1> DEFINE Found(i) == IF c.list[i] = "trusted_header" THEN c.headers.user # NoUser
                       ELSE Cred!TokenOf(c.headers) # NoToken
           hits == {i \in DOMAIN c.list : Found(i)}
           first == CHOOSE i \in hits : \A j \in hits : i <= j
           n == Cred!NextSource(c)
<1>1. c.list \in Seq(Cred!Source) /\ hits \in SUBSET Nat
  BY DEF Cred!Call
<1>2. c.headers.user \in Cred!AnyUser /\ NoUser \in Cred!AnyUser
  <2>1. NoUser \in Cred!AnyUser
    BY DEF Cred!AnyUser
  <2>2. c.headers.user \in Cred!AnyUser
    BY CredHeaders
  <2> QED BY <2>1, <2>2
<1>3. ASSUME NEW u \in {NoUser, c.headers.user}, n = Cred!WithUser(c, u)
      PROVE  n \in Cred!Call /\ Cred!CallIsRight(n)
  <2>1. /\ n \in Cred!Call /\ n.at = "cred" /\ n.answer = {} /\ n.user = u
        /\ n.headers = c.headers
    BY <1>2, <1>3, CredWithUser
  <2> HIDE DEF n
  <2> QED BY <2>1 DEF Cred!CallIsRight, Cred!UserIsRight
<1>4. CASE hits = {}
  BY <1>3, <1>4 DEF Cred!NextSource
<1>5. CASE hits # {}
  <2>1. first \in hits
    BY <1>1, <1>5, SmallestOf
  <2>2. CASE c.list[first] = "trusted_header"
    BY <1>3, <1>5, <2>2 DEF Cred!NextSource
  <2>3. CASE c.list[first] # "trusted_header"
    <3>1. n = [c EXCEPT !.at = "identity", !.answer = {}, !.since = 0,
                        !.list = SubSeq(@, first + 1, Len(@))]
      BY <1>5, <2>3 DEF Cred!NextSource
    <3>2. Cred!TokenOf(c.headers) # NoToken
      BY <2>1, <2>3
    <3>3. first \in Nat
      BY <1>1, <2>1
    <3> HIDE DEF first, hits
    <3>4. SubSeq(c.list, first + 1, Len(c.list)) \in Seq(Cred!Source)
      BY <1>1, <3>3
    <3> HIDE DEF n
    <3>5. {} \in SUBSET (Cred!AnyUser \cup Cred!AnyCred) /\ 0 \in Nat
      OBVIOUS
    <3>6. n \in Cred!Call
      BY <3>1, <3>4, <3>5 DEF Cred!Call
    <3>7. n.at = "identity" /\ n.headers = c.headers /\ n.answer = {}
      BY <3>1 DEF Cred!Call
    <3>8. Cred!CallIsRight(n)
      BY <3>2, <3>7 DEF Cred!CallIsRight
    <3> QED BY <3>6, <3>8 DEF n
  <2> QED BY <2>2, <2>3
<1> QED BY <1>4, <1>5

\* What was so from a later moment on was so from an earlier one.
LEMMA CredEarlier ==
    ASSUME Cred!CredTypeOK, NEW x \in Int, NEW y \in Int, x <= y
    PROVE  /\ \A t \in Token, u \in Cred!AnyUser : Cred!WasUser(t, u, y) => Cred!WasUser(t, u, x)
           /\ \A u \in Cred!AnyUser, c \in Cred!AnyCred : Cred!WasCred(u, c, y) => Cred!WasCred(u, c, x)
<1>1. ASSUME NEW t \in Token, NEW u \in Cred!AnyUser, Cred!WasUser(t, u, y)
      PROVE  Cred!WasUser(t, u, x)
  <2>1. idUntil[t][u] \in Int
    BY DEF Cred!CredTypeOK
  <2> QED BY <1>1, <2>1 DEF Cred!WasUser
<1>2. ASSUME NEW u \in Cred!AnyUser, NEW c \in Cred!AnyCred, Cred!WasCred(u, c, y)
      PROVE  Cred!WasCred(u, c, x)
  <2>1. credUntil[u][c] \in Int
    BY DEF Cred!CredTypeOK
  <2> QED BY <1>2, <2>1 DEF Cred!WasCred
<1> QED BY <1>1, <1>2

\* The same for the user of a call.
LEMMA CredUserEarlier ==
    ASSUME Cred!CredTypeOK, NEW x \in Int, NEW y \in Int, x <= y, NEW c \in Cred!Call,
           Cred!UserIsRight(c, y)
    PROVE  Cred!UserIsRight(c, x)
<1> DEFINE t == Cred!TokenOf(c.headers)
<1>1. CASE c.user \in {NoUser, c.headers.user}
  BY <1>1 DEF Cred!UserIsRight
<1>2. CASE t # NoToken /\ Cred!WasUser(t, c.user, y + 1 - Timeout - Cred!Longest)
  <2>1. /\ x + 1 - Timeout - Cred!Longest <= y + 1 - Timeout - Cred!Longest
        /\ x + 1 - Timeout - Cred!Longest \in Int /\ y + 1 - Timeout - Cred!Longest \in Int
    BY CredLongest
  <2>2. t \in Token /\ c.user \in Cred!AnyUser
    <3>1. c.user \in Cred!AnyUser
      BY DEF Cred!Call
    <3>2. t \in Token
      BY <1>2, CredHeaders
    <3> QED BY <3>1, <3>2
  <2>3. Cred!WasUser(t, c.user, x + 1 - Timeout - Cred!Longest)
    BY <1>2, <2>1, <2>2, CredEarlier
  <2> QED BY <1>2, <2>3 DEF Cred!UserIsRight
<1> QED BY <1>1, <1>2 DEF Cred!UserIsRight

\* A step of one request that leaves the vault and the clock alone.
LEMMA CredCallStep ==
    ASSUME Cred!CredInv, NEW r \in Request, NEW c \in Cred!Call, Cred!CallIsRight(c),
           Cred!Update(r, c),
           UNCHANGED <<now, sources, identity, credential, idUntil, credUntil, changes>>,
           idCache' \in [Token -> SUBSET [value : Cred!AnyUser, expiresAt : Nat]],
           credCache' \in [Cred!AnyUser -> SUBSET [value : Cred!AnyCred, expiresAt : Nat]],
           Cred!IdCacheIsRight', Cred!CredCacheIsRight'
    PROVE  Cred!CredInv'
<1>1. Cred!CredTypeOK'
  BY DEF Cred!CredInv, Cred!CredTypeOK, Cred!Update
<1>2. ASSUME NEW d, Cred!CallIsRight(d) PROVE Cred!CallIsRight(d)'
  BY <1>2 DEF Cred!CallIsRight, Cred!UserIsRight, Cred!WasUser, Cred!WasCred
<1>3. \A q \in Request : call'[q] = IF q = r THEN c ELSE call[q]
  BY DEF Cred!CredInv, Cred!CredTypeOK, Cred!Update
<1>4. Cred!CallsAreRight'
  <2> SUFFICES ASSUME NEW q \in Request PROVE Cred!CallIsRight(call[q])'
    BY DEF Cred!CallsAreRight
  <2>1. Cred!CallIsRight(IF q = r THEN c ELSE call[q])
    BY DEF Cred!CredInv, Cred!CallsAreRight
  <2>2. Cred!CallIsRight(call[q]') <=> Cred!CallIsRight(IF q = r THEN c ELSE call[q])
    BY <1>3
  <2> QED BY <2>1, <2>2 DEF Cred!CallIsRight, Cred!UserIsRight, Cred!WasUser, Cred!WasCred
<1> QED BY <1>1, <1>4 DEF Cred!CredInv

\* A step that leaves the vault, the clock and a cache alone keeps the cache
\* right.
LEMMA CredCachesStay ==
    ASSUME Cred!CredInv,
           UNCHANGED <<now, sources, identity, credential, idUntil, credUntil, changes>>
    PROVE  /\ UNCHANGED idCache =>
               /\ idCache' \in [Token -> SUBSET [value : Cred!AnyUser, expiresAt : Nat]]
               /\ Cred!IdCacheIsRight'
           /\ UNCHANGED credCache =>
               /\ credCache' \in [Cred!AnyUser -> SUBSET [value : Cred!AnyCred, expiresAt : Nat]]
               /\ Cred!CredCacheIsRight'
BY DEF Cred!CredInv, Cred!CredTypeOK, Cred!IdCacheIsRight, Cred!CredCacheIsRight,
       Cred!WasUser, Cred!WasCred

\* What resolveUserID does with a user that the token stood for.
LEMMA CredWithIdentity ==
    ASSUME Cred!CredInv, NEW c \in Cred!Call, NEW u \in Cred!AnyUser,
           Cred!TokenOf(c.headers) # NoToken,
           Cred!WasUser(Cred!TokenOf(c.headers), u, now + 1 - Timeout - Cred!Longest)
    PROVE  /\ Cred!WithIdentity(c, u) \in Cred!Call
           /\ Cred!CallIsRight(Cred!WithIdentity(c, u))
<1>1. CASE u = NoUser
  <2>1. Cred!WithIdentity(c, u) = Cred!NextSource(c)
    BY <1>1 DEF Cred!WithIdentity
  <2> QED BY <2>1, CredNextSource
<1>2. CASE u # NoUser
  <2> DEFINE n == Cred!WithUser(c, u)
  <2>1. Cred!WithIdentity(c, u) = n
    BY <1>2 DEF Cred!WithIdentity
  <2>2. /\ n \in Cred!Call /\ n.at = "cred" /\ n.answer = {} /\ n.user = u
        /\ n.headers = c.headers
    BY CredWithUser
  <2> HIDE DEF n
  <2>3. Cred!UserIsRight(n, now)
    BY <2>2 DEF Cred!UserIsRight
  <2>4. Cred!CallIsRight(n)
    BY <2>2, <2>3 DEF Cred!CallIsRight
  <2> QED BY <2>1, <2>2, <2>4
<1> QED BY <1>1, <1>2

\* A request arrives.
LEMMA CredArrive ==
    ASSUME Cred!CredInv, NEW r \in Request, Cred!Arrive(r) PROVE Cred!CredInv'
<1>1. PICK h \in Headers : 
        Cred!Update(r, Cred!NextSource([Cred!Idle EXCEPT !.list = sources, !.headers = h]))
  BY DEF Cred!Arrive
<1> DEFINE c == [Cred!Idle EXCEPT !.list = sources, !.headers = h]
<1>2. sources \in Seq(Cred!Source)
  BY CredAssumption DEF Cred!CachesAssumption, Cred!CredInv, Cred!CredTypeOK
<1>3. c \in Cred!Call
  BY <1>2, CredIdle DEF Cred!Call
<1> HIDE DEF c
<1>4. Cred!NextSource(c) \in Cred!Call /\ Cred!CallIsRight(Cred!NextSource(c))
  BY <1>3, CredNextSource
<1>5. /\ UNCHANGED <<now, sources, identity, credential, idUntil, credUntil, changes>>
      /\ UNCHANGED <<idCache, credCache>>
  BY DEF Cred!Arrive, Cred!World
<1>6. /\ idCache' \in [Token -> SUBSET [value : Cred!AnyUser, expiresAt : Nat]]
      /\ credCache' \in [Cred!AnyUser -> SUBSET [value : Cred!AnyCred, expiresAt : Nat]]
      /\ Cred!IdCacheIsRight' /\ Cred!CredCacheIsRight'
  BY <1>5, CredCachesStay
<1>7. Cred!Update(r, Cred!NextSource(c))
  BY <1>1 DEF c
<1> QED BY <1>4, <1>5, <1>6, <1>7, CredCallStep

\* The request is sent on, or the vault does not answer.
LEMMA CredGivesUp ==
    ASSUME Cred!CredInv, NEW r \in Request, Cred!Finish(r) \/ Cred!FetchFails(r)
    PROVE  Cred!CredInv'
<1>1. /\ UNCHANGED <<now, sources, identity, credential, idUntil, credUntil, changes>>
      /\ UNCHANGED <<idCache, credCache>> /\ Cred!Update(r, Cred!Idle)
  BY DEF Cred!Finish, Cred!FetchFails, Cred!World
<1> QED BY <1>1, CredIdle, CredCachesStay, CredCallStep

\* A load keeps of a cache only what is live, which was right before.
LEMMA CredIdentityPruned ==
    ASSUME Cred!CredInv, NEW t \in Token,
           UNCHANGED <<now, sources, identity, credential, idUntil, credUntil, changes>>,
           idCache' = [idCache EXCEPT ![t] = Cred!Live(@)]
    PROVE  /\ idCache' \in [Token -> SUBSET [value : Cred!AnyUser, expiresAt : Nat]]
           /\ Cred!IdCacheIsRight'
<1>1. idCache \in [Token -> SUBSET [value : Cred!AnyUser, expiresAt : Nat]]
  BY DEF Cred!CredInv, Cred!CredTypeOK
<1>2. \A x \in Token : idCache'[x] \subseteq idCache[x]
  BY <1>1 DEF Cred!Live
<1>3. Cred!Live(idCache[t]) \in SUBSET [value : Cred!AnyUser, expiresAt : Nat]
  BY <1>1 DEF Cred!Live
<1>4. idCache' \in [Token -> SUBSET [value : Cred!AnyUser, expiresAt : Nat]]
  BY <1>1, <1>3
<1>5. Cred!IdCacheIsRight'
  BY <1>2 DEF Cred!CredInv, Cred!IdCacheIsRight, Cred!WasUser
<1> QED BY <1>4, <1>5

\* The same for the credentials.
LEMMA CredCredentialPruned ==
    ASSUME Cred!CredInv, NEW u \in Cred!AnyUser,
           UNCHANGED <<now, sources, identity, credential, idUntil, credUntil, changes>>,
           credCache' = [credCache EXCEPT ![u] = Cred!Live(@)]
    PROVE  /\ credCache' \in [Cred!AnyUser -> SUBSET [value : Cred!AnyCred, expiresAt : Nat]]
           /\ Cred!CredCacheIsRight'
<1>1. credCache \in [Cred!AnyUser -> SUBSET [value : Cred!AnyCred, expiresAt : Nat]]
  BY DEF Cred!CredInv, Cred!CredTypeOK
<1>2. \A x \in Cred!AnyUser : credCache'[x] \subseteq credCache[x]
  BY <1>1 DEF Cred!Live
<1>3. Cred!Live(credCache[u]) \in SUBSET [value : Cred!AnyCred, expiresAt : Nat]
  BY <1>1 DEF Cred!Live
<1>4. credCache' \in [Cred!AnyUser -> SUBSET [value : Cred!AnyCred, expiresAt : Nat]]
  BY <1>1, <1>3
<1>5. Cred!CredCacheIsRight'
  BY <1>2 DEF Cred!CredInv, Cred!CredCacheIsRight, Cred!WasCred
<1> QED BY <1>4, <1>5

\* identity.Resolver.Resolve looks into its cache.
LEMMA CredIdentityLoad ==
    ASSUME Cred!CredInv, NEW r \in Request, Cred!IdentityLoad(r) PROVE Cred!CredInv'
<1> DEFINE c == call[r]
           t == Cred!TokenOf(c.headers)
<1>1. c \in Cred!Call /\ Cred!CallIsRight(c) /\ now \in Nat /\ c.at = "identity"
  BY DEF Cred!CredInv, Cred!CredTypeOK, Cred!CallsAreRight, Cred!IdentityLoad
<1>2. t # NoToken /\ c.answer = {}
  BY <1>1 DEF Cred!CallIsRight
<1>3. t \in Token
  BY <1>1, <1>2, CredHeaders
<1>4. /\ UNCHANGED <<now, sources, identity, credential, idUntil, credUntil, changes>>
      /\ UNCHANGED credCache /\ idCache' = [idCache EXCEPT ![t] = Cred!Live(@)]
  BY DEF Cred!IdentityLoad, Cred!World
<1>5. /\ idCache' \in [Token -> SUBSET [value : Cred!AnyUser, expiresAt : Nat]]
      /\ credCache' \in [Cred!AnyUser -> SUBSET [value : Cred!AnyCred, expiresAt : Nat]]
      /\ Cred!IdCacheIsRight' /\ Cred!CredCacheIsRight'
  BY <1>3, <1>4, CredIdentityPruned, CredCachesStay
<1>6. ASSUME NEW e \in Cred!Live(idCache[t]), Cred!Update(r, Cred!WithIdentity(c, e.value))
      PROVE  Cred!CredInv'
  <2>1. e \in idCache[t] /\ now < e.expiresAt
    BY <1>6 DEF Cred!Live
  <2>2. e.value \in Cred!AnyUser /\ e.expiresAt \in Nat
    BY <1>3, <2>1 DEF Cred!CredInv, Cred!CredTypeOK
  <2>3. Cred!WasUser(t, e.value, e.expiresAt - Timeout - Cred!Longest)
    BY <1>3, <2>1 DEF Cred!CredInv, Cred!IdCacheIsRight
  <2>4. /\ now + 1 - Timeout - Cred!Longest <= e.expiresAt - Timeout - Cred!Longest
        /\ now + 1 - Timeout - Cred!Longest \in Int
        /\ e.expiresAt - Timeout - Cred!Longest \in Int
    BY <1>1, <2>1, <2>2, CredLongest
  <2>5. Cred!WasUser(t, e.value, now + 1 - Timeout - Cred!Longest)
    BY <1>3, <2>2, <2>3, <2>4, CredEarlier DEF Cred!CredInv
  <2> HIDE DEF c
  <2>6. /\ Cred!WithIdentity(c, e.value) \in Cred!Call
        /\ Cred!CallIsRight(Cred!WithIdentity(c, e.value))
    BY <1>1, <1>2, <2>2, <2>5, CredWithIdentity
  <2> QED BY <1>4, <1>5, <1>6, <2>6, CredCallStep
<1>7. ASSUME Cred!Update(r, [c EXCEPT !.at = "idAsk", !.since = now])
      PROVE  Cred!CredInv'
  <2> DEFINE n == [c EXCEPT !.at = "idAsk", !.since = now]
  <2> HIDE DEF c
  <2>1. n \in Cred!Call
    BY <1>1 DEF Cred!Call
  <2>2. n.at = "idAsk" /\ n.since = now /\ n.answer = {} /\ n.headers = c.headers
    BY <1>1, <1>2 DEF Cred!Call
  <2>3. now <= now + Timeout
    BY <1>1, CredLongest
  <2>4. Cred!Update(r, n)
    BY <1>7
  <2> HIDE DEF n
  <2>5. Cred!CallIsRight(n)
    BY <1>1, <1>2, <2>2, <2>3 DEF Cred!CallIsRight
  <2> QED BY <1>4, <1>5, <2>1, <2>4, <2>5, CredCallStep
<1> QED BY <1>6, <1>7 DEF Cred!IdentityLoad

\* The vault's user is stored; the answer may be a timeout old.
LEMMA CredIdentityStore ==
    ASSUME Cred!CredInv, NEW r \in Request, Cred!IdentityStore(r) PROVE Cred!CredInv'
<1> DEFINE c == call[r]
           t == Cred!TokenOf(c.headers)
<1>1. c \in Cred!Call /\ Cred!CallIsRight(c) /\ now \in Nat /\ c.at = "idAsk"
  BY DEF Cred!CredInv, Cred!CredTypeOK, Cred!CallsAreRight, Cred!IdentityStore
<1>2. t # NoToken /\ c.since <= now /\ now <= c.since + Timeout
  BY <1>1 DEF Cred!CallIsRight
<1>3. t \in Token /\ c.since \in Nat
  <2>1. t \in Token
    BY <1>1, <1>2, CredHeaders
  <2>2. c.since \in Nat
    BY <1>1 DEF Cred!Call
  <2> QED BY <2>1, <2>2
<1>4. PICK user \in c.answer, ttl \in IdTTLs :
        /\ \/ idCache' = [idCache EXCEPT ![t] = {[value |-> user, expiresAt |-> now + ttl]}]
           \/ UNCHANGED idCache
        /\ Cred!Update(r, Cred!WithIdentity(c, user))
  BY DEF Cred!IdentityStore
<1>5. user \in Cred!AnyUser /\ Cred!WasUser(t, user, c.since)
  BY <1>1 DEF Cred!CallIsRight
<1>6. ttl \in Nat /\ ttl <= Cred!Longest /\ Cred!Longest \in Nat \ {0} /\ Timeout \in Nat
  BY CredLongest
<1>7. /\ UNCHANGED <<now, sources, identity, credential, idUntil, credUntil, changes>>
      /\ UNCHANGED credCache
  BY DEF Cred!IdentityStore, Cred!World
<1>8. ASSUME NEW x \in Int, x <= now + 1 - Timeout - Cred!Longest \/ x <= now - Timeout
      PROVE  Cred!WasUser(t, user, x)
  <2>1. x <= c.since /\ c.since \in Int
    BY <1>1, <1>2, <1>3, <1>6, <1>8
  <2> QED BY <1>3, <1>5, <2>1, CredEarlier DEF Cred!CredInv
<1>9. /\ idCache' \in [Token -> SUBSET [value : Cred!AnyUser, expiresAt : Nat]]
      /\ Cred!IdCacheIsRight'
  <2>1. CASE UNCHANGED idCache
    BY <1>7, <2>1, CredCachesStay
  <2>2. CASE idCache' = [idCache EXCEPT ![t] = {[value |-> user, expiresAt |-> now + ttl]}]
    <3> DEFINE e == [value |-> user, expiresAt |-> now + ttl]
    <3>1. e \in [value : Cred!AnyUser, expiresAt : Nat] /\ e.value = user /\ e.expiresAt = now + ttl
      BY <1>1, <1>5, <1>6
    <3>2. idCache \in [Token -> SUBSET [value : Cred!AnyUser, expiresAt : Nat]]
      BY DEF Cred!CredInv, Cred!CredTypeOK
    <3>3. e.expiresAt <= now + Cred!Longest /\ Cred!WasUser(t, e.value, e.expiresAt - Timeout - Cred!Longest)
      <4>1. now + ttl <= now + Cred!Longest /\ now + ttl - Timeout - Cred!Longest \in Int
            /\ now + ttl - Timeout - Cred!Longest <= now - Timeout
        BY <1>1, <1>6
      <4>2. Cred!WasUser(t, user, now + ttl - Timeout - Cred!Longest)
        BY <1>8, <4>1
      <4> HIDE DEF e
      <4>3. e.expiresAt <= now + Cred!Longest
        BY <3>1, <4>1
      <4>4. e.value = user /\ e.expiresAt - Timeout - Cred!Longest = now + ttl - Timeout - Cred!Longest
        BY <1>1, <1>6, <3>1
      <4>5. Cred!WasUser(t, e.value, e.expiresAt - Timeout - Cred!Longest)
        BY <4>2, <4>4
      <4> QED BY <4>3, <4>5
    <3> HIDE DEF e
    <3>4. idCache' = [idCache EXCEPT ![t] = {e}]
      BY <2>2 DEF e
    <3>5. {e} \in SUBSET [value : Cred!AnyUser, expiresAt : Nat]
      BY <3>1
    <3>6. idCache' \in [Token -> SUBSET [value : Cred!AnyUser, expiresAt : Nat]]
      BY <3>2, <3>4, <3>5
    <3>7. \A y \in Token : \A f \in idCache'[y] : f \in idCache[y] \/ (y = t /\ f = e)
      BY <3>2, <3>4
    <3>8. ASSUME NEW y \in Token, NEW f \in idCache'[y]
          PROVE  f.expiresAt <= now + Cred!Longest /\ Cred!WasUser(y, f.value, f.expiresAt - Timeout - Cred!Longest)
      <4>1. CASE f \in idCache[y]
        BY <4>1 DEF Cred!CredInv, Cred!IdCacheIsRight
      <4>2. CASE y = t /\ f = e
        BY <3>3, <4>2
      <4> QED BY <3>7, <4>1, <4>2
    <3>9. Cred!IdCacheIsRight'
      BY <1>7, <3>8 DEF Cred!IdCacheIsRight, Cred!WasUser
    <3> QED BY <3>6, <3>9
  <2> QED BY <1>4, <2>1, <2>2
<1>10. Cred!WasUser(t, user, now + 1 - Timeout - Cred!Longest)
  <2>1. now + 1 - Timeout - Cred!Longest \in Int /\ now + 1 - Timeout - Cred!Longest <= now + 1 - Timeout - Cred!Longest
    BY <1>1, <1>6
  <2> QED BY <1>8, <2>1
<1> HIDE DEF c
<1>11. /\ Cred!WithIdentity(c, user) \in Cred!Call
       /\ Cred!CallIsRight(Cred!WithIdentity(c, user))
  BY <1>1, <1>2, <1>5, <1>10, CredWithIdentity
<1>12. /\ credCache' \in [Cred!AnyUser -> SUBSET [value : Cred!AnyCred, expiresAt : Nat]]
       /\ Cred!CredCacheIsRight'
  BY <1>7, CredCachesStay
<1> QED BY <1>4, <1>7, <1>9, <1>11, <1>12, CredCallStep

\* A credential, or its absence, is set on the request.
LEMMA CredInject ==
    ASSUME Cred!CredInv, NEW c \in Cred!Call, NEW x \in Cred!AnyCred,
           Cred!UserIsRight(c, now - Timeout), Cred!WasCred(c.user, x, now + 1 - Timeout - TTL)
    PROVE  /\ Cred!Inject(c, x) \in Cred!Call
           /\ Cred!CallIsRight(Cred!Inject(c, x))
<1> DEFINE n == Cred!Inject(c, x)
<1>1. {} \in SUBSET (Cred!AnyUser \cup Cred!AnyCred) /\ 0 \in Nat
  OBVIOUS
<1>2. n \in Cred!Call
  BY <1>1 DEF Cred!Inject, Cred!Call
<1>3. n.at = "done" /\ n.cred = x /\ n.user = c.user /\ n.headers = c.headers
  BY DEF Cred!Inject, Cred!Call
<1> HIDE DEF n
<1>4. Cred!UserIsRight(n, now - Timeout)
  BY <1>3 DEF Cred!UserIsRight
<1>5. Cred!CallIsRight(n)
  BY <1>3, <1>4 DEF Cred!CallIsRight
<1> QED BY <1>2, <1>5 DEF n

\* credential.Resolver.Resolve looks into its cache.
LEMMA CredCredentialLoad ==
    ASSUME Cred!CredInv, NEW r \in Request, Cred!CredentialLoad(r) PROVE Cred!CredInv'
<1> DEFINE c == call[r]
           u == c.user
<1>1. c \in Cred!Call /\ Cred!CallIsRight(c) /\ now \in Nat /\ c.at = "cred"
  BY DEF Cred!CredInv, Cred!CredTypeOK, Cred!CallsAreRight, Cred!CredentialLoad
<1>2. Cred!UserIsRight(c, now) /\ c.answer = {}
  BY <1>1 DEF Cred!CallIsRight
<1>3. u \in Cred!AnyUser
  BY <1>1 DEF Cred!Call
<1>4. /\ UNCHANGED <<now, sources, identity, credential, idUntil, credUntil, changes>>
      /\ UNCHANGED idCache /\ credCache' = [credCache EXCEPT ![u] = Cred!Live(@)]
  BY DEF Cred!CredentialLoad, Cred!World
<1>5. /\ idCache' \in [Token -> SUBSET [value : Cred!AnyUser, expiresAt : Nat]]
      /\ credCache' \in [Cred!AnyUser -> SUBSET [value : Cred!AnyCred, expiresAt : Nat]]
      /\ Cred!IdCacheIsRight' /\ Cred!CredCacheIsRight'
  BY <1>3, <1>4, CredCredentialPruned, CredCachesStay
<1>6. ASSUME NEW e \in Cred!Live(credCache[u]), Cred!Update(r, Cred!Inject(c, e.value))
      PROVE  Cred!CredInv'
  <2>1. e \in credCache[u] /\ now < e.expiresAt
    BY <1>6 DEF Cred!Live
  <2>2. e.value \in Cred!AnyCred /\ e.expiresAt \in Nat
    BY <1>3, <2>1 DEF Cred!CredInv, Cred!CredTypeOK
  <2>3. Cred!WasCred(u, e.value, e.expiresAt - Timeout - TTL)
    BY <1>3, <2>1 DEF Cred!CredInv, Cred!CredCacheIsRight
  <2>4. /\ now + 1 - Timeout - TTL <= e.expiresAt - Timeout - TTL
        /\ now + 1 - Timeout - TTL \in Int /\ e.expiresAt - Timeout - TTL \in Int
        /\ now - Timeout <= now /\ now - Timeout \in Int /\ now \in Int
    BY <1>1, <2>1, <2>2, CredLongest
  <2>5. Cred!WasCred(u, e.value, now + 1 - Timeout - TTL)
    BY <1>3, <2>2, <2>3, <2>4, CredEarlier DEF Cred!CredInv
  <2> HIDE DEF c
  <2>6. Cred!UserIsRight(c, now - Timeout)
    BY <1>1, <1>2, <2>4, CredUserEarlier DEF Cred!CredInv
  <2>7. Cred!Inject(c, e.value) \in Cred!Call /\ Cred!CallIsRight(Cred!Inject(c, e.value))
    BY <1>1, <2>2, <2>5, <2>6, CredInject
  <2> QED BY <1>4, <1>5, <1>6, <2>7, CredCallStep
<1>7. ASSUME Cred!Update(r, [c EXCEPT !.at = "credAsk", !.since = now])
      PROVE  Cred!CredInv'
  <2> DEFINE n == [c EXCEPT !.at = "credAsk", !.since = now]
  <2> HIDE DEF c
  <2>1. n \in Cred!Call
    BY <1>1 DEF Cred!Call
  <2>2. /\ n.at = "credAsk" /\ n.since = now /\ n.answer = {} /\ n.headers = c.headers
        /\ n.user = c.user
    BY <1>1, <1>2 DEF Cred!Call
  <2>3. now <= now + Timeout /\ now <= now
    BY <1>1, CredLongest
  <2>4. Cred!Update(r, n)
    BY <1>7
  <2> HIDE DEF n
  <2>5. Cred!UserIsRight(n, n.since)
    BY <1>2, <2>2 DEF Cred!UserIsRight
  <2>6. Cred!CallIsRight(n)
    BY <1>1, <2>2, <2>3, <2>5 DEF Cred!CallIsRight
  <2> QED BY <1>4, <1>5, <2>1, <2>4, <2>6, CredCallStep
<1> QED BY <1>6, <1>7 DEF Cred!CredentialLoad

\* The vault's credential is stored; the answer may be a timeout old.
LEMMA CredCredentialStore ==
    ASSUME Cred!CredInv, NEW r \in Request, Cred!CredentialStore(r) PROVE Cred!CredInv'
<1> DEFINE c == call[r]
           u == c.user
<1>1. c \in Cred!Call /\ Cred!CallIsRight(c) /\ now \in Nat /\ c.at = "credAsk"
  BY DEF Cred!CredInv, Cred!CredTypeOK, Cred!CallsAreRight, Cred!CredentialStore
<1>2. Cred!UserIsRight(c, c.since) /\ c.since <= now /\ now <= c.since + Timeout
  BY <1>1 DEF Cred!CallIsRight
<1>3. u \in Cred!AnyUser /\ c.since \in Nat
  BY <1>1 DEF Cred!Call
<1>4. PICK x \in c.answer :
        /\ credCache' = [credCache EXCEPT ![u] = {[value |-> x, expiresAt |-> now + TTL]}]
        /\ Cred!Update(r, Cred!Inject(c, x))
  BY DEF Cred!CredentialStore
<1>5. x \in Cred!AnyCred /\ Cred!WasCred(u, x, c.since)
  BY <1>1 DEF Cred!CallIsRight
<1>6. TTL \in Nat \ {0} /\ Timeout \in Nat
  BY CredLongest
<1>7. /\ UNCHANGED <<now, sources, identity, credential, idUntil, credUntil, changes>>
      /\ UNCHANGED idCache
  BY DEF Cred!CredentialStore, Cred!World
<1>8. Cred!WasCred(u, x, now + TTL - Timeout - TTL) /\ Cred!WasCred(u, x, now + 1 - Timeout - TTL)
  <2>1. /\ now + TTL - Timeout - TTL <= c.since /\ now + 1 - Timeout - TTL <= c.since
        /\ now + TTL - Timeout - TTL \in Int /\ now + 1 - Timeout - TTL \in Int /\ c.since \in Int
    BY <1>1, <1>2, <1>3, <1>6
  <2> QED BY <1>3, <1>5, <2>1, CredEarlier DEF Cred!CredInv
<1>9. /\ credCache' \in [Cred!AnyUser -> SUBSET [value : Cred!AnyCred, expiresAt : Nat]]
      /\ Cred!CredCacheIsRight'
  <2> DEFINE e == [value |-> x, expiresAt |-> now + TTL]
  <2>1. e \in [value : Cred!AnyCred, expiresAt : Nat] /\ e.value = x /\ e.expiresAt = now + TTL
    BY <1>1, <1>5, <1>6
  <2>2. credCache \in [Cred!AnyUser -> SUBSET [value : Cred!AnyCred, expiresAt : Nat]]
    BY DEF Cred!CredInv, Cred!CredTypeOK
  <2>3. credCache' = [credCache EXCEPT ![u] = {e}]
    BY <1>4
  <2> HIDE DEF e
  <2>4. e.expiresAt <= now + TTL /\ Cred!WasCred(u, e.value, e.expiresAt - Timeout - TTL)
    <3>1. e.expiresAt <= now + TTL
      BY <1>1, <1>6, <2>1
    <3>2. e.value = x /\ e.expiresAt - Timeout - TTL = now + TTL - Timeout - TTL
      BY <1>1, <1>6, <2>1
    <3>3. Cred!WasCred(u, e.value, e.expiresAt - Timeout - TTL)
      BY <1>8, <3>2
    <3> QED BY <3>1, <3>3
  <2>5. {e} \in SUBSET [value : Cred!AnyCred, expiresAt : Nat]
    BY <2>1
  <2>6. credCache' \in [Cred!AnyUser -> SUBSET [value : Cred!AnyCred, expiresAt : Nat]]
    BY <2>2, <2>3, <2>5
  <2>7. \A y \in Cred!AnyUser : \A f \in credCache'[y] : f \in credCache[y] \/ (y = u /\ f = e)
    BY <2>2, <2>3
  <2>8. ASSUME NEW y \in Cred!AnyUser, NEW f \in credCache'[y]
        PROVE  f.expiresAt <= now + TTL /\ Cred!WasCred(y, f.value, f.expiresAt - Timeout - TTL)
    <3>1. CASE f \in credCache[y]
      BY <3>1 DEF Cred!CredInv, Cred!CredCacheIsRight
    <3>2. CASE y = u /\ f = e
      BY <2>4, <3>2
    <3> QED BY <2>7, <3>1, <3>2
  <2>9. Cred!CredCacheIsRight'
    BY <1>7, <2>8 DEF Cred!CredCacheIsRight, Cred!WasCred
  <2> QED BY <2>6, <2>9
<1>10. Cred!UserIsRight(c, now - Timeout)
  <2>1. now - Timeout <= c.since /\ now - Timeout \in Int /\ c.since \in Int
    BY <1>1, <1>2, <1>3, <1>6
  <2> QED BY <1>1, <1>2, <2>1, CredUserEarlier DEF Cred!CredInv
<1> HIDE DEF c
<1>11. Cred!Inject(c, x) \in Cred!Call /\ Cred!CallIsRight(Cred!Inject(c, x))
  BY <1>1, <1>5, <1>8, <1>10, CredInject
<1>12. /\ idCache' \in [Token -> SUBSET [value : Cred!AnyUser, expiresAt : Nat]]
       /\ Cred!IdCacheIsRight'
  BY <1>7, CredCachesStay
<1> QED BY <1>4, <1>7, <1>9, <1>11, <1>12, CredCallStep

\* The vault answers what it says at that moment.
LEMMA CredVaultAnswers ==
    ASSUME Cred!CredInv, NEW r \in Request, Cred!VaultAnswers(r) PROVE Cred!CredInv'
<1> DEFINE c == call[r]
           a == IF c.at = "idAsk" THEN {identity[Cred!TokenOf(c.headers)]} ELSE {credential[c.user]}
           n == [c EXCEPT !.answer = a]
<1>1. c \in Cred!Call /\ Cred!CallIsRight(c) /\ c.at \in {"idAsk", "credAsk"}
  BY DEF Cred!CredInv, Cred!CredTypeOK, Cred!CallsAreRight, Cred!VaultAnswers
<1>2. /\ UNCHANGED <<now, sources, identity, credential, idUntil, credUntil, changes>>
      /\ UNCHANGED <<idCache, credCache>> /\ Cred!Update(r, n)
  BY DEF Cred!VaultAnswers, Cred!World
<1>3. c.at = "idAsk" => Cred!TokenOf(c.headers) \in Token
  BY <1>1, CredHeaders DEF Cred!CallIsRight
<1>4. c.user \in Cred!AnyUser
  BY <1>1 DEF Cred!Call
<1>5. /\ c.at = "idAsk" => identity[Cred!TokenOf(c.headers)] \in Cred!AnyUser
      /\ credential[c.user] \in Cred!AnyCred
  BY <1>3, <1>4 DEF Cred!CredInv, Cred!CredTypeOK
<1>6. a \in SUBSET (Cred!AnyUser \cup Cred!AnyCred)
  BY <1>5
<1>7. n \in Cred!Call
  <2> HIDE DEF a, c
  <2> QED BY <1>1, <1>6 DEF Cred!Call
<1>8. /\ n.at = c.at /\ n.headers = c.headers /\ n.user = c.user /\ n.since = c.since
      /\ n.answer = a
  <2> HIDE DEF a, c
  <2> QED BY <1>1 DEF Cred!Call
<1>9. /\ c.at = "idAsk" => \A u \in a : u \in Cred!AnyUser /\ Cred!WasUser(Cred!TokenOf(c.headers), u, c.since)
      /\ c.at = "credAsk" => \A x \in a : x \in Cred!AnyCred /\ Cred!WasCred(c.user, x, c.since)
  BY <1>5 DEF Cred!WasUser, Cred!WasCred
<1> HIDE DEF a, c, n
<1>10. Cred!CallIsRight(n)
  <2>1. c.at = "credAsk" => Cred!UserIsRight(n, n.since)
    BY <1>1, <1>8 DEF Cred!CallIsRight, Cred!UserIsRight
  <2> QED BY <1>1, <1>8, <1>9, <2>1 DEF Cred!CallIsRight
<1> QED BY <1>2, <1>7, <1>10, CredCachesStay, CredCallStep

\* A step that moves nothing but the vault's view keeps every call and cache
\* right when it keeps what was so at any moment up to now.
LEMMA CredVaultStep ==
    ASSUME Cred!CredInv, Cred!CredTypeOK', UNCHANGED <<now, idCache, credCache, call>>,
           \A t \in Token, u \in Cred!AnyUser, x \in Int :
               x <= now /\ Cred!WasUser(t, u, x) => Cred!WasUser(t, u, x)',
           \A u \in Cred!AnyUser, c \in Cred!AnyCred, x \in Int :
               x <= now /\ Cred!WasCred(u, c, x) => Cred!WasCred(u, c, x)'
    PROVE  Cred!CredInv'
<1>1. now \in Nat /\ Cred!Longest \in Nat \ {0} /\ TTL \in Nat \ {0} /\ Timeout \in Nat
  BY CredLongest DEF Cred!CredInv, Cred!CredTypeOK
<1>2. Cred!IdCacheIsRight'
  <2> SUFFICES ASSUME NEW t \in Token, NEW e \in idCache[t]
               PROVE  /\ e.expiresAt <= now + Cred!Longest
                      /\ Cred!WasUser(t, e.value, e.expiresAt - Timeout - Cred!Longest)'
    BY DEF Cred!IdCacheIsRight
  <2>1. e.value \in Cred!AnyUser /\ e.expiresAt \in Nat
    BY DEF Cred!CredInv, Cred!CredTypeOK
  <2>2. /\ e.expiresAt <= now + Cred!Longest
        /\ Cred!WasUser(t, e.value, e.expiresAt - Timeout - Cred!Longest)
    BY DEF Cred!CredInv, Cred!IdCacheIsRight
  <2>3. /\ e.expiresAt - Timeout - Cred!Longest <= now
        /\ e.expiresAt - Timeout - Cred!Longest \in Int
    BY <1>1, <2>1, <2>2
  <2> QED BY <2>1, <2>2, <2>3
<1>3. Cred!CredCacheIsRight'
  <2> SUFFICES ASSUME NEW u \in Cred!AnyUser, NEW e \in credCache[u]
               PROVE  /\ e.expiresAt <= now + TTL
                      /\ Cred!WasCred(u, e.value, e.expiresAt - Timeout - TTL)'
    BY DEF Cred!CredCacheIsRight
  <2>1. e.value \in Cred!AnyCred /\ e.expiresAt \in Nat
    BY DEF Cred!CredInv, Cred!CredTypeOK
  <2>2. /\ e.expiresAt <= now + TTL
        /\ Cred!WasCred(u, e.value, e.expiresAt - Timeout - TTL)
    BY DEF Cred!CredInv, Cred!CredCacheIsRight
  <2>3. e.expiresAt - Timeout - TTL <= now /\ e.expiresAt - Timeout - TTL \in Int
    BY <1>1, <2>1, <2>2
  <2> QED BY <2>1, <2>2, <2>3
<1>4. ASSUME NEW c \in Cred!Call, NEW x \in Int, x <= now, Cred!UserIsRight(c, x)
      PROVE  Cred!UserIsRight(c, x)'
  <2> DEFINE t == Cred!TokenOf(c.headers)
  <2>1. CASE c.user \in {NoUser, c.headers.user}
    BY <2>1 DEF Cred!UserIsRight
  <2>2. CASE t # NoToken /\ Cred!WasUser(t, c.user, x + 1 - Timeout - Cred!Longest)
    <3>1. t \in Token
      BY <2>2, CredHeaders
    <3>2. c.user \in Cred!AnyUser
      BY DEF Cred!Call
    <3>3. x + 1 - Timeout - Cred!Longest <= now /\ x + 1 - Timeout - Cred!Longest \in Int
      BY <1>1, <1>4
    <3>4. Cred!WasUser(t, c.user, x + 1 - Timeout - Cred!Longest)'
      BY <2>2, <3>1, <3>2, <3>3
    <3> QED BY <2>2, <3>4 DEF Cred!UserIsRight
  <2> QED BY <1>4, <2>1, <2>2 DEF Cred!UserIsRight
<1>5. Cred!CallsAreRight'
  <2> SUFFICES ASSUME NEW r \in Request PROVE Cred!CallIsRight(call[r])'
    BY DEF Cred!CallsAreRight
  <2> DEFINE c == call[r]
  <2>1. c \in Cred!Call /\ Cred!CallIsRight(c) /\ call' = call /\ now' = now
    BY DEF Cred!CredInv, Cred!CredTypeOK, Cred!CallsAreRight
  <2>2. c.since \in Nat /\ c.user \in Cred!AnyUser /\ c.cred \in Cred!AnyCred
    BY <2>1 DEF Cred!Call
  <2>3. c.at = "idAsk" => Cred!TokenOf(c.headers) \in Token
    BY <2>1, CredHeaders DEF Cred!CallIsRight
  <2>4. c.at = "idAsk" => \A u \in c.answer :
          u \in Cred!AnyUser /\ Cred!WasUser(Cred!TokenOf(c.headers), u, c.since)'
    <3> SUFFICES ASSUME c.at = "idAsk", NEW u \in c.answer
                 PROVE  u \in Cred!AnyUser /\ Cred!WasUser(Cred!TokenOf(c.headers), u, c.since)'
      OBVIOUS
    <3>1. u \in Cred!AnyUser /\ Cred!WasUser(Cred!TokenOf(c.headers), u, c.since) /\ c.since <= now
      BY <2>1 DEF Cred!CallIsRight
    <3>2. c.since \in Int
      BY <2>2
    <3> QED BY <2>1, <2>3, <3>1, <3>2
  <2>5. c.at = "cred" => Cred!UserIsRight(c, now)'
    <3>1. c.at = "cred" => Cred!UserIsRight(c, now)
      BY <2>1 DEF Cred!CallIsRight
    <3>2. now \in Int /\ now <= now
      BY <1>1
    <3> QED BY <1>4, <2>1, <3>1, <3>2
  <2>6. c.at = "credAsk" => /\ Cred!UserIsRight(c, c.since)'
                            /\ \A x \in c.answer : x \in Cred!AnyCred /\ Cred!WasCred(c.user, x, c.since)'
    <3> SUFFICES ASSUME c.at = "credAsk"
                 PROVE  /\ Cred!UserIsRight(c, c.since)'
                        /\ \A x \in c.answer : x \in Cred!AnyCred /\ Cred!WasCred(c.user, x, c.since)'
      OBVIOUS
    <3>1. /\ Cred!UserIsRight(c, c.since) /\ c.since <= now
          /\ \A x \in c.answer : x \in Cred!AnyCred /\ Cred!WasCred(c.user, x, c.since)
      BY <2>1 DEF Cred!CallIsRight
    <3>2. c.since \in Int
      BY <2>2
    <3>3. Cred!UserIsRight(c, c.since)'
      BY <1>4, <2>1, <3>1, <3>2
    <3> QED BY <2>1, <2>2, <3>1, <3>2, <3>3
  <2>7. c.at = "done" => /\ Cred!UserIsRight(c, now - Timeout)'
                         /\ Cred!WasCred(c.user, c.cred, now + 1 - Timeout - TTL)'
    <3> SUFFICES ASSUME c.at = "done"
                 PROVE  /\ Cred!UserIsRight(c, now - Timeout)'
                        /\ Cred!WasCred(c.user, c.cred, now + 1 - Timeout - TTL)'
      OBVIOUS
    <3>1. Cred!UserIsRight(c, now - Timeout) /\ Cred!WasCred(c.user, c.cred, now + 1 - Timeout - TTL)
      BY <2>1 DEF Cred!CallIsRight
    <3>2. /\ now - Timeout \in Int /\ now - Timeout <= now
          /\ now + 1 - Timeout - TTL \in Int /\ now + 1 - Timeout - TTL <= now
      BY <1>1
    <3>3. Cred!UserIsRight(c, now - Timeout)'
      BY <1>4, <2>1, <3>1, <3>2
    <3>4. Cred!WasCred(c.user, c.cred, now + 1 - Timeout - TTL)'
      BY <2>1, <2>2, <3>1, <3>2
    <3> QED BY <3>3, <3>4
  <2> QED BY <2>1, <2>4, <2>5, <2>6, <2>7 DEF Cred!CallIsRight
<1> QED BY <1>2, <1>3, <1>5 DEF Cred!CredInv

\* The vault gives a token to another user: it was the old one's until now.
LEMMA CredChangeIdentity ==
    ASSUME Cred!CredInv, NEW t \in Token, NEW u \in Cred!AnyUser, Cred!ChangeIdentity(t, u)
    PROVE  Cred!CredInv'
<1>1. /\ identity \in [Token -> Cred!AnyUser] /\ idUntil \in [Token -> [Cred!AnyUser -> Int]]
      /\ now \in Nat
  BY DEF Cred!CredInv, Cred!CredTypeOK
<1>2. identity[t] \in Cred!AnyUser /\ now \in Int
  BY <1>1
<1>3. /\ identity' = [identity EXCEPT ![t] = u]
      /\ idUntil' = [idUntil EXCEPT ![t][identity[t]] = now]
      /\ UNCHANGED <<now, sources, credential, credUntil, idCache, credCache, call>>
  BY DEF Cred!ChangeIdentity
<1>4. identity' \in [Token -> Cred!AnyUser] /\ idUntil' \in [Token -> [Cred!AnyUser -> Int]]
  BY <1>1, <1>2, <1>3
<1>5. Cred!CredTypeOK'
  BY <1>3, <1>4 DEF Cred!CredInv, Cred!CredTypeOK
<1>6. ASSUME NEW s \in Token, NEW v \in Cred!AnyUser, NEW x \in Int, x <= now, Cred!WasUser(s, v, x)
      PROVE  Cred!WasUser(s, v, x)'
  <2>1. CASE s = t /\ v = identity[t]
    <3>1. idUntil'[s][v] = now
      BY <1>1, <1>2, <1>3, <2>1
    <3> QED BY <1>6, <3>1 DEF Cred!WasUser
  <2>2. CASE ~(s = t /\ v = identity[t])
    <3>1. idUntil'[s][v] = idUntil[s][v]
      BY <1>1, <1>2, <1>3, <2>2
    <3>2. identity[s] = v => identity'[s] = v
      BY <1>1, <1>3, <2>2
    <3> QED BY <1>6, <3>1, <3>2 DEF Cred!WasUser
  <2> QED BY <2>1, <2>2
<1>7. ASSUME NEW v \in Cred!AnyUser, NEW c \in Cred!AnyCred, NEW x \in Int, Cred!WasCred(v, c, x)
      PROVE  Cred!WasCred(v, c, x)'
  BY <1>3, <1>7 DEF Cred!WasCred
<1> QED BY <1>3, <1>5, <1>6, <1>7, CredVaultStep

\* A user's credential is replaced: it was the old one until now.
LEMMA CredChangeCredential ==
    ASSUME Cred!CredInv, NEW u \in Cred!AnyUser, NEW c \in Cred!AnyCred,
           Cred!ChangeCredential(u, c)
    PROVE  Cred!CredInv'
<1>1. /\ credential \in [Cred!AnyUser -> Cred!AnyCred]
      /\ credUntil \in [Cred!AnyUser -> [Cred!AnyCred -> Int]] /\ now \in Nat
  BY DEF Cred!CredInv, Cred!CredTypeOK
<1>2. credential[u] \in Cred!AnyCred /\ now \in Int
  BY <1>1
<1>3. /\ credential' = [credential EXCEPT ![u] = c]
      /\ credUntil' = [credUntil EXCEPT ![u][credential[u]] = now]
      /\ UNCHANGED <<now, sources, identity, idUntil, idCache, credCache, call>>
  BY DEF Cred!ChangeCredential
<1>4. /\ credential' \in [Cred!AnyUser -> Cred!AnyCred]
      /\ credUntil' \in [Cred!AnyUser -> [Cred!AnyCred -> Int]]
  BY <1>1, <1>2, <1>3
<1>5. Cred!CredTypeOK'
  BY <1>3, <1>4 DEF Cred!CredInv, Cred!CredTypeOK
<1>6. ASSUME NEW s \in Cred!AnyUser, NEW v \in Cred!AnyCred, NEW x \in Int, x <= now, Cred!WasCred(s, v, x)
      PROVE  Cred!WasCred(s, v, x)'
  <2>1. CASE s = u /\ v = credential[u]
    <3>1. credUntil'[s][v] = now
      BY <1>1, <1>2, <1>3, <2>1
    <3> QED BY <1>6, <3>1 DEF Cred!WasCred
  <2>2. CASE ~(s = u /\ v = credential[u])
    <3>1. credUntil'[s][v] = credUntil[s][v]
      BY <1>1, <1>2, <1>3, <2>2
    <3>2. credential[s] = v => credential'[s] = v
      BY <1>1, <1>3, <2>2
    <3> QED BY <1>6, <3>1, <3>2 DEF Cred!WasCred
  <2> QED BY <2>1, <2>2
<1>7. ASSUME NEW t \in Token, NEW v \in Cred!AnyUser, NEW x \in Int, Cred!WasUser(t, v, x)
      PROVE  Cred!WasUser(t, v, x)'
  BY <1>3, <1>7 DEF Cred!WasUser
<1> QED BY <1>3, <1>5, <1>6, <1>7, CredVaultStep

\* The configuration names other sources: no call in flight looks at them.
LEMMA CredChangeSources ==
    ASSUME Cred!CredInv, NEW list \in SourceLists, Cred!ChangeSources(list)
    PROVE  Cred!CredInv'
<1>1. /\ UNCHANGED <<now, identity, credential, idUntil, credUntil, idCache, credCache, call>>
      /\ sources' = list
  BY DEF Cred!ChangeSources
<1>2. Cred!CredTypeOK'
  BY <1>1 DEF Cred!CredInv, Cred!CredTypeOK
<1>3. /\ \A t \in Token, u \in Cred!AnyUser, x \in Int : Cred!WasUser(t, u, x) => Cred!WasUser(t, u, x)'
      /\ \A u \in Cred!AnyUser, c \in Cred!AnyCred, x \in Int : Cred!WasCred(u, c, x) => Cred!WasCred(u, c, x)'
  BY <1>1 DEF Cred!WasUser, Cred!WasCred
<1> QED BY <1>1, <1>2, <1>3, CredVaultStep

\* Time passes: a goroutine is idle or waits for the vault, within its timeout.
LEMMA CredTick ==
    ASSUME Cred!CredInv, Cred!Tick PROVE Cred!CredInv'
<1>1. /\ now' = now + 1 /\ now \in Nat /\ Timeout \in Nat /\ Cred!Longest \in Nat /\ TTL \in Nat
      /\ UNCHANGED <<sources, identity, credential, idUntil, credUntil, idCache, credCache, call, changes>>
  BY CredLongest DEF Cred!Tick, Cred!CredInv, Cred!CredTypeOK
<1>2. Cred!CredTypeOK'
  BY <1>1 DEF Cred!CredInv, Cred!CredTypeOK
<1>3. Cred!IdCacheIsRight'
  <2> SUFFICES ASSUME NEW t \in Token, NEW e \in idCache[t]
               PROVE  /\ e.expiresAt <= now' + Cred!Longest
                      /\ Cred!WasUser(t, e.value, e.expiresAt - Timeout - Cred!Longest)'
    BY <1>1 DEF Cred!IdCacheIsRight
  <2>1. e.expiresAt \in Nat /\ e.expiresAt <= now + Cred!Longest
    BY DEF Cred!CredInv, Cred!CredTypeOK, Cred!IdCacheIsRight
  <2>2. Cred!WasUser(t, e.value, e.expiresAt - Timeout - Cred!Longest)
    BY DEF Cred!CredInv, Cred!IdCacheIsRight
  <2>3. Cred!WasUser(t, e.value, e.expiresAt - Timeout - Cred!Longest)'
    BY <1>1, <2>2 DEF Cred!WasUser
  <2> QED BY <1>1, <2>1, <2>3
<1>4. Cred!CredCacheIsRight'
  <2> SUFFICES ASSUME NEW u \in Cred!AnyUser, NEW e \in credCache[u]
               PROVE  /\ e.expiresAt <= now' + TTL
                      /\ Cred!WasCred(u, e.value, e.expiresAt - Timeout - TTL)'
    BY <1>1 DEF Cred!CredCacheIsRight
  <2>1. e.expiresAt \in Nat /\ e.expiresAt <= now + TTL
    BY DEF Cred!CredInv, Cred!CredTypeOK, Cred!CredCacheIsRight
  <2>2. Cred!WasCred(u, e.value, e.expiresAt - Timeout - TTL)
    BY DEF Cred!CredInv, Cred!CredCacheIsRight
  <2>3. Cred!WasCred(u, e.value, e.expiresAt - Timeout - TTL)'
    BY <1>1, <2>2 DEF Cred!WasCred
  <2> QED BY <1>1, <2>1, <2>3
<1>5. Cred!CallsAreRight'
  <2> SUFFICES ASSUME NEW r \in Request PROVE Cred!CallIsRight(call[r])'
    BY DEF Cred!CallsAreRight
  <2> DEFINE c == call[r]
  <2>1. c \in Cred!Call /\ Cred!CallIsRight(c)
    BY DEF Cred!CredInv, Cred!CredTypeOK, Cred!CallsAreRight
  <2>2. c.at = "idle" \/ (c.at \in {"idAsk", "credAsk"} /\ now - c.since < Timeout)
    BY DEF Cred!Tick
  <2>3. c.since \in Nat
    BY <2>1 DEF Cred!Call
  <2>4. c.at \in {"idAsk", "credAsk"} => c.since <= now' /\ now' <= c.since + Timeout
    <3>1. c.at \in {"idAsk", "credAsk"} => c.since <= now
      BY <2>1 DEF Cred!CallIsRight
    <3>2. c.at \in {"idAsk", "credAsk"} => now - c.since < Timeout
      BY <2>2
    <3> QED BY <1>1, <2>3, <3>1, <3>2
  <2>5. c.at = "idAsk" => \A u \in c.answer :
          u \in Cred!AnyUser /\ Cred!WasUser(Cred!TokenOf(c.headers), u, c.since)'
    BY <1>1, <2>1 DEF Cred!CallIsRight, Cred!WasUser
  <2>6. c.at = "credAsk" => /\ Cred!UserIsRight(c, c.since)'
                            /\ \A x \in c.answer : x \in Cred!AnyCred /\ Cred!WasCred(c.user, x, c.since)'
    BY <1>1, <2>1 DEF Cred!CallIsRight, Cred!UserIsRight, Cred!WasUser, Cred!WasCred
  <2>7. c.at = "idAsk" => Cred!TokenOf(c.headers) # NoToken
    BY <2>1 DEF Cred!CallIsRight
  <2> QED BY <1>1, <2>2, <2>4, <2>5, <2>6, <2>7 DEF Cred!CallIsRight
<1> QED BY <1>2, <1>3, <1>4, <1>5 DEF Cred!CredInv

\* Every step keeps the inductive invariant of the two resolvers.
LEMMA CredStep ==
    ASSUME Cred!CredInv, [Cred!Next]_Cred!cVars PROVE Cred!CredInv'
<1>1. CASE Cred!Next
  BY <1>1, CredTick, CredArrive, CredGivesUp, CredIdentityLoad, CredIdentityStore,
     CredCredentialLoad, CredCredentialStore, CredVaultAnswers, CredChangeIdentity,
     CredChangeCredential, CredChangeSources DEF Cred!Next
<1>2. CASE UNCHANGED Cred!cVars
  BY <1>2 DEF Cred!cVars, Cred!CredInv, Cred!CredTypeOK, Cred!IdCacheIsRight,
     Cred!CredCacheIsRight, Cred!CallsAreRight, Cred!CallIsRight, Cred!UserIsRight,
     Cred!WasUser, Cred!WasCred
<1> QED BY <1>1, <1>2

\* It holds before the first request.
LEMMA CredBegins == ASSUME Cred!Init PROVE Cred!CredInv
<1>1. Cred!Never \in Int
  BY DEF Cred!Never
<1>2. Cred!CredTypeOK
  BY <1>1, CredIdle DEF Cred!Init, Cred!CredTypeOK
<1>3. Cred!IdCacheIsRight /\ Cred!CredCacheIsRight
  BY DEF Cred!Init, Cred!IdCacheIsRight, Cred!CredCacheIsRight
<1>4. Cred!CallsAreRight
  BY CredIdle DEF Cred!Init, Cred!CallsAreRight
<1> QED BY <1>2, <1>3, <1>4 DEF Cred!CredInv

\* A request is sent on with the credential of a user that its own headers
\* name, and neither is older than the caches' lifetimes and the vault's timeout
\* allow (cmd/proxy/credentials.go, identity/resolver.go and
\* credential/resolver.go), for every number of requests, tokens, users and
\* secrets, all lifetimes and every order of answers.
THEOREM CredCredentialIsCurrent == Cred!Spec => []CredentialIsCurrent
<1>1. Cred!CredInv => CredentialIsCurrent
  <2> SUFFICES ASSUME Cred!CredInv, NEW r \in Request, call[r].at = "done"
               PROVE  LET c == call[r]
                          t == Cred!TokenOf(c.headers)
                      IN  /\ \/ credential[c.user] = c.cred
                             \/ now < credUntil[c.user][c.cred] + Timeout + TTL
                          /\ \/ c.user \in {NoUser, c.headers.user}
                             \/ t # NoToken /\ identity[t] = c.user
                             \/ t # NoToken /\ now < idUntil[t][c.user] + 2 * Timeout + Cred!Longest
    BY DEF CredentialIsCurrent, Cred!CredentialIsCurrent
  <2> DEFINE c == call[r]
             t == Cred!TokenOf(c.headers)
  <2>1. c \in Cred!Call /\ Cred!CallIsRight(c) /\ now \in Nat
    BY DEF Cred!CredInv, Cred!CredTypeOK, Cred!CallsAreRight
  <2>2. Cred!UserIsRight(c, now - Timeout) /\ Cred!WasCred(c.user, c.cred, now + 1 - Timeout - TTL)
    BY <2>1 DEF Cred!CallIsRight
  <2>3. c.user \in Cred!AnyUser /\ c.cred \in Cred!AnyCred
    BY <2>1 DEF Cred!Call
  <2>4. Cred!Longest \in Nat /\ TTL \in Nat /\ Timeout \in Nat
    BY CredLongest
  <2>5. \/ credential[c.user] = c.cred
        \/ now < credUntil[c.user][c.cred] + Timeout + TTL
    <3>1. credUntil[c.user][c.cred] \in Int
      BY <2>3 DEF Cred!CredInv, Cred!CredTypeOK
    <3> QED BY <2>1, <2>2, <2>4, <3>1 DEF Cred!WasCred
  <2>6. ASSUME t # NoToken, Cred!WasUser(t, c.user, now - Timeout + 1 - Timeout - Cred!Longest)
        PROVE  identity[t] = c.user \/ now < idUntil[t][c.user] + 2 * Timeout + Cred!Longest
    <3>1. t \in Token
      BY <2>1, <2>6, CredHeaders
    <3>2. idUntil[t][c.user] \in Int
      BY <2>3, <3>1 DEF Cred!CredInv, Cred!CredTypeOK
    <3> QED BY <2>1, <2>4, <2>6, <3>2 DEF Cred!WasUser
  <2> QED BY <2>2, <2>5, <2>6 DEF Cred!UserIsRight
<1> QED BY <1>1, CredBegins, CredStep, PTL DEF Cred!Spec
==============================================================================
