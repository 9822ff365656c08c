------------------------- MODULE PolicyManagerProofs -------------------------
(***************************************************************************)
(* Proofs about the policy manager: for any number of concurrent reload    *)
(* requests, versions, malformed bodies and crashes, a manager with a      *)
(* usable cache file never serves without a policy; and, when reloads do   *)
(* not overlap, it never goes back to an older policy.  Then about the     *)
(* policy engine: it decides what the document says.  Then about the       *)
(* ClientHello parser: it never reports a name the client did not mean.    *)
(***************************************************************************)
EXTENDS MCPolicySerial, LeastElement, SequenceTheorems, TLAPS

-----------------------------------------------------------------------------
(***************************************************************************)
(* The inductive invariant of the fail-open argument                       *)
(***************************************************************************)

\* The cached policy is in memory from loadCache on, not only after Start.
LoadedFromCache ==
    options.enabled /\ phase # "down" /\ cacheFile \in Valid => policy # Nil

\* A reload that is about to write the cache has parsed its body and has
\* already put a policy in memory.
SavesWhatItInstalled ==
    \A r \in Reloader : pc[r] \in {"save", "rename"} => body[r] \in Valid /\ policy # Nil

\* A call that is past the fetch holds a body.
FetchedHasBody == \A r \in Reloader : pc[r] = "parse" => body[r] \in Version

\* Calls and the refresh loop live in a live process.
CallsAreLive ==
    /\ \A r \in Reloader : pc[r] # "idle" => phase # "down"
    /\ phase = "starting" => pc[Main] # "idle"
    /\ loop # "none" => phase = "running"

Inv ==
    /\ TypeOK
    /\ LoadedFromCache
    /\ SavesWhatItInstalled
    /\ FetchedHasBody
    /\ CallsAreLive

LEMMA InitInv == Init => Inv
<1> SUFFICES ASSUME Init PROVE Inv
  OBVIOUS
<1>1. TypeOK
  <2>1. crashes \in 0 .. MaxCrash
    BY CrashAssumption DEF Init
  <2>2. cacheFile \in Version \cup {Nil} /\ policy \in Valid \cup {Nil}
    BY VersionAssumption DEF Init, Version, Valid
  <2> QED BY <2>1, <2>2 DEF Init, TypeOK, ReloadPc
<1>2. LoadedFromCache /\ SavesWhatItInstalled /\ FetchedHasBody /\ CallsAreLive
  BY DEF Init, LoadedFromCache, SavesWhatItInstalled, FetchedHasBody, CallsAreLive,
     Reloader
<1> QED BY <1>1, <1>2 DEF Inv

\* What a return of Reload leaves as it was, and what it sets.
LEMMA ReturnType ==
    ASSUME TypeOK, NEW r \in Reloader, Return(r)
    PROVE  /\ pc' \in [Reloader -> ReloadPc]
           /\ body' \in [Reloader -> Version \cup {Nil}]
           /\ phase' \in {"down", "starting", "running"}
           /\ loop' \in {"none", "live", "exited"}
           /\ \A q \in Reloader \ {r} : pc'[q] = pc[q] /\ body'[q] = body[q]
           /\ pc'[r] = "idle"
           /\ phase' = "down" <=> phase = "down"
           /\ phase' = "starting" => phase = "starting" /\ r # Main
BY DEF TypeOK, Return, ReloadPc, Reloader

LEMMA NextInv == Inv /\ [Next]_vars => Inv'
<1> SUFFICES ASSUME Inv, [Next]_vars PROVE Inv'
  OBVIOUS
<1> USE VersionAssumption, CrashAssumption, HandlerAssumption
<1> USE DEF Inv, Valid
<1>m. Main \in Reloader
  BY DEF Reloader
<1>1. ASSUME NEW ipFound \in BOOLEAN, Start(ipFound) PROVE Inv'
  <2>1. TypeOK'
    BY <1>1, <1>m DEF Start, TypeOK, ReloadPc
  <2>2. \A r \in Reloader : pc[r] = "idle"
    BY <1>1 DEF Start, CallsAreLive
  <2>3. LoadedFromCache' /\ SavesWhatItInstalled' /\ FetchedHasBody' /\ CallsAreLive'
    BY <1>1, <1>m, <2>2 DEF Start, TypeOK, LoadedFromCache, SavesWhatItInstalled,
       FetchedHasBody, CallsAreLive, Version, Nil
  <2> QED BY <2>1, <2>3
<1>2. CASE StartDisabled \/ Stop \/ LoopExit \/ Publish
  <2>1. TypeOK'
    <3>1. CASE StartDisabled \/ Stop \/ LoopExit
      BY <1>2, <3>1 DEF StartDisabled, Stop, LoopExit, TypeOK
    <3>2. CASE Publish
      BY <1>2, <3>2 DEF Publish, TypeOK, Version
    <3> QED BY <1>2, <3>1, <3>2
  <2>2. LoadedFromCache' /\ SavesWhatItInstalled' /\ FetchedHasBody' /\ CallsAreLive'
    BY <1>2, <1>m DEF StartDisabled, Stop, LoopExit, Publish, TypeOK, LoadedFromCache,
       SavesWhatItInstalled, FetchedHasBody, CallsAreLive
  <2> QED BY <2>1, <2>2
<1>3. CASE Tick
  BY <1>3, <1>m DEF Tick, TypeOK, LoadedFromCache, SavesWhatItInstalled, FetchedHasBody,
     CallsAreLive, ReloadPc
<1>4. ASSUME NEW h \in Handler, HandlerReload(h) PROVE Inv'
  <2>1. h \in Reloader
    BY DEF Reloader
  <2> QED BY <1>4, <2>1 DEF HandlerReload, TypeOK, LoadedFromCache, SavesWhatItInstalled,
             FetchedHasBody, CallsAreLive, ReloadPc
<1>5. ASSUME NEW r \in Reloader, Return(r),
             UNCHANGED <<options, remote, policy, stopped, cacheFile, instanceIP, crashes>>,
             pc[r] # "idle", lastError' \in BOOLEAN
      PROVE  Inv'
  \* Every early return of Reload.
  BY <1>5, <1>m, ReturnType DEF TypeOK, LoadedFromCache, SavesWhatItInstalled,
     FetchedHasBody, CallsAreLive, Return
<1>6. ASSUME NEW r \in Reloader, ReloadBegin(r) PROVE Inv'
  <2>1. CASE Return(r)
    BY <1>5, <1>6, <2>1 DEF ReloadBegin, TypeOK
  <2>2. CASE Goes(r, "fetch") /\ UNCHANGED <<body, lastError>>
    BY <1>6, <2>2 DEF ReloadBegin, Goes, TypeOK, ReloadPc, LoadedFromCache,
       SavesWhatItInstalled, FetchedHasBody, CallsAreLive
  <2> QED BY <1>6, <2>1, <2>2 DEF ReloadBegin
<1>7. ASSUME NEW r \in Reloader, FetchOk(r) PROVE Inv'
  BY <1>7 DEF FetchOk, Goes, TypeOK, ReloadPc, LoadedFromCache,
     SavesWhatItInstalled, FetchedHasBody, CallsAreLive
<1>8. ASSUME NEW r \in Reloader, FetchFailed(r) PROVE Inv'
  BY <1>5, <1>8 DEF FetchFailed
<1>9. ASSUME NEW r \in Reloader, Install(r) PROVE Inv'
  <2>1. CASE body[r] \in Valid
    <3>1. policy' = body[r] /\ policy' # Nil /\ lastError' = FALSE /\ Goes(r, "save")
      BY <1>9, <2>1 DEF Install, Version, Nil
    <3>2. TypeOK'
      BY <1>9, <2>1, <3>1 DEF Install, Goes, TypeOK, ReloadPc
    <3>3. LoadedFromCache' /\ SavesWhatItInstalled' /\ FetchedHasBody' /\ CallsAreLive'
      BY <1>9, <2>1, <3>1 DEF Install, Goes, TypeOK, LoadedFromCache,
         SavesWhatItInstalled, FetchedHasBody, CallsAreLive
    <3> QED BY <3>2, <3>3
  <2>2. CASE body[r] \notin Valid
    BY <1>5, <1>9, <2>2 DEF Install
  <2> QED BY <2>1, <2>2
<1>10. ASSUME NEW r \in Reloader, Save(r) PROVE Inv'
  <2>1. CASE Return(r)
    BY <1>5, <1>10, <2>1 DEF Save, TypeOK
  <2>2. CASE Goes(r, "rename") /\ UNCHANGED body
    BY <1>10, <2>2 DEF Save, Goes, TypeOK, ReloadPc, LoadedFromCache,
       SavesWhatItInstalled, FetchedHasBody, CallsAreLive
  <2> QED BY <1>10, <2>1, <2>2 DEF Save
<1>11. ASSUME NEW r \in Reloader, Rename(r) PROVE Inv'
  <2>1. CASE cacheFile' = cacheFile
    BY <1>5, <1>11, <2>1 DEF Rename, TypeOK
  <2>2. CASE cacheFile' = body[r]
    <3>1. body[r] \in Valid /\ policy # Nil
      BY <1>11 DEF Rename, SavesWhatItInstalled
    <3>2. TypeOK'
      BY <1>11, <2>2, <3>1, ReturnType DEF Rename, TypeOK
    <3> QED BY <1>11, <1>m, <2>2, <3>1, <3>2, ReturnType DEF Rename, LoadedFromCache,
               SavesWhatItInstalled, FetchedHasBody, CallsAreLive, Return, TypeOK
  <2> QED BY <1>11, <2>1, <2>2 DEF Rename
<1>12. CASE Crash
  <2>1. TypeOK'
    <3>1. crashes' \in 0 .. MaxCrash
      BY <1>12 DEF Crash, TypeOK
    <3> QED BY <1>12, <3>1 DEF Crash, TypeOK, ReloadPc
  <2>2. LoadedFromCache' /\ SavesWhatItInstalled' /\ FetchedHasBody' /\ CallsAreLive'
    BY <1>12 DEF Crash, LoadedFromCache, SavesWhatItInstalled, FetchedHasBody, CallsAreLive,
       Reloader
  <2> QED BY <2>1, <2>2
<1>13. CASE UNCHANGED vars
  BY <1>13 DEF vars, TypeOK, LoadedFromCache, SavesWhatItInstalled, FetchedHasBody,
     CallsAreLive
<1> QED BY <1>1, <1>2, <1>3, <1>4, <1>6, <1>7, <1>8, <1>9, <1>10, <1>11, <1>12, <1>13
        DEF Next, Reload

LEMMA SpecInv == Spec => []Inv
BY InitInv, NextInv, PTL DEF Spec

-----------------------------------------------------------------------------
(***************************************************************************)
(* The inductive invariant of the rollback argument                        *)
(***************************************************************************)

\* Memory, cache file and fetched body are never ahead of the server, the
\* body is never behind memory, and memory is never behind the cache file.
Ordered ==
    /\ phase = "down" => policy = Nil
    /\ policy <= remote
    /\ body[Main] <= remote
    /\ pc[Main] = "parse" => body[Main] >= policy
    /\ pc[Main] \in {"save", "rename"} => body[Main] = policy
    /\ cacheFile \in Valid => cacheFile <= remote
    /\ options.enabled /\ phase # "down" /\ cacheFile \in Valid => cacheFile <= policy

LEMMA InitOrdered == Init => Ordered
BY VersionAssumption DEF Init, Ordered, Version, Valid, Nil, Reloader, Main

LEMMA NextOrdered ==
    ASSUME Handler = {}, Inv, Ordered, [Next]_vars
    PROVE  Ordered' /\ (phase' # "down" /\ policy' # policy => policy' > policy)
<1> DEFINE Goal == Ordered' /\ (phase' # "down" /\ policy' # policy => policy' > policy)
<1> USE VersionAssumption DEF Inv, TypeOK, Ordered, Valid, Version, Nil
<1>m. Main \in Reloader /\ Reloader = {Main}
  BY DEF Reloader
<1>1. ASSUME NEW ipFound \in BOOLEAN, Start(ipFound) PROVE Goal
  BY <1>1, <1>m DEF Start, CallsAreLive
<1>2. CASE StartDisabled \/ Stop \/ LoopExit \/ Publish
  BY <1>2, <1>m DEF StartDisabled, Stop, LoopExit, Publish
<1>3. CASE Tick
  BY <1>3, <1>m DEF Tick
<1>4. CASE ReloadBegin(Main) \/ FetchFailed(Main)
  BY <1>4, <1>m DEF ReloadBegin, FetchFailed, Return, Goes, CallsAreLive
<1>5. CASE FetchOk(Main)
  BY <1>5, <1>m DEF FetchOk, Goes
<1>6. CASE Install(Main)
  BY <1>6, <1>m DEF Install, Return, Goes, CallsAreLive
<1>7. CASE Save(Main)
  BY <1>7, <1>m DEF Save, Return, Goes, CallsAreLive
<1>8. CASE Rename(Main)
  BY <1>8, <1>m DEF Rename, Return, CallsAreLive, SavesWhatItInstalled
<1>9. CASE Crash
  BY <1>9, <1>m DEF Crash
<1>10. CASE UNCHANGED vars
  BY <1>10 DEF vars
<1> QED BY <1>m, <1>1, <1>2, <1>3, <1>4, <1>5, <1>6, <1>7, <1>8, <1>9, <1>10
        DEF Next, Reload

-----------------------------------------------------------------------------
(***************************************************************************)
(* Theorems                                                                *)
(***************************************************************************)

\* Type correctness of the policy manager; in particular the policy in memory
\* is always nil or one that parsed.
THEOREM PolicyTypeCorrect == Spec => []TypeOK
BY SpecInv, PTL DEF Inv

\* With a usable cache file a running manager always has a policy in memory,
\* so Evaluate's allow-all branch for a nil policy (manager.go:146) is not
\* reachable after crashes, failed fetches or malformed answers.
THEOREM PolicyNeverOpenWithCache == Spec => []NeverOpenWithCache
<1>1. Inv => NeverOpenWithCache
  BY DEF Inv, LoadedFromCache, NeverOpenWithCache
<1> QED BY <1>1, SpecInv, PTL

\* Only parsed bodies reach the cache file.
THEOREM PolicyCacheParsed == Spec => CacheOnlyGetsParsedBodies
<1>1. Inv /\ [Next]_vars => [cacheFile' # cacheFile => cacheFile' \in Valid]_vars
  <2> SUFFICES ASSUME Inv, Next, cacheFile' # cacheFile PROVE cacheFile' \in Valid
    OBVIOUS
  <2>1. PICK r \in Reloader : Rename(r)
    BY DEF Next, Reload, Start, StartDisabled, Stop, Tick, LoopExit, HandlerReload,
       ReloadBegin, FetchOk, FetchFailed, Install, Save, Publish, Crash
  <2> QED BY <2>1 DEF Rename, Inv, SavesWhatItInstalled
<1> QED BY <1>1, SpecInv, PTL DEF Spec, CacheOnlyGetsParsedBodies

\* When no reload request runs beside the refresh loop, the policy in memory
\* only ever gets newer during the life of a process.
THEOREM PolicyNoRollback == Handler = {} /\ Spec => NoRollback
<1> SUFFICES ASSUME Handler = {} PROVE Spec => NoRollback
  OBVIOUS
<1>1. Inv /\ Ordered /\ [Next]_vars => Ordered'
  BY NextOrdered
<1>2. Inv /\ Ordered /\ [Next]_vars =>
        [phase' # "down" /\ policy' # policy => policy' > policy]_vars
  BY NextOrdered
<1> QED BY <1>1, <1>2, InitOrdered, SpecInv, PTL DEF Spec, NoRollback

\* Under the same condition the cache file never holds a newer policy than memory.
THEOREM PolicyCacheNotAhead == Handler = {} /\ Spec => []CacheNotAheadOfMemory
<1> SUFFICES ASSUME Handler = {} PROVE Spec => []CacheNotAheadOfMemory
  OBVIOUS
<1>1. Inv /\ Ordered /\ [Next]_vars => Ordered'
  BY NextOrdered
<1>2. Inv /\ Ordered => CacheNotAheadOfMemory
  BY DEF Inv, TypeOK, Ordered, CacheNotAheadOfMemory, Valid, Version, Nil
<1> QED BY <1>1, <1>2, InitOrdered, SpecInv, PTL DEF Spec

-----------------------------------------------------------------------------
(***************************************************************************)
(* The policy engine                                                       *)
(***************************************************************************)

\* The rounds of Compile's loop are defined.
LEMMA EngineRounds ==
    ASSUME NEW d, NEW n \in Nat
    PROVE  \E c : c = [i \in 0 .. n |-> IF i = 0 THEN <<>> ELSE Engine!compileRule(c[i - 1], d[i])]
<1> DEFINE Rounds(c, m) ==
             c = [i \in 0 .. m |-> IF i = 0 THEN <<>> ELSE Engine!compileRule(c[i - 1], d[i])]
           S == {m \in Nat : \E c : Rounds(c, m)}
<1>1. 0 \in S
  <2> DEFINE z == [i \in 0 .. 0 |-> <<>>]
  <2>1. Rounds(z, 0)
    OBVIOUS
  <2> QED BY <2>1
<1>2. ASSUME NEW m \in S PROVE m + 1 \in S
  <2>1. PICK c : Rounds(c, m)
    OBVIOUS
  <2> DEFINE g == [i \in 0 .. m + 1 |-> IF i = m + 1 THEN Engine!compileRule(c[m], d[m + 1]) ELSE c[i]]
  <2>2. \A i \in 0 .. m + 1 :
           g[i] = IF i = 0 THEN <<>> ELSE Engine!compileRule(g[i - 1], d[i])
    <3> SUFFICES ASSUME NEW i \in 0 .. m + 1
                 PROVE  g[i] = IF i = 0 THEN <<>> ELSE Engine!compileRule(g[i - 1], d[i])
      OBVIOUS
    <3>1. CASE i = m + 1
      <4>1. g[i] = Engine!compileRule(c[m], d[m + 1]) /\ i # 0 /\ g[i - 1] = c[m]
        BY <3>1
      <4> HIDE DEF g
      <4> QED BY <3>1, <4>1
    <3>2. CASE i # m + 1
      <4>1. i \in 0 .. m /\ g[i] = c[i]
        BY <3>2
      <4>2. i # 0 => i - 1 \in 0 .. m /\ i - 1 # m + 1 /\ i - 1 \in 0 .. m + 1
        BY <4>1
      <4>3. i # 0 => g[i - 1] = c[i - 1]
        BY <4>2
      <4>4. c[i] = IF i = 0 THEN <<>> ELSE Engine!compileRule(c[i - 1], d[i])
        BY <2>1, <4>1
      <4> HIDE DEF g
      <4> QED BY <4>1, <4>3, <4>4
    <3> QED BY <3>1, <3>2
  <2>3. g = [i \in 0 .. m + 1 |-> g[i]]
    OBVIOUS
  <2> HIDE DEF g
  <2>4. Rounds(g, m + 1)
    BY <2>2, <2>3
  <2> QED BY <2>4
<1> HIDE DEF S
<1>3. n \in S
  <2>1. S \in SUBSET Nat
    BY DEF S
  <2> QED BY <1>1, <1>2, <2>1, SetInduction
<1> QED BY <1>3 DEF S

\* So Compile is what the last round leaves.
LEMMA EngineCompile ==
    ASSUME NEW d, Len(d) \in Nat
    PROVE  \E c : /\ c[0] = <<>> /\ Engine!Compile(d) = c[Len(d)]
                  /\ \A i \in 1 .. Len(d) : c[i] = Engine!compileRule(c[i - 1], d[i])
<1> DEFINE a == CHOOSE c : c = [i \in 0 .. Len(d) |->
                  IF i = 0 THEN <<>> ELSE Engine!compileRule(c[i - 1], d[i])]
<1>1. Engine!Compile(d) = a[Len(d)]
  BY DEF Engine!Compile
<1>2. a = [i \in 0 .. Len(d) |-> IF i = 0 THEN <<>> ELSE Engine!compileRule(a[i - 1], d[i])]
  BY EngineRounds
<1> HIDE DEF a
<1>3. a[0] = <<>>
  BY <1>2
<1>4. \A i \in 1 .. Len(d) : a[i] = Engine!compileRule(a[i - 1], d[i])
  BY <1>2
<1> QED BY <1>1, <1>3, <1>4
\* What n rounds over the document d leave: the last rule of every direction,
\* unless a rule did not compile.
Compiled(p, d, n) ==
    /\ DOMAIN p \subseteq Engine!Directions
    /\ \A D \in DOMAIN p : \E j \in 1 .. n : d[j].direction = D
    /\ \A j \in 1 .. n :
          /\ ~Engine!BadRule(d[j]) /\ d[j].direction \in DOMAIN p
          /\ (\A k \in 1 .. n : k > j => d[k].direction # d[j].direction)
                 => p[d[j].direction] = Engine!directionPolicy(d[j])

\* One round keeps it so.
LEMMA EngineRound ==
    ASSUME NEW d, NEW p, NEW n \in Nat, Compiled(p, d, n),
           NEW q, q = Engine!compileRule(p, d[n + 1]), q # Engine!CompileError
    PROVE  Compiled(q, d, n + 1)
<1> DEFINE r == d[n + 1]
<1>1. ~Engine!BadRule(r)
  BY DEF Engine!compileRule
<1>2. q = [D \in DOMAIN p \cup {r.direction} |->
              IF D = r.direction THEN Engine!directionPolicy(r) ELSE p[D]]
  BY DEF Engine!compileRule
<1>3. r.direction \in Engine!Directions
  BY <1>1 DEF Engine!BadRule
<1>4. /\ DOMAIN q = DOMAIN p \cup {r.direction} /\ q[r.direction] = Engine!directionPolicy(r)
      /\ \A D \in DOMAIN p : D # r.direction => q[D] = p[D]
  BY <1>2
<1> HIDE DEF r
<1>5. DOMAIN q \subseteq Engine!Directions
  BY <1>3, <1>4 DEF Compiled
<1>6. n + 1 \in 1 .. n + 1 /\ (1 .. n) \subseteq (1 .. n + 1) /\ r = d[n + 1]
  BY DEF r
<1>7. ASSUME NEW D \in DOMAIN q PROVE \E j \in 1 .. n + 1 : d[j].direction = D
  <2>1. CASE D \in DOMAIN p
    BY <1>6, <2>1 DEF Compiled
  <2>2. CASE D = r.direction
    BY <1>6, <2>2
  <2> QED BY <1>4, <2>1, <2>2
<1>8. ASSUME NEW j \in 1 .. n + 1
      PROVE  /\ ~Engine!BadRule(d[j]) /\ d[j].direction \in DOMAIN q
             /\ (\A k \in 1 .. n + 1 : k > j => d[k].direction # d[j].direction)
                   => q[d[j].direction] = Engine!directionPolicy(d[j])
  <2>1. CASE j = n + 1
    BY <1>1, <1>4, <1>6, <2>1
  <2>2. CASE j # n + 1
    <3>1. j \in 1 .. n /\ n + 1 > j
      BY <2>2
    <3>2. ~Engine!BadRule(d[j]) /\ d[j].direction \in DOMAIN p
      BY <3>1 DEF Compiled
    <3>3. ASSUME \A k \in 1 .. n + 1 : k > j => d[k].direction # d[j].direction
          PROVE  q[d[j].direction] = Engine!directionPolicy(d[j])
      <4>1. r.direction # d[j].direction
        BY <1>6, <3>1, <3>3
      <4>2. \A k \in 1 .. n : k > j => d[k].direction # d[j].direction
        BY <1>6, <3>3
      <4>3. p[d[j].direction] = Engine!directionPolicy(d[j])
        BY <3>1, <4>2 DEF Compiled
      <4> QED BY <1>4, <3>2, <4>1, <4>3
    <3> QED BY <1>4, <3>2, <3>3
  <2> QED BY <2>1, <2>2
<1> QED BY <1>5, <1>7, <1>8 DEF Compiled

\* A document that compiles leaves the last rule of every direction.
LEMMA EngineLastRule ==
    ASSUME NEW d, Len(d) \in Nat, Engine!Compile(d) # Engine!CompileError
    PROVE  Compiled(Engine!Compile(d), d, Len(d))
<1>1. PICK c : /\ c[0] = <<>> /\ Engine!Compile(d) = c[Len(d)]
               /\ \A i \in 1 .. Len(d) : c[i] = Engine!compileRule(c[i - 1], d[i])
  BY EngineCompile
<1> DEFINE S == {m \in Nat : m <= Len(d) => c[m] = Engine!CompileError \/ Compiled(c[m], d, m)}
<1>2. 0 \in S
  <2>1. DOMAIN c[0] = {} /\ 1 .. 0 = {}
    BY <1>1
  <2>2. Compiled(c[0], d, 0)
    BY <2>1 DEF Compiled
  <2> QED BY <2>2
<1>3. ASSUME NEW m \in S PROVE m + 1 \in S
  <2> SUFFICES ASSUME m + 1 <= Len(d), c[m + 1] # Engine!CompileError
               PROVE  Compiled(c[m + 1], d, m + 1)
    OBVIOUS
  <2>1. m \in Nat /\ m <= Len(d) /\ m + 1 \in 1 .. Len(d) /\ (m + 1) - 1 = m
    OBVIOUS
  <2>2. c[m + 1] = Engine!compileRule(c[m], d[m + 1])
    BY <1>1, <2>1
  <2>3. c[m] # Engine!CompileError
    BY <2>2 DEF Engine!compileRule
  <2>4. Compiled(c[m], d, m)
    BY <2>1, <2>3
  <2> QED BY <2>1, <2>2, <2>4, EngineRound
<1>4. S \in SUBSET Nat
  OBVIOUS
<1> HIDE DEF S
<1>5. Len(d) \in S
  BY <1>2, <1>3, <1>4, SetInduction
<1>6. Len(d) <= Len(d)
  OBVIOUS
<1> QED BY <1>1, <1>5, <1>6 DEF S

\* The end of a sequence, without Reverse: strings.HasSuffix on labels.
LEMMA SuffixIsEnd ==
    ASSUME NEW s \in Seq(STRING), NEW t \in Seq(STRING), s # <<>>
    PROVE  Engine!IsStrictSuffix(s, t) <=>
             \E n \in 1 .. Len(t) - 1 : SubSeq(t, n + 1, Len(t)) = s
<1> DEFINE Ends == Len(s) <= Len(t) /\ \A i \in 1 .. Len(s) : s[i] = t[Len(t) - Len(s) + i]
           rs == [i \in 1 .. Len(s) |-> s[(Len(s) - i) + 1]]
           rt == [i \in 1 .. Len(t) |-> t[(Len(t) - i) + 1]]
<1>1. Len(s) \in Nat /\ Len(t) \in Nat /\ Len(s) >= 1
  OBVIOUS
<1>2. rs \in Seq(STRING) /\ rt \in Seq(STRING) /\ Len(rs) = Len(s) /\ Len(rt) = Len(t)
  OBVIOUS
<1>3. Engine!IsSuffix(s, t) <=> (Len(rs) <= Len(rt) /\ SubSeq(rs, 1, Len(rs)) = SubSeq(rt, 1, Len(rs)))
  BY DEF Engine!IsSuffix, Engine!IsPrefix, Engine!Reverse
<1>4. Engine!IsSuffix(s, t) <=> Ends
  <2>1. ASSUME Engine!IsSuffix(s, t) PROVE Ends
    <3>1. Len(s) <= Len(t) /\ \A i \in 1 .. Len(s) : rs[i] = rt[i]
      <4>1. Len(s) <= Len(t) /\ SubSeq(rs, 1, Len(s)) = SubSeq(rt, 1, Len(s))
        BY <1>2, <1>3, <2>1
      <4> HIDE DEF rs, rt
      <4> QED BY <1>1, <1>2, <4>1
    <3>2. ASSUME NEW i \in 1 .. Len(s) PROVE s[i] = t[Len(t) - Len(s) + i]
      <4> DEFINE k == Len(s) - i + 1
      <4>1. k \in 1 .. Len(s) /\ k \in 1 .. Len(t) /\ (Len(s) - k) + 1 = i
            /\ (Len(t) - k) + 1 = Len(t) - Len(s) + i
        BY <1>1, <3>1
      <4>2. rs[k] = rt[k]
        BY <3>1, <4>1
      <4> HIDE DEF k
      <4>3. rs[k] = s[i] /\ rt[k] = t[Len(t) - Len(s) + i]
        BY <4>1
      <4> QED BY <4>2, <4>3
    <3> QED BY <3>1, <3>2
  <2>2. ASSUME Ends PROVE Engine!IsSuffix(s, t)
    <3>1. ASSUME NEW k \in 1 .. Len(s) PROVE rs[k] = rt[k]
      <4> DEFINE i == Len(s) - k + 1
      <4>1. i \in 1 .. Len(s) /\ k \in 1 .. Len(t) /\ i = (Len(s) - k) + 1
            /\ (Len(t) - k) + 1 = Len(t) - Len(s) + i
        BY <1>1, <2>2
      <4>2. s[i] = t[Len(t) - Len(s) + i]
        BY <2>2, <4>1
      <4>3. rs[k] = s[(Len(s) - k) + 1] /\ rt[k] = t[(Len(t) - k) + 1]
        BY <4>1
      <4> HIDE DEF i, rs, rt
      <4> QED BY <4>1, <4>2, <4>3
    <3> HIDE DEF rs, rt
    <3>2. SubSeq(rs, 1, Len(s)) = SubSeq(rt, 1, Len(s))
      BY <1>1, <1>2, <2>2, <3>1
    <3> QED BY <1>2, <1>3, <2>2, <3>2
  <2> QED BY <2>1, <2>2
<1>5. ASSUME Ends, s # t PROVE \E n \in 1 .. Len(t) - 1 : SubSeq(t, n + 1, Len(t)) = s
  <2> DEFINE n == Len(t) - Len(s)
  <2>1. Len(s) # Len(t)
    <3> SUFFICES ASSUME Len(s) = Len(t) PROVE FALSE
      OBVIOUS
    <3>1. \A i \in 1 .. Len(s) : s[i] = t[i]
      BY <1>1, <1>5
    <3> QED BY <1>5, <3>1
  <2>2. n \in 1 .. Len(t) - 1
    BY <1>1, <1>5, <2>1
  <2>3. SubSeq(t, n + 1, Len(t)) = s
    <3>1. Len(SubSeq(t, n + 1, Len(t))) = Len(s) /\ SubSeq(t, n + 1, Len(t)) \in Seq(STRING)
      BY <1>1, <2>2
    <3>2. \A i \in 1 .. Len(s) : SubSeq(t, n + 1, Len(t))[i] = t[n + i]
      BY <1>1, <2>2
    <3>3. \A i \in 1 .. Len(s) : SubSeq(t, n + 1, Len(t))[i] = s[i]
      BY <1>5, <3>2
    <3> DEFINE z == SubSeq(t, n + 1, Len(t))
    <3>4. z \in Seq(STRING) /\ Len(z) = Len(s) /\ \A i \in 1 .. Len(s) : z[i] = s[i]
      BY <3>1, <3>3
    <3> HIDE DEF z
    <3>5. z = s
      BY <3>4
    <3> QED BY <3>5 DEF z
  <2> QED BY <2>2, <2>3
<1>6. ASSUME NEW n \in 1 .. Len(t) - 1, SubSeq(t, n + 1, Len(t)) = s PROVE Ends /\ s # t
  <2>1. Len(s) = Len(t) - n
    BY <1>1, <1>6
  <2>2. \A i \in 1 .. Len(s) : s[i] = t[n + i]
    BY <1>1, <1>6, <2>1
  <2>3. Len(t) - Len(s) = n
    BY <1>1, <2>1
  <2>4. Len(s) <= Len(t) /\ s # t
    BY <1>1, <2>1
  <2> QED BY <2>2, <2>3, <2>4
<1> HIDE DEF Ends
<1> QED BY <1>4, <1>5, <1>6 DEF Engine!IsStrictSuffix
\* The four matchers of a list together cover what its entries cover one by
\* one.
LEMMA EngineMatches ==
    ASSUME NEW list \in SUBSET Engine!Entry, \A e \in list : ~Engine!BadEntry(e),
           NEW host \in Engine!HostText, NEW ip
    PROVE  Engine!matches(Engine!compileMatcherSet(list), Engine!normalizeDomain(host), ip)
             <=> \E e \in list : Engine!Covers(e, host, ip)
<1> DEFINE set == Engine!compileMatcherSet(list)
           domain == host.labels
<1>1. domain \in Seq(STRING) /\ Engine!normalizeDomain(host) = domain
  BY DEF Engine!HostText, Engine!normalizeDomain
<1>2. /\ set.nets = {e.net : e \in {x \in list : x.kind = "cidr"}}
      /\ set.ips = {e.ip : e \in {x \in list : x.kind = "ip"}}
      /\ set.domains = {e.host.labels : e \in {x \in list : x.kind = "host"}} \ {<<>>}
      /\ set.wildcardDomains = {e.host.labels : e \in {x \in list : x.kind = "wild"}}
  BY DEF Engine!compileMatcherSet, Engine!normalizeDomain
<1>3. ASSUME NEW e \in list, e.kind = "wild"
      PROVE  e.host.labels \in Seq(STRING) /\ e.host.labels # <<>>
  <2>1. e \in [kind : {"host", "wild"}, host : Engine!HostText]
    BY <1>3 DEF Engine!Entry
  <2>2. e.host \in Engine!HostText
    BY <2>1
  <2>3. e.host.labels \in Seq(STRING)
    BY <2>2 DEF Engine!HostText
  <2> QED BY <1>3, <2>3 DEF Engine!BadEntry, Engine!normalizeDomain
<1>4. ASSUME NEW e \in list, e.kind = "wild"
      PROVE  Engine!IsStrictSuffix(e.host.labels, domain) <=> Engine!Covers(e, host, ip)
  BY <1>1, <1>3, <1>4, SuffixIsEnd DEF Engine!Covers
<1>5. ASSUME NEW e \in list, e.kind = "wild", domain = <<>>
      PROVE  ~Engine!IsStrictSuffix(e.host.labels, domain)
  <2>1. Len(domain) = 0 /\ 1 .. Len(domain) - 1 = {}
    BY <1>5
  <2> QED BY <1>1, <1>3, <1>5, <2>1, SuffixIsEnd
<1> HIDE DEF set, domain
<1>6. Engine!matches(set, domain, ip) <=>
        \/ \E e \in list : e.kind = "host" /\ domain # <<>> /\ domain = e.host.labels
        \/ \E e \in list : e.kind = "wild" /\ Engine!IsStrictSuffix(e.host.labels, domain)
        \/ \E e \in list : e.kind = "ip" /\ ip = e.ip
        \/ \E e \in list : e.kind = "cidr" /\ ip \in e.net
  <2>1. (domain # <<>> /\ domain \in set.domains) <=>
           \E e \in list : e.kind = "host" /\ domain # <<>> /\ domain = e.host.labels
    BY <1>2
  <2>2. (domain # <<>> /\ \E suffix \in set.wildcardDomains : Engine!IsStrictSuffix(suffix, domain)) <=>
           \E e \in list : e.kind = "wild" /\ Engine!IsStrictSuffix(e.host.labels, domain)
    BY <1>2, <1>5
  <2>3. ip \in set.ips <=> \E e \in list : e.kind = "ip" /\ ip = e.ip
    BY <1>2
  <2>4. (\E net \in set.nets : ip \in net) <=> \E e \in list : e.kind = "cidr" /\ ip \in e.net
    BY <1>2
  <2> QED BY <2>1, <2>2, <2>3, <2>4 DEF Engine!matches
<1>7. ASSUME NEW e \in list
      PROVE  Engine!Covers(e, host, ip) <=>
               \/ e.kind = "host" /\ domain # <<>> /\ domain = e.host.labels
               \/ e.kind = "wild" /\ Engine!IsStrictSuffix(e.host.labels, domain)
               \/ e.kind = "ip" /\ ip = e.ip
               \/ e.kind = "cidr" /\ ip \in e.net
  <2>1. CASE e.kind = "wild"
    BY <1>4, <2>1
  <2>2. CASE e.kind = "host"
    BY <2>2 DEF Engine!Covers, domain
  <2>3. CASE e.kind = "ip"
    BY <2>3 DEF Engine!Covers
  <2>4. CASE e.kind = "cidr"
    BY <2>4 DEF Engine!Covers
  <2>5. CASE e.kind \notin {"wild", "host", "ip", "cidr"}
    BY <2>5 DEF Engine!Covers
  <2> QED BY <2>1, <2>2, <2>3, <2>4, <2>5
<1>8. Engine!matches(set, domain, ip) <=> \E e \in list : Engine!Covers(e, host, ip)
  BY <1>6, <1>7
<1> QED BY <1>1, <1>8 DEF set

\* What the compiled policy allows is what the document allows.
LEMMA EngineAllows ==
    ASSUME Engine!PolicyIsCompiled, NEW D \in Engine!Directions, NEW host \in Engine!HostText, NEW ip
    PROVE  Engine!PolicyAllows(compiled, D, host, ip) <=> Engine!DocumentAllows(D, host, ip)
<1> DEFINE R == Engine!RulesFor(D)
<1>1. CASE doc = <<>> /\ compiled = Engine!Nil
  <2>1. R = {}
    BY <1>1 DEF Engine!RulesFor
  <2> QED BY <1>1, <2>1 DEF Engine!PolicyAllows, Engine!DocumentAllows
<1>2. CASE /\ doc \in Seq(Engine!RuleDocument)
           /\ compiled = Engine!Compile(doc) /\ compiled # Engine!CompileError
  <2>1. Len(doc) \in Nat /\ DOMAIN doc = 1 .. Len(doc)
    BY <1>2
  <2>2. Compiled(compiled, doc, Len(doc))
    BY <1>2, <2>1, EngineLastRule
  <2>3. compiled # Engine!Nil
    <3>1. DOMAIN Engine!Nil = {"nil"} /\ "nil" \notin Engine!Directions
      BY DEF Engine!Nil, Engine!Directions, Engine!DirectionInbound, Engine!DirectionOutbound
    <3> QED BY <2>2, <3>1 DEF Compiled
  <2>4. CASE R = {}
    <3>1. D \notin DOMAIN compiled
      BY <2>1, <2>2, <2>4 DEF Compiled, Engine!RulesFor
    <3> QED BY <2>4, <3>1 DEF Engine!PolicyAllows, Engine!DocumentAllows
  <2>5. CASE R # {}
    <3>1. R \in SUBSET (0 .. Len(doc))
      BY <2>1 DEF Engine!RulesFor
    <3> HIDE DEF R
    <3>2. PICK m \in R : \A k \in R : k <= m
      BY <2>1, <2>5, <3>1, LargestOf
    <3>3. m \in 1 .. Len(doc) /\ doc[m].direction = D
      BY <2>1, <3>2 DEF R, Engine!RulesFor
    <3>4. \A k \in 1 .. Len(doc) : k > m => doc[k].direction # doc[m].direction
      BY <2>1, <3>2, <3>3 DEF R, Engine!RulesFor
    <3>5. /\ D \in DOMAIN compiled /\ compiled[D] = Engine!directionPolicy(doc[m])
          /\ ~Engine!BadRule(doc[m])
      BY <2>2, <3>3, <3>4 DEF Compiled
    <3>6. doc[m] \in Engine!RuleDocument
      BY <1>2, <3>3
    <3> DEFINE rule == doc[m]
    <3>7. rule.allowList \in SUBSET Engine!Entry /\ rule.blockList \in SUBSET Engine!Entry
      BY <3>6 DEF Engine!RuleDocument
    <3>8. \A e \in rule.allowList \cup rule.blockList : ~Engine!BadEntry(e)
      BY <3>5 DEF Engine!BadRule
    <3>9. /\ compiled[D].mode = Engine!ModeOf(rule)
          /\ compiled[D].allow = Engine!compileMatcherSet(rule.allowList)
          /\ compiled[D].block = Engine!compileMatcherSet(rule.blockList)
      BY <3>5 DEF Engine!directionPolicy
    <3>10. /\ Engine!matches(compiled[D].allow, Engine!normalizeDomain(host), ip)
                <=> \E e \in rule.allowList : Engine!Covers(e, host, ip)
           /\ Engine!matches(compiled[D].block, Engine!normalizeDomain(host), ip)
                <=> \E e \in rule.blockList : Engine!Covers(e, host, ip)
      BY <3>7, <3>8, <3>9, EngineMatches
    <3>11. /\ Engine!ModeOf(rule) \in {"default_allow", "default_deny"}
           /\ Engine!ModeOf(rule) = "default_deny" <=> rule.mode = "default_deny"
      BY <3>5 DEF Engine!BadRule, Engine!ModeOf, Engine!ModeDefaultAllow, Engine!ModeDefaultDeny
    <3> DEFINE Says(i) == IF doc[i].mode = "default_deny"
                            THEN \E e \in doc[i].allowList : Engine!Covers(e, host, ip)
                            ELSE \A e \in doc[i].blockList : ~Engine!Covers(e, host, ip)
    <3>12. Engine!PolicyAllows(compiled, D, host, ip) <=> Says(m)
      <4>1. Engine!PolicyAllows(compiled, D, host, ip) <=>
              \/ compiled[D].mode = "default_allow"
                   /\ ~Engine!matches(compiled[D].block, Engine!normalizeDomain(host), ip)
              \/ compiled[D].mode = "default_deny"
                   /\ Engine!matches(compiled[D].allow, Engine!normalizeDomain(host), ip)
        BY <2>3, <3>5 DEF Engine!PolicyAllows, Engine!ModeDefaultAllow, Engine!ModeDefaultDeny
      <4> QED BY <3>9, <3>10, <3>11, <4>1
    <3>13. Engine!DocumentAllows(D, host, ip) <=> Says(m)
      <4>1. Engine!DocumentAllows(D, host, ip) <=>
              \A i \in R : (\E j \in R : j > i) \/ Says(i)
        BY DEF Engine!DocumentAllows, Engine!ModeDefaultDeny, R
      <4> HIDE DEF Says
      <4>2. \A i \in R : (\E j \in R : j > i) \/ i = m
        BY <3>1, <3>2
      <4>3. ~\E j \in R : j > m
        BY <3>1, <3>2
      <4> QED BY <3>2, <4>1, <4>2, <4>3
    <3> QED BY <3>12, <3>13
  <2> QED BY <2>4, <2>5
<1> QED BY <1>1, <1>2 DEF Engine!PolicyIsCompiled
\* Every decision follows the installed document (policy.go, Compile and
\* Evaluate; manager.go, directionEnabled): for documents of any length, with
\* any lists, and connections of any name and address, the last rule of the
\* direction speaks and its list covers what its entries say.
THEOREM EngineDecisionFollowsDocument == Engine!Spec => []DecisionFollowsDocument
<1>1. Engine!Init => Engine!EngineInv
  BY DEF Engine!Init, Engine!EngineInv, Engine!PolicyIsCompiled, Engine!DecisionFollowsDocument
<1>2. Engine!EngineInv /\ [Engine!Next]_(Engine!vars) => Engine!EngineInv'
  <2> SUFFICES ASSUME Engine!EngineInv, [Engine!Next]_(Engine!vars) PROVE Engine!EngineInv'
    OBVIOUS
  <2>1. ASSUME NEW d \in Docs, Engine!Install(d) PROVE Engine!EngineInv'
    <3>1. d \in Seq(Engine!RuleDocument)
      BY EngineAssumption DEF Engine!DocsAssumption
    <3>2. doc' = d /\ compiled' = Engine!Compile(d) /\ Engine!Compile(d) # Engine!CompileError
          /\ decision' = Engine!Undecided
      BY <2>1 DEF Engine!Install
    <3>3. Engine!PolicyIsCompiled'
      BY <3>1, <3>2 DEF Engine!PolicyIsCompiled
    <3> QED BY <3>2, <3>3 DEF Engine!EngineInv, Engine!DecisionFollowsDocument
  <2>2. ASSUME NEW D \in Engine!Directions, NEW host \in Hosts, NEW ip \in Addrs,
               Engine!Decide(D, host, ip)
        PROVE  Engine!EngineInv'
    <3>1. host \in Engine!HostText
      BY EngineAssumption DEF Engine!DocsAssumption
    <3>2. /\ UNCHANGED <<scope, doc, compiled>>
          /\ decision' = [direction |-> D, host |-> host, ip |-> ip,
                          allowed |-> Engine!Evaluate(D, host, ip)]
      BY <2>2 DEF Engine!Decide
    <3>3. /\ decision'.direction = D /\ decision'.host = host /\ decision'.ip = ip
          /\ decision'.allowed = Engine!Evaluate(D, host, ip)
      BY <3>2
    <3>4. Engine!directionEnabled(scope, D) <=> Engine!InScope(D)
      BY DEF Engine!directionEnabled, Engine!InScope, Engine!Directions,
             Engine!DirectionInbound, Engine!DirectionOutbound
    <3>5. Engine!Evaluate(D, host, ip) <=> ~Engine!InScope(D) \/ Engine!DocumentAllows(D, host, ip)
      BY <3>1, <3>4, EngineAllows DEF Engine!Evaluate, Engine!EngineInv
    <3>6. Engine!InScope(D)' <=> Engine!InScope(D)
      BY <3>2 DEF Engine!InScope
    <3>7. Engine!DocumentAllows(D, host, ip)' <=> Engine!DocumentAllows(D, host, ip)
      BY <3>2 DEF Engine!DocumentAllows, Engine!RulesFor
    <3>8. Engine!DecisionFollowsDocument'
      BY <3>3, <3>5, <3>6, <3>7 DEF Engine!DecisionFollowsDocument
    <3>9. Engine!PolicyIsCompiled'
      BY <3>2 DEF Engine!EngineInv, Engine!PolicyIsCompiled
    <3> QED BY <3>8, <3>9 DEF Engine!EngineInv
  <2>3. CASE UNCHANGED Engine!vars
    <3>1. scope' = scope /\ doc' = doc /\ compiled' = compiled /\ decision' = decision
      BY <2>3 DEF Engine!vars
    <3> QED BY <3>1 DEF Engine!EngineInv, Engine!PolicyIsCompiled, Engine!DecisionFollowsDocument,
              Engine!InScope, Engine!DocumentAllows, Engine!RulesFor
  <2> QED BY <2>1, <2>2, <2>3 DEF Engine!Next
<1>3. Engine!EngineInv => DecisionFollowsDocument
  BY DEF Engine!EngineInv, DecisionFollowsDocument
<1> QED BY <1>1, <1>2, <1>3, PTL DEF Engine!Spec

-----------------------------------------------------------------------------
(***************************************************************************)
(* The parser of a ClientHello                                             *)
(***************************************************************************)

\* A loop over bytes that stops, or goes on with fewer of them.
Shrinks(stop, nxt) ==
    \A s \in Seq(Nat) \ stop : nxt[s] \in Seq(Nat) /\ Len(nxt[s]) < Len(s)
IsLoop(stop, val, nxt, F) ==
    F = [s \in Seq(Nat) |-> IF s \in stop THEN val[s] ELSE F[nxt[s]]]

\* Such a loop is defined.
LEMMA ParseLoop ==
    ASSUME NEW stop, NEW val, NEW nxt, Shrinks(stop, nxt)
    PROVE  \E F : IsLoop(stop, val, nxt, F)
<1> DEFINE A == Nat
<1>a. \A s \in Seq(A) \ stop : nxt[s] \in Seq(A) /\ Len(nxt[s]) < Len(s)
  BY DEF Shrinks
<1> HIDE DEF A
<1> DEFINE D(m) == {s \in Seq(A) : Len(s) <= m}
           Loop(f, m) == f = [s \in D(m) |-> IF s \in stop THEN val[s] ELSE f[nxt[s]]]
<1>0. ASSUME NEW f, NEW m \in Nat, Loop(f, m), NEW s \in D(m)
      PROVE  f[s] = IF s \in stop THEN val[s] ELSE f[nxt[s]]
  BY <1>0, Zenon
<1>1. ASSUME NEW m \in Nat, NEW s \in D(m), s \notin stop
      PROVE  nxt[s] \in D(m) /\ Len(nxt[s]) < Len(s) /\ nxt[s] \in Seq(A) /\ Len(nxt[s]) \in Nat
  BY <1>a, <1>1
<1>2. ASSUME NEW m \in Nat, NEW n \in Nat, NEW f, NEW g, Loop(f, m), Loop(g, n),
             NEW s \in D(m), s \in D(n)
      PROVE  f[s] = g[s]
  <2> DEFINE bad == {l \in Nat : \E x \in D(m) : x \in D(n) /\ Len(x) = l /\ f[x] # g[x]}
  <2> SUFFICES ASSUME f[s] # g[s] PROVE FALSE
    OBVIOUS
  <2>1. bad \in SUBSET Nat /\ bad # {}
    <3>1. Len(s) \in Nat
      OBVIOUS
    <3> HIDE DEF D
    <3>2. Len(s) \in bad
      BY <1>2, <3>1
    <3> QED BY <3>2
  <2>2. PICK l \in bad : \A j \in bad : l <= j
    <3> HIDE DEF bad
    <3> QED BY <2>1, SmallestOf
  <2>3. PICK x \in D(m) : x \in D(n) /\ Len(x) = l /\ f[x] # g[x]
    OBVIOUS
  <2>4. /\ f[x] = IF x \in stop THEN val[x] ELSE f[nxt[x]]
        /\ g[x] = IF x \in stop THEN val[x] ELSE g[nxt[x]]
    <3> HIDE DEF D, Loop
    <3> QED BY <1>0, <1>2, <2>3
  <2>5. x \notin stop /\ f[nxt[x]] # g[nxt[x]]
    BY <2>3, <2>4
  <2>6. nxt[x] \in D(m) /\ nxt[x] \in D(n) /\ Len(nxt[x]) < l /\ Len(nxt[x]) \in Nat
    BY <1>1, <2>3, <2>5
  <2>7. Len(nxt[x]) \in bad
    <3> HIDE DEF D
    <3> QED BY <2>5, <2>6
  <2> HIDE DEF bad
  <2>8. l \in Nat
    BY <2>1
  <2> QED BY <2>2, <2>6, <2>7, <2>8
<1> DEFINE Made(m) == \E f : Loop(f, m)
           S == {m \in Nat : Made(m)}
<1>3. Made(0)
  <2> DEFINE f == [s \in D(0) |-> val[s]]
  <2>1. ASSUME NEW s \in D(0) PROVE s \in stop
    BY <1>1
  <2>2. \A s \in D(0) : f[s] = IF s \in stop THEN val[s] ELSE f[nxt[s]]
    <3> HIDE DEF D
    <3> QED BY <2>1
  <2>3. f = [s \in D(0) |-> f[s]]
    OBVIOUS
  <2> HIDE DEF f, D
  <2>4. Loop(f, 0)
    BY <2>2, <2>3, Zenon
  <2> QED BY <2>4
<1>4. ASSUME NEW m \in Nat, Made(m) PROVE Made(m + 1)
  <2>1. PICK f : Loop(f, m)
    BY <1>4
  <2> DEFINE g == [s \in D(m + 1) |-> IF s \in stop THEN val[s] ELSE f[nxt[s]]]
  <2>2. ASSUME NEW s \in D(m + 1), s \notin stop PROVE g[s] = f[nxt[s]] /\ g[nxt[s]] = f[nxt[s]]
    <3>1. nxt[s] \in D(m) /\ nxt[s] \in D(m + 1)
      BY <1>1, <2>2
    <3>2. f[nxt[s]] = IF nxt[s] \in stop THEN val[nxt[s]] ELSE f[nxt[nxt[s]]]
      <4> HIDE DEF D, Loop
      <4> QED BY <1>0, <2>1, <3>1
    <3> HIDE DEF D, Loop
    <3> QED BY <2>2, <3>1, <3>2
  <2>3. \A s \in D(m + 1) : g[s] = IF s \in stop THEN val[s] ELSE g[nxt[s]]
    <3>1. \A s \in D(m + 1) : s \in stop => g[s] = val[s]
      OBVIOUS
    <3> HIDE DEF g, D
    <3> QED BY <2>2, <3>1
  <2>4. g = [s \in D(m + 1) |-> g[s]]
    OBVIOUS
  <2> HIDE DEF g, D
  <2>5. Loop(g, m + 1)
    BY <2>3, <2>4, Zenon
  <2> QED BY <2>5
<1>5. \A m \in Nat : Made(m)
  <2> HIDE DEF Made
  <2>1. S \in SUBSET Nat /\ 0 \in S /\ \A m \in S : m + 1 \in S
    BY <1>3, <1>4
  <2>2. \A m \in Nat : m \in S
    <3> HIDE DEF S
    <3> QED BY <2>1, SetInduction
  <2> QED BY <2>2
<1> DEFINE G(m) == CHOOSE f : Loop(f, m)
           F == [s \in Seq(A) |-> G(Len(s))[s]]
<1>6. \A m \in Nat : Loop(G(m), m)
  <2> HIDE DEF Loop
  <2> QED BY <1>5, Zenon
<1> HIDE DEF G
<1>7. ASSUME NEW s \in Seq(A) PROVE F[s] = IF s \in stop THEN val[s] ELSE F[nxt[s]]
  <2>1. Len(s) \in Nat /\ s \in D(Len(s))
    OBVIOUS
  <2>2. F[s] = IF s \in stop THEN val[s] ELSE G(Len(s))[nxt[s]]
    <3> HIDE DEF Loop, D
    <3> QED BY <1>0, <1>6, <2>1
  <2>3. ASSUME s \notin stop PROVE F[nxt[s]] = G(Len(s))[nxt[s]]
    <3>1. nxt[s] \in Seq(A) /\ Len(nxt[s]) \in Nat /\ nxt[s] \in D(Len(s))
      BY <1>1, <2>1, <2>3
    <3>2. nxt[s] \in D(Len(nxt[s]))
      BY <3>1
    <3>3. G(Len(nxt[s]))[nxt[s]] = G(Len(s))[nxt[s]]
      <4> HIDE DEF Loop, D
      <4> QED BY <1>2, <1>6, <2>1, <3>1, <3>2
    <3> HIDE DEF D
    <3> QED BY <3>1, <3>3
  <2> HIDE DEF F
  <2> QED BY <2>2, <2>3
<1>8. F = [s \in Seq(A) |-> F[s]]
  OBVIOUS
<1> HIDE DEF F
<1>9. F = [s \in Seq(A) |-> IF s \in stop THEN val[s] ELSE F[nxt[s]]]
  BY <1>7, <1>8, Zenon
<1> QED BY <1>9, Zenon DEF IsLoop, A

\* Two sequences one after the other, and a part of one.
LEMMA ParseConcat ==
    ASSUME NEW a \in Seq(Nat), NEW b \in Seq(Nat)
    PROVE  /\ a \o b \in Seq(Nat) /\ Len(a \o b) = Len(a) + Len(b) /\ Len(a) \in Nat /\ Len(b) \in Nat
           /\ \A i \in 1 .. Len(a) : (a \o b)[i] = a[i]
           /\ \A i \in 1 .. Len(b) : (a \o b)[Len(a) + i] = b[i]
OBVIOUS

\* Three sequences one after the other.
LEMMA ParseAssociative ==
    ASSUME NEW a \in Seq(Nat), NEW b \in Seq(Nat), NEW c \in Seq(Nat)
    PROVE  (a \o b) \o c = a \o (b \o c)
BY ConcatAssociative

\* A part of a sequence.
LEMMA ParsePart ==
    ASSUME NEW s \in Seq(Nat), NEW m \in Nat, NEW n \in Nat, 1 <= m, n <= Len(s), m <= n + 1
    PROVE  /\ SubSeq(s, m, n) \in Seq(Nat) /\ Len(SubSeq(s, m, n)) = n - m + 1
           /\ \A i \in 1 .. (n - m + 1) : SubSeq(s, m, n)[i] = s[m + i - 1]
<1>1. \A i \in m .. n : i \in 1 .. Len(s)
  OBVIOUS
<1>2. \A i \in m .. n : s[i] \in Nat
  BY <1>1
<1>3. m \in Int /\ n \in Int
  OBVIOUS
<1>4. /\ SubSeq(s, m, n) \in Seq(Nat) /\ Len(SubSeq(s, m, n)) = IF m <= n THEN n - m + 1 ELSE 0
      /\ \A i \in 1 .. (n - m + 1) : SubSeq(s, m, n)[i] = s[m + i - 1]
  BY <1>2, <1>3, SubSeqProperties
<1>5. ~(m <= n) => n - m + 1 = 0
  OBVIOUS
<1> QED BY <1>4, <1>5

\* The first byte of a sequence that has one.
LEMMA ParseFirst ==
    ASSUME NEW s \in Seq(Nat), s # <<>>
    PROVE  Len(s) \in Nat /\ Len(s) >= 1 /\ s[1] \in Nat /\ 1 \in 1 .. Len(s)
<1>1. Len(s) \in Nat /\ Len(s) # 0
  BY EmptySeq
<1>2. 1 \in 1 .. Len(s)
  BY <1>1
<1> QED BY <1>1, <1>2

\* A vector with its length in front.
LEMMA ParseVector ==
    ASSUME NEW v \in Seq(Nat), NEW r \in Seq(Nat)
    PROVE  LET s == Parser!Prefixed(v) \o r
           IN  s \in Seq(Nat) /\ s # <<>> /\ Len(s) = 1 + Len(v) + Len(r)
               /\ Parser!Fits(s) /\ Parser!Data(s) = v /\ Parser!After(s) = r
<1> DEFINE p == <<Len(v)>> \o v
           s == p \o r
<1>1. Len(v) \in Nat /\ Len(r) \in Nat
  OBVIOUS
<1>2. p \in Seq(Nat) /\ Len(p) = 1 + Len(v) /\ p[1] = Len(v) /\ \A i \in 1 .. Len(v) : p[1 + i] = v[i]
  OBVIOUS
<1> HIDE DEF p
<1>3. /\ s \in Seq(Nat) /\ Len(s) = 1 + Len(v) + Len(r)
      /\ \A i \in 1 .. Len(p) : s[i] = p[i]
      /\ \A i \in 1 .. Len(r) : s[Len(p) + i] = r[i]
  <2>1. /\ s \in Seq(Nat) /\ Len(s) = Len(p) + Len(r)
        /\ \A i \in 1 .. Len(p) : s[i] = p[i]
        /\ \A i \in 1 .. Len(r) : s[Len(p) + i] = r[i]
    <3>1. p \in Seq(Nat)
      BY <1>2
    <3> QED BY <3>1, ParseConcat
  <2> HIDE DEF s
  <2>2. Len(s) = 1 + Len(v) + Len(r)
    BY <1>1, <1>2, <2>1
  <2> QED BY <2>1, <2>2
<1>4. s[1] = Len(v) /\ (\A i \in 1 .. Len(v) : s[1 + i] = v[i])
      /\ (\A i \in 1 .. Len(r) : s[1 + Len(v) + i] = r[i])
  <2> HIDE DEF s
  <2>1. 1 \in 1 .. Len(p) /\ \A i \in 1 .. Len(v) : 1 + i \in 1 .. Len(p)
    BY <1>1, <1>2
  <2>2. \A i \in 1 .. Len(r) : 1 + Len(v) + i = Len(p) + i
    BY <1>1, <1>2
  <2> QED BY <1>2, <1>3, <2>1, <2>2
<1> HIDE DEF s
<1>5. s # <<>> /\ Parser!Fits(s)
  BY <1>1, <1>3, <1>4, EmptySeq DEF Parser!Fits
<1>6. Parser!Data(s) = v
  <2> DEFINE d == SubSeq(s, 2, 1 + Len(v))
  <2>1. d \in Seq(Nat) /\ Len(d) = Len(v) /\ \A i \in 1 .. Len(v) : d[i] = s[2 + i - 1]
    BY <1>1, <1>3, SubSeqProperties
  <2>2. \A i \in 1 .. Len(v) : d[i] = v[i]
    <3> HIDE DEF d
    <3>1. \A i \in 1 .. Len(v) : 2 + i - 1 = 1 + i
      BY <1>1
    <3> QED BY <1>4, <2>1, <3>1
  <2>3. Parser!Data(s) = d
    BY <1>4 DEF Parser!Data
  <2> HIDE DEF d
  <2>4. d = v
    BY <2>1, <2>2, SeqEqual
  <2> QED BY <2>3, <2>4
<1>7. Parser!After(s) = r
  <2> DEFINE a == SubSeq(s, (1 + Len(v)) + 1, Len(s))
  <2>1. a \in Seq(Nat) /\ Len(a) = Len(r) /\ \A i \in 1 .. Len(r) : a[i] = s[((1 + Len(v)) + 1) + i - 1]
    <3> DEFINE m == (1 + Len(v)) + 1
               n == Len(s)
    <3>1. m \in Nat /\ n \in Nat /\ 1 <= m /\ n <= Len(s) /\ m <= n + 1 /\ n - m + 1 = Len(r)
      BY <1>1, <1>3
    <3> HIDE DEF m, n
    <3>2. /\ SubSeq(s, m, n) \in Seq(Nat) /\ Len(SubSeq(s, m, n)) = n - m + 1
          /\ \A i \in 1 .. (n - m + 1) : SubSeq(s, m, n)[i] = s[m + i - 1]
      BY <1>3, <3>1, ParsePart
    <3>3. a = SubSeq(s, m, n)
      BY DEF m, n
    <3> HIDE DEF a
    <3> QED BY <3>1, <3>2, <3>3 DEF m
  <2>2. \A i \in 1 .. Len(r) : a[i] = r[i]
    <3> HIDE DEF a
    <3>1. \A i \in 1 .. Len(r) : ((1 + Len(v)) + 1) + i - 1 = 1 + Len(v) + i
      BY <1>1
    <3> QED BY <1>4, <2>1, <3>1
  <2>3. Parser!After(s) = a
    BY <1>4 DEF Parser!After, Parser!Drop
  <2> HIDE DEF a
  <2>4. a = r
    BY <2>1, <2>2, SeqEqual
  <2> QED BY <2>3, <2>4
<1> QED BY <1>3, <1>5, <1>6, <1>7 DEF s, p, Parser!Prefixed

\* An item of a list, and what follows it.
LEMMA ParseItem ==
    ASSUME NEW t \in Nat, NEW d \in Seq(Nat), NEW r \in Seq(Nat)
    PROVE  LET s == (<<t>> \o Parser!Prefixed(d)) \o r
           IN  /\ s \in Seq(Nat) /\ Len(s) >= 2 /\ Head(s) = t
               /\ Parser!Fits(Tail(s)) /\ Parser!Data(Tail(s)) = d /\ Parser!After(Tail(s)) = r
<1> DEFINE u == Parser!Prefixed(d) \o r
           s == (<<t>> \o Parser!Prefixed(d)) \o r
<1>1. Parser!Prefixed(d) \in Seq(Nat)
  BY DEF Parser!Prefixed
<1>2. u \in Seq(Nat) /\ u # <<>> /\ Parser!Fits(u) /\ Parser!Data(u) = d /\ Parser!After(u) = r
  BY ParseVector
<1>3. s = <<t>> \o u
  <2> DEFINE x == Parser!Prefixed(d)
  <2> HIDE DEF x
  <2>1. <<t>> \in Seq(Nat) /\ x \in Seq(Nat)
    BY <1>1 DEF x
  <2>2. (<<t>> \o x) \o r = <<t>> \o (x \o r)
    BY <2>1, ConcatAssociative
  <2> QED BY <2>2 DEF x
<1> HIDE DEF u, s
<1>4. Len(u) \in Nat /\ Len(u) # 0
  BY <1>2, EmptySeq
<1>5. s \in Seq(Nat) /\ Len(s) = 1 + Len(u) /\ Head(s) = t
  BY <1>2, <1>3, <1>4
<1>6. Tail(s) = u
  <2>1. Tail(s) \in Seq(Nat) /\ Len(Tail(s)) = Len(u) /\ \A i \in 1 .. Len(u) : Tail(s)[i] = s[i + 1]
    BY <1>2, <1>4, <1>5
  <2>2. \A i \in 1 .. Len(u) : s[i + 1] = u[i]
    BY <1>2, <1>3, <1>4
  <2> QED BY <1>2, <2>1, <2>2, SeqEqual
<1>7. Len(s) >= 2
  BY <1>4, <1>5
<1>8. /\ s \in Seq(Nat) /\ Len(s) >= 2 /\ Head(s) = t
      /\ Parser!Fits(Tail(s)) /\ Parser!Data(Tail(s)) = d /\ Parser!After(Tail(s)) = r
  BY <1>2, <1>5, <1>6, <1>7, Zenon
<1> QED BY <1>8, Zenon DEF s

\* What remains after an item is shorter.
LEMMA ParseShorter ==
    ASSUME NEW s \in Seq(Nat), ~(Len(s) < 2), Parser!Fits(Tail(s))
    PROVE  Parser!After(Tail(s)) \in Seq(Nat) /\ Len(Parser!After(Tail(s))) < Len(s)
<1> DEFINE u == Tail(s)
<1>1. u \in Seq(Nat) /\ Len(u) = Len(s) - 1 /\ Len(s) \in Nat /\ Len(u) \in Nat
  <2>1. s # <<>>
    OBVIOUS
  <2> QED BY <2>1
<1> HIDE DEF u
<1>2. u # <<>> /\ Len(u) >= 1 + u[1]
  BY DEF Parser!Fits, u
<1>3. u[1] \in Nat
  BY <1>1, <1>2, ParseFirst
<1> DEFINE l == u[1]
           m == (1 + l) + 1
           n == Len(u)
<1>4. l \in Nat /\ n >= 1 + l /\ n \in Nat /\ Len(s) = n + 1
  BY <1>1, <1>2, <1>3
<1> HIDE DEF l, n
<1>5. m \in Nat /\ 1 <= m /\ m <= n + 1 /\ n - m + 1 < n + 1
  BY <1>4
<1> HIDE DEF m
<1>6. n <= Len(u)
  BY <1>4 DEF n
<1>7. SubSeq(u, m, n) \in Seq(Nat) /\ Len(SubSeq(u, m, n)) = n - m + 1
  BY <1>1, <1>4, <1>5, <1>6, ParsePart
<1>8. Len(SubSeq(u, m, n)) < Len(s)
  BY <1>4, <1>5, <1>7
<1>9. Parser!After(u) = SubSeq(u, m, n)
  BY DEF Parser!After, Parser!Drop, m, l, n
<1> QED BY <1>7, <1>8, <1>9 DEF u

\* What the loop over the names does.
LEMMA FirstHostNameLoop ==
    \A s \in Seq(Nat) : Parser!firstHostName[s] =
        IF Len(s) < 2 THEN (IF s = <<>> THEN Parser!Found(<<>>) ELSE Parser!Truncated)
        ELSE IF ~Parser!Fits(Tail(s)) THEN Parser!Truncated
        ELSE IF Head(s) = 0 THEN Parser!Found(Parser!Data(Tail(s)))
        ELSE Parser!firstHostName[Parser!After(Tail(s))]
<1> DEFINE stop == {s \in Seq(Nat) : Len(s) < 2 \/ ~Parser!Fits(Tail(s)) \/ Head(s) = 0}
           val == [s \in Seq(Nat) |->
                      IF Len(s) < 2 THEN (IF s = <<>> THEN Parser!Found(<<>>) ELSE Parser!Truncated)
                      ELSE IF ~Parser!Fits(Tail(s)) THEN Parser!Truncated
                      ELSE Parser!Found(Parser!Data(Tail(s)))]
           nxt == [s \in Seq(Nat) |-> Parser!After(Tail(s))]
           Loop(F) == F = [s \in Seq(Nat) |->
                      IF Len(s) < 2 THEN (IF s = <<>> THEN Parser!Found(<<>>) ELSE Parser!Truncated)
                      ELSE IF ~Parser!Fits(Tail(s)) THEN Parser!Truncated
                      ELSE IF Head(s) = 0 THEN Parser!Found(Parser!Data(Tail(s)))
                      ELSE F[Parser!After(Tail(s))]]
<1>1. \A s \in Seq(Nat) \ stop : nxt[s] \in Seq(Nat) /\ Len(nxt[s]) < Len(s)
  <2>1. \A s \in Seq(Nat) \ stop : ~(Len(s) < 2) /\ Parser!Fits(Tail(s)) /\ nxt[s] = Parser!After(Tail(s))
    BY Zenon
  <2> HIDE DEF stop, nxt
  <2> QED BY <2>1, ParseShorter
<1>2. PICK F : F = [s \in Seq(Nat) |-> IF s \in stop THEN val[s] ELSE F[nxt[s]]]
  <2> HIDE DEF stop, nxt, val
  <2>1. Shrinks(stop, nxt)
    BY <1>1 DEF Shrinks
  <2>2. \E F : IsLoop(stop, val, nxt, F)
    BY <2>1, ParseLoop
  <2> QED BY <2>2, Zenon DEF IsLoop
<1>3. Loop(F)
  <2>1. \A s \in Seq(Nat) : F[s] = IF s \in stop THEN val[s] ELSE F[nxt[s]]
    <3> HIDE DEF stop, nxt, val
    <3> QED BY <1>2, Zenon
  <2>2. ASSUME NEW s \in Seq(Nat)
        PROVE  F[s] = IF Len(s) < 2 THEN (IF s = <<>> THEN Parser!Found(<<>>) ELSE Parser!Truncated)
                      ELSE IF ~Parser!Fits(Tail(s)) THEN Parser!Truncated
                      ELSE IF Head(s) = 0 THEN Parser!Found(Parser!Data(Tail(s)))
                      ELSE F[Parser!After(Tail(s))]
    BY <2>1, Zenon
  <2>3. F = [s \in Seq(Nat) |-> F[s]]
    <3> DEFINE e(s) == IF s \in stop THEN val[s] ELSE F[nxt[s]]
    <3>1. F = [s \in Seq(Nat) |-> e(s)]
      BY <1>2, Zenon
    <3> HIDE DEF e
    <3> QED BY <3>1, Zenon
  <2> QED BY <2>2, <2>3, Zenon
<1>4. Loop(Parser!firstHostName)
  BY <1>3, Zenon DEF Parser!firstHostName
<1> QED BY <1>4, Zenon

\* What the loop over the extensions does.
LEMMA ServerNameLoop ==
    \A s \in Seq(Nat) : Parser!serverNameIn[s] =
        IF Len(s) < 2 THEN Parser!Found(<<>>)
        ELSE IF ~Parser!Fits(Tail(s)) THEN Parser!Truncated
        ELSE IF Head(s) = 0 THEN Parser!parseServerNameExtension(Parser!Data(Tail(s)))
        ELSE Parser!serverNameIn[Parser!After(Tail(s))]
<1> DEFINE stop == {s \in Seq(Nat) : Len(s) < 2 \/ ~Parser!Fits(Tail(s)) \/ Head(s) = 0}
           val == [s \in Seq(Nat) |->
                      IF Len(s) < 2 THEN Parser!Found(<<>>)
                      ELSE IF ~Parser!Fits(Tail(s)) THEN Parser!Truncated
                      ELSE Parser!parseServerNameExtension(Parser!Data(Tail(s)))]
           nxt == [s \in Seq(Nat) |-> Parser!After(Tail(s))]
           Loop(F) == F = [s \in Seq(Nat) |->
                      IF Len(s) < 2 THEN Parser!Found(<<>>)
                      ELSE IF ~Parser!Fits(Tail(s)) THEN Parser!Truncated
                      ELSE IF Head(s) = 0 THEN Parser!parseServerNameExtension(Parser!Data(Tail(s)))
                      ELSE F[Parser!After(Tail(s))]]
<1>1. \A s \in Seq(Nat) \ stop : nxt[s] \in Seq(Nat) /\ Len(nxt[s]) < Len(s)
  <2>1. \A s \in Seq(Nat) \ stop : ~(Len(s) < 2) /\ Parser!Fits(Tail(s)) /\ nxt[s] = Parser!After(Tail(s))
    BY Zenon
  <2> HIDE DEF stop, nxt
  <2> QED BY <2>1, ParseShorter
<1>2. PICK F : F = [s \in Seq(Nat) |-> IF s \in stop THEN val[s] ELSE F[nxt[s]]]
  <2> HIDE DEF stop, nxt, val
  <2>1. Shrinks(stop, nxt)
    BY <1>1 DEF Shrinks
  <2>2. \E F : IsLoop(stop, val, nxt, F)
    BY <2>1, ParseLoop
  <2> QED BY <2>2, Zenon DEF IsLoop
<1>3. Loop(F)
  <2>1. \A s \in Seq(Nat) : F[s] = IF s \in stop THEN val[s] ELSE F[nxt[s]]
    <3> HIDE DEF stop, nxt, val
    <3> QED BY <1>2, Zenon
  <2>2. ASSUME NEW s \in Seq(Nat)
        PROVE  F[s] = IF Len(s) < 2 THEN Parser!Found(<<>>)
                      ELSE IF ~Parser!Fits(Tail(s)) THEN Parser!Truncated
                      ELSE IF Head(s) = 0 THEN Parser!parseServerNameExtension(Parser!Data(Tail(s)))
                      ELSE F[Parser!After(Tail(s))]
    BY <2>1, Zenon
  <2>3. F = [s \in Seq(Nat) |-> F[s]]
    <3> DEFINE e(s) == IF s \in stop THEN val[s] ELSE F[nxt[s]]
    <3>1. F = [s \in Seq(Nat) |-> e(s)]
      BY <1>2, Zenon
    <3> HIDE DEF e
    <3> QED BY <3>1, Zenon
  <2> QED BY <2>2, <2>3, Zenon
<1>4. Loop(Parser!serverNameIn)
  BY <1>3, Zenon DEF Parser!serverNameIn
<1> QED BY <1>4, Zenon

\* A walk over a list of items takes the first one of type 0, if there is one.
Walks(F, Val, none) ==
    /\ F[<<>>] = none
    /\ \A t \in Nat : \A d \in Seq(Nat) : \A r \in Seq(Nat) :
          F[(<<t>> \o Parser!Prefixed(d)) \o r] = IF t = 0 THEN Val[d] ELSE F[r]
Yields(list, Val, none, x) ==
    /\ Parser!FirstOf(list) = {} => x = none
    /\ \A i \in Parser!FirstOf(list) : x = Val[list[i].data]

\* The parser's loops over the bytes of a list are walks over its items.
LEMMA ItemsWalk ==
    ASSUME NEW list \in Seq(Parser!Item), NEW F, NEW Val, NEW none, Walks(F, Val, none)
    PROVE  Parser!Items(list) \in Seq(Nat) /\ Yields(list, Val, none, F[Parser!Items(list)])
<1> DEFINE n == Len(list)
           ss == [i \in DOMAIN list |-> <<list[i].type>> \o Parser!Prefixed(list[i].data)]
           W(i, x) == /\ (\A j \in 1 .. n : i < j => list[j].type # 0) => x = none
                      /\ \A e \in 1 .. n :
                           (i < e /\ list[e].type = 0 /\ \A j \in 1 .. n : (i < j /\ j < e) => list[j].type # 0)
                             => x = Val[list[e].data]
<1>1. n \in Nat /\ DOMAIN list = 1 .. n
  OBVIOUS
<1>2. ASSUME NEW i \in 1 .. n PROVE list[i].type \in Nat /\ list[i].data \in Seq(Nat)
  <2>1. list[i] \in Parser!Item
    BY <1>1, <1>2
  <2> QED BY <2>1 DEF Parser!Item
<1>3. ASSUME NEW i \in 1 .. n PROVE ss[i] = <<list[i].type>> \o Parser!Prefixed(list[i].data) /\ ss[i] \in Seq(Nat)
  <2>1. Parser!Prefixed(list[i].data) \in Seq(Nat)
    BY <1>2 DEF Parser!Prefixed
  <2>2. <<list[i].type>> \in Seq(Nat)
    BY <1>2
  <2>3. <<list[i].type>> \o Parser!Prefixed(list[i].data) \in Seq(Nat)
    BY <2>1, <2>2
  <2>4. ss[i] = <<list[i].type>> \o Parser!Prefixed(list[i].data)
    BY <1>1, Zenon
  <2> QED BY <2>3, <2>4, Zenon
<1>4. Len(ss) = n /\ DOMAIN ss = 1 .. n
  BY <1>1
<1>5. Parser!Items(list) = Parser!FlattenSeq(ss)
  BY DEF Parser!Items
<1>6. F[<<>>] = none
  BY DEF Walks
<1>7. ASSUME NEW i \in 1 .. n, NEW r \in Seq(Nat)
      PROVE  F[ss[i] \o r] = IF list[i].type = 0 THEN Val[list[i].data] ELSE F[r]
  <2> DEFINE t == list[i].type
             d == list[i].data
  <2>1. t \in Nat /\ d \in Seq(Nat) /\ ss[i] = <<t>> \o Parser!Prefixed(d)
    BY <1>2, <1>3
  <2> HIDE DEF t, d, ss
  <2>2. F[(<<t>> \o Parser!Prefixed(d)) \o r] = IF t = 0 THEN Val[d] ELSE F[r]
    BY <2>1, Zenon DEF Walks
  <2> QED BY <2>1, <2>2, Zenon DEF t, d
<1> HIDE DEF ss
<1>8. ASSUME NEW i \in Nat, i + 1 \in 1 .. n, NEW r \in Seq(Nat), W(i + 1, F[r])
      PROVE  W(i, F[ss[i + 1] \o r])
  <2>1. F[ss[i + 1] \o r] = IF list[i + 1].type = 0 THEN Val[list[i + 1].data] ELSE F[r]
    BY <1>7, <1>8
  <2> DEFINE x == F[ss[i + 1] \o r]
             y == F[r]
  <2>2. W(i + 1, y)
    BY <1>8
  <2>3. x = IF list[i + 1].type = 0 THEN Val[list[i + 1].data] ELSE y
    BY <2>1
  <2> HIDE DEF x, y
  <2>4. (\A j \in 1 .. n : i < j => list[j].type # 0) => x = none
    <3> SUFFICES ASSUME \A j \in 1 .. n : i < j => list[j].type # 0 PROVE x = none
      OBVIOUS
    <3>1. list[i + 1].type # 0 /\ \A j \in 1 .. n : i + 1 < j => list[j].type # 0
      BY <1>1, <1>8
    <3> QED BY <2>2, <2>3, <3>1
  <2>5. ASSUME NEW e \in 1 .. n, i < e, list[e].type = 0,
               \A j \in 1 .. n : (i < j /\ j < e) => list[j].type # 0
        PROVE  x = Val[list[e].data]
    <3>1. CASE e = i + 1
      BY <2>3, <2>5, <3>1
    <3>2. CASE e # i + 1
      <4>1. i + 1 < e /\ \A j \in 1 .. n : (i + 1 < j /\ j < e) => list[j].type # 0
        BY <1>1, <2>5, <3>2
      <4>2. list[i + 1].type # 0
        BY <1>1, <1>8, <2>5, <4>1
      <4>3. y = Val[list[e].data]
        BY <2>2, <2>5, <4>1
      <4> QED BY <2>3, <4>2, <4>3
    <3> QED BY <3>1, <3>2
  <2>6. W(i, x)
    BY <2>4, <2>5
  <2> QED BY <2>6 DEF x
<1>9. W(n, F[<<>>])
  BY <1>1, <1>6
<1>10. Parser!Items(list) \in Seq(Nat) /\ W(0, F[Parser!Items(list)])
  <2>1. CASE n = 0
    <3>1. Len(ss) = 0 /\ ss = <<>>
      BY <1>1, <1>4, <2>1 DEF ss
    <3>2. Parser!FlattenSeq(ss) = <<>>
      BY <3>1, Zenon DEF Parser!FlattenSeq
    <3>3. <<>> \in Seq(Nat)
      OBVIOUS
    <3> HIDE DEF W
    <3> QED BY <1>5, <1>9, <2>1, <3>2, <3>3
  <2>2. CASE n # 0
    <3>1. n \in Nat \ {0}
      BY <1>1, <2>2
    <3> DEFINE Is(f) == f = [i \in 1 .. n |-> IF i = 1 THEN ss[i] ELSE f[i - 1] \o ss[i]]
    <3>2. \E f : Is(f)
      <4> HIDE DEF n
      <4> QED BY <3>1, ConcatLoop
    <3> DEFINE f0 == CHOOSE f : Is(f)
    <3>3. Is(f0)
      BY <3>2, Zenon
    <3>4. Parser!FlattenSeq(ss) = f0[n]
      <4>1. Len(ss) # 0
        BY <1>4, <2>2
      <4> QED BY <1>4, <4>1, Zenon DEF Parser!FlattenSeq
    <3> HIDE DEF f0
    <3>5. \A i \in 1 .. n : f0[i] = IF i = 1 THEN ss[i] ELSE f0[i - 1] \o ss[i]
      BY <3>3, Zenon
    <3> HIDE DEF n
    <3>6. \A i \in 1 .. n : f0[i] \in Seq(Nat)
      <4> DEFINE S == {k \in Nat : k + 1 \in 1 .. n => f0[k + 1] \in Seq(Nat)}
      <4>1. 0 \in S
        <5>1. 0 + 1 \in 1 .. n /\ 0 + 1 = 1
          BY <3>1
        <5> QED BY <1>3, <3>5, <5>1
      <4>2. ASSUME NEW k \in S PROVE k + 1 \in S
        <5> SUFFICES ASSUME (k + 1) + 1 \in 1 .. n PROVE f0[(k + 1) + 1] \in Seq(Nat)
          OBVIOUS
        <5>1. k + 1 \in 1 .. n /\ (k + 1) + 1 # 1 /\ ((k + 1) + 1) - 1 = k + 1
          BY <3>1
        <5>2. f0[(k + 1) + 1] = f0[k + 1] \o ss[(k + 1) + 1]
          BY <3>5, <5>1
        <5>3. f0[k + 1] \in Seq(Nat) /\ ss[(k + 1) + 1] \in Seq(Nat)
          BY <1>3, <5>1
        <5> QED BY <5>2, <5>3
      <4>3. S \in SUBSET Nat
        OBVIOUS
      <4> HIDE DEF S
      <4>4. \A k \in Nat : k \in S
        BY <4>1, <4>2, <4>3, SetInduction
      <4>5. ASSUME NEW i \in 1 .. n PROVE f0[i] \in Seq(Nat)
        <5>1. i - 1 \in Nat /\ (i - 1) + 1 = i
          BY <3>1
        <5> QED BY <4>4, <5>1 DEF S
      <4> QED BY <4>5
    <3> HIDE DEF W, Is
    <3> DEFINE Part(k) == \E r \in Seq(Nat) : f0[n] = f0[n - k] \o r /\ W(n - k, F[r])
               T == {k \in Nat : k < n => Part(k)}
    <3>7. 0 \in T
      <4>1. <<>> \in Seq(Nat) /\ n - 0 = n /\ n \in 1 .. n
        BY <3>1
      <4>2. f0[n] = f0[n] \o <<>>
        BY <3>6, <4>1
      <4>3. W(n, F[<<>>])
        BY <1>9 DEF n
      <4> QED BY <4>1, <4>2, <4>3
    <3>8. ASSUME NEW k \in T PROVE k + 1 \in T
      <4> SUFFICES ASSUME k + 1 < n PROVE Part(k + 1)
        <5>1. k \in Nat /\ k + 1 \in Nat
          OBVIOUS
        <5> HIDE DEF Part
        <5> QED BY <5>1
      <4> DEFINE i == n - (k + 1)
      <4>1. k \in Nat /\ k < n /\ i \in Nat /\ i \in 1 .. n /\ i + 1 \in 1 .. n /\ n - k = i + 1
            /\ i + 1 # 1 /\ (i + 1) - 1 = i
        BY <3>1
      <4>2. PICK r \in Seq(Nat) : f0[n] = f0[n - k] \o r /\ W(n - k, F[r])
        BY <4>1
      <4> HIDE DEF i
      <4>3. f0[n - k] = f0[i] \o ss[i + 1] /\ f0[i] \in Seq(Nat) /\ ss[i + 1] \in Seq(Nat)
        BY <1>3, <3>5, <3>6, <4>1 DEF n
      <4>4. (f0[i] \o ss[i + 1]) \o r = f0[i] \o (ss[i + 1] \o r) /\ ss[i + 1] \o r \in Seq(Nat)
        <5> DEFINE a == f0[i]
                   b == ss[i + 1]
        <5>1. a \in Seq(Nat) /\ b \in Seq(Nat)
          BY <4>3
        <5> HIDE DEF a, b
        <5>2. (a \o b) \o r = a \o (b \o r)
          BY <5>1, ConcatAssociative
        <5>3. b \o r \in Seq(Nat)
          BY <5>1
        <5> QED BY <5>2, <5>3 DEF a, b
      <4>5. W(i + 1, F[r])
        BY <4>1, <4>2
      <4>6. W(i, F[ss[i + 1] \o r])
        BY <1>8, <4>1, <4>5 DEF n
      <4>7. f0[n] = f0[i] \o (ss[i + 1] \o r)
        BY <4>2, <4>3, <4>4, Zenon
      <4> QED BY <4>4, <4>6, <4>7, Zenon DEF i
    <3>9. n - 1 \in T /\ n - 1 < n /\ n - (n - 1) = 1 /\ n \in 1 .. n /\ 1 \in 1 .. n
      <4>1. T \in SUBSET Nat
        OBVIOUS
      <4> HIDE DEF T
      <4>2. \A k \in Nat : k \in T
        BY <3>7, <3>8, <4>1, SetInduction
      <4> QED BY <3>1, <4>2
    <3>10. PICK r \in Seq(Nat) : f0[n] = f0[1] \o r /\ W(1, F[r])
      BY <3>9
    <3> HIDE DEF T
    <3>11. f0[1] = ss[1]
      BY <3>5, <3>9
    <3>12. W(0, F[ss[1] \o r])
      <4>1. 0 + 1 = 1 /\ 0 \in Nat
        OBVIOUS
      <4> QED BY <1>8, <3>9, <3>10, <4>1 DEF n
    <3> QED BY <1>5, <3>4, <3>6, <3>9, <3>10, <3>11, <3>12
  <2> QED BY <2>1, <2>2
<1>11. Parser!FirstOf(list) = {i \in 1 .. n : list[i].type = 0 /\ \A j \in 1 .. (i - 1) : list[j].type # 0}
  BY <1>1 DEF Parser!FirstOf
<1> DEFINE x == F[Parser!Items(list)]
<1>12. W(0, x)
  BY <1>10
<1> HIDE DEF x
<1>13. ASSUME Parser!FirstOf(list) = {} PROVE x = none
  <2>1. ASSUME NEW j \in 1 .. n, list[j].type = 0 PROVE FALSE
    <3> DEFINE B == {k \in Nat : k \in 1 .. n /\ list[k].type = 0}
    <3>1. B \in SUBSET Nat /\ B # {}
      BY <2>1
    <3>2. PICK m \in B : \A k \in B : m <= k
      <4> HIDE DEF B
      <4> QED BY <3>1, SmallestOf
    <3>3. \A k \in 1 .. (m - 1) : list[k].type # 0
      BY <1>1, <3>2
    <3> QED BY <1>11, <1>13, <3>2, <3>3
  <2> QED BY <1>12, <2>1
<1>14. ASSUME NEW e \in Parser!FirstOf(list) PROVE x = Val[list[e].data]
  <2>1. e \in 1 .. n /\ 0 < e /\ list[e].type = 0 /\ \A j \in 1 .. n : (0 < j /\ j < e) => list[j].type # 0
    BY <1>1, <1>11
  <2> QED BY <1>12, <2>1
<1> QED BY <1>10, <1>13, <1>14 DEF Yields, x

\* The two loops are such walks: the first name of type 0 is the answer, and the
\* first extension of type 0 is looked into.
NameValue == [d \in Seq(Nat) |-> Parser!Found(d)]
ExtensionValue == [d \in Seq(Nat) |-> Parser!parseServerNameExtension(d)]

\* The loop over the names.
LEMMA NamesWalk == Walks(Parser!firstHostName, NameValue, Parser!Found(<<>>))
<1>1. <<>> \in Seq(Nat) /\ Len(<<>>) < 2
  OBVIOUS
<1>2. Parser!firstHostName[<<>>] = Parser!Found(<<>>)
  BY <1>1, FirstHostNameLoop, Zenon
<1>3. ASSUME NEW t \in Nat, NEW d \in Seq(Nat), NEW r \in Seq(Nat)
      PROVE  Parser!firstHostName[(<<t>> \o Parser!Prefixed(d)) \o r] =
                IF t = 0 THEN NameValue[d] ELSE Parser!firstHostName[r]
  <2> DEFINE s == (<<t>> \o Parser!Prefixed(d)) \o r
  <2>1. /\ s \in Seq(Nat) /\ Len(s) >= 2 /\ Head(s) = t
        /\ Parser!Fits(Tail(s)) /\ Parser!Data(Tail(s)) = d /\ Parser!After(Tail(s)) = r
    BY ParseItem
  <2>2. NameValue[d] = Parser!Found(d)
    BY Zenon DEF NameValue
  <2> HIDE DEF s
  <2>3. ~(Len(s) < 2)
    BY <2>1
  <2>4. Parser!firstHostName[s] = IF t = 0 THEN NameValue[d] ELSE Parser!firstHostName[r]
    BY <2>1, <2>2, <2>3, FirstHostNameLoop, Zenon
  <2> QED BY <2>4 DEF s
<1> QED BY <1>2, <1>3, Zenon DEF Walks

\* The loop over the extensions.
LEMMA ExtensionsWalk == Walks(Parser!serverNameIn, ExtensionValue, Parser!Found(<<>>))
<1>1. <<>> \in Seq(Nat) /\ Len(<<>>) < 2
  OBVIOUS
<1>2. Parser!serverNameIn[<<>>] = Parser!Found(<<>>)
  BY <1>1, ServerNameLoop, Zenon
<1>3. ASSUME NEW t \in Nat, NEW d \in Seq(Nat), NEW r \in Seq(Nat)
      PROVE  Parser!serverNameIn[(<<t>> \o Parser!Prefixed(d)) \o r] =
                IF t = 0 THEN ExtensionValue[d] ELSE Parser!serverNameIn[r]
  <2> DEFINE s == (<<t>> \o Parser!Prefixed(d)) \o r
  <2>1. /\ s \in Seq(Nat) /\ Len(s) >= 2 /\ Head(s) = t
        /\ Parser!Fits(Tail(s)) /\ Parser!Data(Tail(s)) = d /\ Parser!After(Tail(s)) = r
    BY ParseItem
  <2>2. ExtensionValue[d] = Parser!parseServerNameExtension(d)
    BY Zenon DEF ExtensionValue
  <2> HIDE DEF s
  <2>3. ~(Len(s) < 2)
    BY <2>1
  <2>4. Parser!serverNameIn[s] = IF t = 0 THEN ExtensionValue[d] ELSE Parser!serverNameIn[r]
    BY <2>1, <2>2, <2>3, ServerNameLoop, Zenon
  <2> QED BY <2>4 DEF s
<1> QED BY <1>2, <1>3, Zenon DEF Walks

\* What the hellos of a client are.
LEMMA HelloFields ==
    ASSUME NEW h \in Hellos
    PROVE  /\ h.sid \in Seq(Nat) /\ h.suites \in Seq(Nat) /\ h.methods \in Seq(Nat)
           /\ h.exts \in Seq(Parser!Item) /\ h.names \in Seq(Parser!Item)
           /\ Parser!FirstOf(h.exts) = {} => h.names = <<>>
           /\ \A e \in Parser!FirstOf(h.exts) : h.exts[e].data = Parser!Prefixed(Parser!Items(h.names))
           /\ Parser!FirstOf(h.names) = {} => h.name = <<>>
           /\ \A n \in Parser!FirstOf(h.names) : h.name = h.names[n].data
<1>1. {h.sid, h.suites, h.methods} \subseteq Seq(Nat) /\ {h.exts, h.names} \subseteq Seq(Parser!Item)
  BY ParserAssumption, Zenon DEF Parser!HellosAssumption
<1>2. /\ IF Parser!FirstOf(h.exts) = {} THEN h.names = <<>>
         ELSE \A e \in Parser!FirstOf(h.exts) : h.exts[e].data = Parser!Prefixed(Parser!Items(h.names))
      /\ IF Parser!FirstOf(h.names) = {} THEN h.name = <<>>
         ELSE \A n \in Parser!FirstOf(h.names) : h.name = h.names[n].data
  BY ParserAssumption, Zenon DEF Parser!HellosAssumption
<1>3. h.sid \in Seq(Nat) /\ h.suites \in Seq(Nat) /\ h.methods \in Seq(Nat)
      /\ h.exts \in Seq(Parser!Item) /\ h.names \in Seq(Parser!Item)
  BY <1>1, Zenon
<1> QED BY <1>2, <1>3, Zenon

\* A vector at the end of the bytes.
LEMMA ParseLast ==
    ASSUME NEW v \in Seq(Nat)
    PROVE  LET s == Parser!Prefixed(v)
           IN  s \in Seq(Nat) /\ s # <<>> /\ Len(s) = 1 + Len(v)
               /\ Parser!Fits(s) /\ Parser!Data(s) = v
<1> DEFINE s == Parser!Prefixed(v)
<1>1. <<>> \in Seq(Nat) /\ Len(<<>>) = 0 /\ Len(v) \in Nat
  OBVIOUS
<1>2. s \in Seq(Nat)
  BY DEF Parser!Prefixed
<1>3. s \o <<>> = s
  <2> HIDE DEF s
  <2> QED BY <1>2
<1> DEFINE x == s \o <<>>
<1>4. x \in Seq(Nat) /\ x # <<>> /\ Len(x) = 1 + Len(v) + Len(<<>>) /\ Parser!Fits(x) /\ Parser!Data(x) = v
  BY <1>1, ParseVector
<1>5. x = s
  BY <1>3
<1> HIDE DEF x
<1>6. Len(x) = 1 + Len(v)
  BY <1>1, <1>4
<1>7. x \in Seq(Nat) /\ x # <<>> /\ Len(x) = 1 + Len(v) /\ Parser!Fits(x) /\ Parser!Data(x) = v
  BY <1>4, <1>6
<1> QED BY <1>5, <1>7, Zenon

\* The extensions of a hello give the name that it means.
LEMMA ParseExtensions ==
    ASSUME NEW h \in Hellos
    PROVE  Parser!Items(h.exts) \in Seq(Nat) /\ Parser!serverNameIn[Parser!Items(h.exts)] = Parser!Found(h.name)
<1> DEFINE none == Parser!Found(<<>>)
           N == Parser!Items(h.names)
           E == Parser!Items(h.exts)
<1>1. N \in Seq(Nat) /\ Yields(h.names, NameValue, none, Parser!firstHostName[N])
  BY HelloFields, NamesWalk, ItemsWalk
<1>2. E \in Seq(Nat) /\ Yields(h.exts, ExtensionValue, none, Parser!serverNameIn[E])
  BY HelloFields, ExtensionsWalk, ItemsWalk
<1> HIDE DEF N, E
<1>3. Parser!firstHostName[N] = Parser!Found(h.name)
  <2>1. CASE Parser!FirstOf(h.names) = {}
    BY <1>1, <2>1, HelloFields, Zenon DEF Yields
  <2>2. CASE Parser!FirstOf(h.names) # {}
    <3>1. PICK n \in Parser!FirstOf(h.names) : TRUE
      BY <2>2, Zenon
    <3>2. Parser!firstHostName[N] = NameValue[h.names[n].data] /\ h.name = h.names[n].data
      BY <1>1, <3>1, HelloFields, Zenon DEF Yields
    <3>3. h.name \in Seq(Nat)
      <4>1. n \in DOMAIN h.names
        BY <3>1, Zenon DEF Parser!FirstOf
      <4>2. h.names \in Seq(Parser!Item)
        BY HelloFields
      <4>3. h.names[n] \in Parser!Item
        BY <4>1, <4>2
      <4> QED BY <3>2, <4>3 DEF Parser!Item
    <3> QED BY <3>2, <3>3, Zenon DEF NameValue
  <2> QED BY <2>1, <2>2, Zenon
<1>4. CASE Parser!FirstOf(h.exts) = {}
  <2>1. h.names = <<>> /\ Parser!serverNameIn[E] = none
    BY <1>2, <1>4, HelloFields, Zenon DEF Yields
  <2>2. Parser!FirstOf(h.names) = {}
    BY <2>1 DEF Parser!FirstOf
  <2>3. h.name = <<>>
    BY <2>2, HelloFields, Zenon
  <2> QED BY <1>2, <2>1, <2>3, Zenon DEF E
<1>5. CASE Parser!FirstOf(h.exts) # {}
  <2>1. PICK e \in Parser!FirstOf(h.exts) : TRUE
    BY <1>5, Zenon
  <2> DEFINE d == Parser!Prefixed(N)
  <2>2. h.exts[e].data = d
    BY <2>1, HelloFields, Zenon DEF N
  <2>3. d \in Seq(Nat) /\ Parser!Fits(d) /\ Parser!Data(d) = N
    BY <1>1, ParseLast
  <2> HIDE DEF d
  <2>4. Parser!serverNameIn[E] = ExtensionValue[d]
    BY <1>2, <2>1, <2>2, Zenon DEF Yields
  <2>5. ExtensionValue[d] = Parser!parseServerNameExtension(d)
    BY <2>3, Zenon DEF ExtensionValue
  <2>6. Parser!parseServerNameExtension(d) = Parser!firstHostName[N]
    BY <2>3, Zenon DEF Parser!parseServerNameExtension
  <2> QED BY <1>2, <1>3, <2>4, <2>5, <2>6, Zenon DEF E
<1> QED BY <1>4, <1>5

\* What follows a part of the bytes.
LEMMA ParseDrop ==
    ASSUME NEW a \in Seq(Nat), NEW b \in Seq(Nat)
    PROVE  Parser!Drop(a \o b, Len(a)) = b
<1> DEFINE s == a \o b
           m == Len(a) + 1
           n == Len(s)
           u == SubSeq(s, m, n)
<1>1. /\ s \in Seq(Nat) /\ Len(s) = Len(a) + Len(b) /\ Len(a) \in Nat /\ Len(b) \in Nat
      /\ \A i \in 1 .. Len(b) : s[Len(a) + i] = b[i]
  BY ParseConcat
<1> HIDE DEF s
<1>2. m \in Nat /\ n \in Nat /\ 1 <= m /\ n <= Len(s) /\ m <= n + 1 /\ n - m + 1 = Len(b)
  BY <1>1
<1> HIDE DEF n, m
<1>3. u \in Seq(Nat) /\ Len(u) = n - m + 1 /\ \A i \in 1 .. (n - m + 1) : u[i] = s[m + i - 1]
  BY <1>1, <1>2, ParsePart
<1> HIDE DEF u
<1>4. \A i \in 1 .. Len(b) : m + i - 1 = Len(a) + i
  BY <1>1 DEF m
<1>5. \A i \in 1 .. Len(b) : u[i] = b[i]
  BY <1>1, <1>2, <1>3, <1>4
<1>6. u = b
  BY <1>2, <1>3, <1>5, SeqEqual
<1>7. Parser!Drop(s, Len(a)) = u
  BY DEF Parser!Drop, u, m, n
<1> QED BY <1>6, <1>7 DEF s

\* The bytes of a hello after the header of its message.
HelloBytes(h) ==
    [i \in 1..RandomLen |-> 9] \o Parser!Prefixed(h.sid) \o Parser!Prefixed(h.suites)
    \o Parser!Prefixed(h.methods)
    \o IF h.exts = <<>> THEN <<>> ELSE Parser!Prefixed(Parser!Items(h.exts))

\* The parser finds the name in a whole hello.
LEMMA ParseWhole ==
    ASSUME NEW h \in Hellos
    PROVE  HelloBytes(h) \in Seq(Nat) /\ Parser!parseHello(HelloBytes(h)) = Parser!Found(h.name)
<1> DEFINE R == [i \in 1..RandomLen |-> 9]
           P == Parser!Prefixed(h.sid)
           Q == Parser!Prefixed(h.suites)
           M == Parser!Prefixed(h.methods)
           E == IF h.exts = <<>> THEN <<>> ELSE Parser!Prefixed(Parser!Items(h.exts))
           hello == (((R \o P) \o Q) \o M) \o E
<1>1. RandomLen \in Nat
  BY ParserAssumption DEF Parser!HellosAssumption
<1>2. R \in Seq(Nat) /\ Len(R) = RandomLen
  BY <1>1
<1>3. E \in Seq(Nat) /\ (h.exts # <<>> => E # <<>> /\ Parser!Fits(E) /\ Parser!Data(E) = Parser!Items(h.exts))
  <2>1. <<>> \in Seq(Nat)
    OBVIOUS
  <2> DEFINE I == Parser!Items(h.exts)
             V == Parser!Prefixed(I)
  <2>2. I \in Seq(Nat)
    BY ParseExtensions
  <2> HIDE DEF I
  <2>3. V \in Seq(Nat) /\ V # <<>> /\ Parser!Fits(V) /\ Parser!Data(V) = I
    BY <2>2, ParseLast
  <2>4. E = IF h.exts = <<>> THEN <<>> ELSE V
    BY DEF I
  <2> HIDE DEF V, E
  <2> QED BY <2>1, <2>3, <2>4, Zenon DEF I
<1>4. P \in Seq(Nat) /\ Q \in Seq(Nat) /\ M \in Seq(Nat)
  BY HelloFields, ParseLast
<1> DEFINE w == M \o E
           x == Q \o w
           y == P \o x
<1>5. /\ w \in Seq(Nat) /\ Parser!Fits(w) /\ Parser!After(w) = E
  BY <1>3, HelloFields, ParseVector
<1>6. x \in Seq(Nat) /\ Parser!Fits(x) /\ Parser!After(x) = w
  <2> HIDE DEF w
  <2> QED BY <1>5, HelloFields, ParseVector
<1>7. y \in Seq(Nat) /\ Parser!Fits(y) /\ Parser!After(y) = x
  <2> HIDE DEF x
  <2> QED BY <1>6, HelloFields, ParseVector
<1> HIDE DEF R, P, Q, M, E
<1>8. hello = R \o y
  <2>1. R \o P \in Seq(Nat) /\ (R \o P) \o Q \in Seq(Nat)
    BY <1>2, <1>4
  <2>2. hello = ((R \o P) \o Q) \o w
    <3> DEFINE a == (R \o P) \o Q
    <3> HIDE DEF a
    <3>1. a \in Seq(Nat)
      BY <2>1 DEF a
    <3>2. (a \o M) \o E = a \o (M \o E)
      BY <1>3, <1>4, <3>1, ParseAssociative
    <3> QED BY <3>2 DEF a
  <2> HIDE DEF w
  <2>3. ((R \o P) \o Q) \o w = (R \o P) \o x
    <3> DEFINE a == R \o P
    <3> HIDE DEF a
    <3>1. a \in Seq(Nat)
      BY <2>1 DEF a
    <3>2. (a \o Q) \o w = a \o (Q \o w)
      BY <1>4, <1>5, <3>1, ParseAssociative
    <3> QED BY <3>2 DEF a
  <2> HIDE DEF x
  <2>4. (R \o P) \o x = R \o y
    BY <1>2, <1>4, <1>6, ParseAssociative
  <2> QED BY <2>2, <2>3, <2>4, Zenon
<1> HIDE DEF w, x, y
<1>9. hello \in Seq(Nat) /\ Len(hello) >= RandomLen /\ Parser!Drop(hello, RandomLen) = y
  <2> HIDE DEF hello
  <2>1. R \o y \in Seq(Nat) /\ Len(R \o y) = Len(R) + Len(y) /\ Len(y) \in Nat
    BY <1>2, <1>7, ParseConcat
  <2>2. Parser!Drop(R \o y, Len(R)) = y
    BY <1>2, <1>7, ParseDrop
  <2> QED BY <1>1, <1>2, <1>8, <2>1, <2>2
<1> HIDE DEF hello
<1>10. ~(Len(hello) < RandomLen)
  BY <1>1, <1>9
<1>11. Parser!parseHello(hello) =
          IF E = <<>> THEN Parser!Found(<<>>) ELSE IF ~Parser!Fits(E) THEN Parser!Truncated
          ELSE Parser!serverNameIn[Parser!Data(E)]
  BY <1>5, <1>6, <1>7, <1>9, <1>10, Zenon DEF Parser!parseHello
<1>12. Parser!serverNameIn[Parser!Items(h.exts)] = Parser!Found(h.name)
  BY ParseExtensions
<1>13. h.exts = <<>> => h.name = <<>>
  <2> SUFFICES ASSUME h.exts = <<>> PROVE h.name = <<>>
    OBVIOUS
  <2>1. Parser!FirstOf(h.exts) = {}
    BY DEF Parser!FirstOf
  <2>2. h.names = <<>>
    BY <2>1, HelloFields, Zenon
  <2>3. Parser!FirstOf(h.names) = {}
    BY <2>2 DEF Parser!FirstOf
  <2> QED BY <2>3, HelloFields, Zenon
<1>14. h.exts = <<>> => E = <<>>
  BY DEF E
<1>15. Parser!parseHello(hello) = Parser!Found(h.name)
  BY <1>3, <1>11, <1>12, <1>13, <1>14, Zenon
<1>16. HelloBytes(h) = hello
  BY DEF HelloBytes, hello, R, P, Q, M, E
<1> QED BY <1>9, <1>15, <1>16, Zenon

\* From the first record of the message the parser gets the name, or sees that
\* something is missing.
LEMMA ParseRecord ==
    ASSUME NEW h \in Hellos, NEW c \in Nat, 2 <= c, c <= Len(Parser!Encoding(h))
    PROVE  LET first == SubSeq(Parser!Encoding(h), 1, c)
           IN  /\ first \in Seq(Nat)
               /\ Parser!parseRecord(first) \in {Parser!Found(h.name), Parser!Truncated}
<1> DEFINE hello == HelloBytes(h)
           m == <<1>> \o Parser!Prefixed(hello)
           first == SubSeq(m, 1, c)
<1>1. hello \in Seq(Nat) /\ Parser!parseHello(hello) = Parser!Found(h.name)
  BY ParseWhole
<1>2. Parser!Encoding(h) = m
  BY DEF Parser!Encoding, HelloBytes
<1> HIDE DEF hello
<1>3. m \in Seq(Nat) /\ Len(m) = 2 + Len(hello) /\ Len(hello) \in Nat /\ m[1] = 1 /\ m[2] = Len(hello)
      /\ \A i \in 1 .. Len(hello) : m[2 + i] = hello[i]
  <2> DEFINE p == Parser!Prefixed(hello)
  <2>1. p \in Seq(Nat) /\ Len(p) = 1 + Len(hello) /\ Len(hello) \in Nat
        /\ p[1] = Len(hello) /\ \A i \in 1 .. Len(hello) : p[1 + i] = hello[i]
    BY <1>1 DEF Parser!Prefixed
  <2> HIDE DEF p
  <2>2. /\ m \in Seq(Nat) /\ Len(m) = 1 + Len(p) /\ m[1] = 1
        /\ \A i \in 1 .. Len(p) : m[1 + i] = p[i]
    BY <2>1 DEF p
  <2> HIDE DEF m
  <2>3. 1 \in 1 .. Len(p) /\ 1 + 1 = 2 /\ \A i \in 1 .. Len(hello) : 1 + i \in 1 .. Len(p) /\ 1 + (1 + i) = 2 + i
    BY <2>1
  <2>4. Len(m) = 2 + Len(hello)
    BY <2>1, <2>2
  <2> QED BY <2>1, <2>2, <2>3, <2>4
<1> HIDE DEF m
<1>4. c <= Len(m)
  BY <1>2
<1>5. first \in Seq(Nat) /\ Len(first) = c /\ \A i \in 1 .. c : first[i] = m[i]
  <2>1. 1 <= c + 1 /\ c - 1 + 1 = c /\ 1 \in Nat /\ \A i \in 1 .. c : 1 + i - 1 = i
    OBVIOUS
  <2>2. /\ SubSeq(m, 1, c) \in Seq(Nat) /\ Len(SubSeq(m, 1, c)) = c - 1 + 1
        /\ \A i \in 1 .. (c - 1 + 1) : SubSeq(m, 1, c)[i] = m[1 + i - 1]
    BY <1>3, <1>4, <2>1, ParsePart
  <2> HIDE DEF first
  <2> QED BY <2>1, <2>2 DEF first
<1> HIDE DEF first
<1> DEFINE u == Tail(first)
<1>6. first[1] = 1 /\ ~(Len(first) < 2) /\ u \in Seq(Nat) /\ Len(u) = c - 1
      /\ \A i \in 1 .. (c - 1) : u[i] = m[i + 1]
  <2>1. first # <<>> /\ 1 \in 1 .. c
    BY <1>5
  <2>2. u \in Seq(Nat) /\ Len(u) = Len(first) - 1 /\ \A i \in 1 .. Len(first) - 1 : u[i] = first[i + 1]
    BY <1>5, <2>1
  <2> HIDE DEF u
  <2>3. \A i \in 1 .. (c - 1) : i + 1 \in 1 .. c
    OBVIOUS
  <2> QED BY <1>3, <1>5, <2>1, <2>2, <2>3
<1> HIDE DEF u
<1>7. u[1] = Len(hello) /\ u # <<>>
  <2>1. 1 \in 1 .. (c - 1) /\ 1 + 1 = 2
    OBVIOUS
  <2> QED BY <1>3, <1>6, <2>1
<1>8. Parser!parseRecord(first) =
         IF ~Parser!Fits(u) THEN Parser!Truncated ELSE Parser!parseHello(Parser!Data(u))
  BY <1>6, Zenon DEF Parser!parseRecord, u
<1>9. ASSUME Parser!Fits(u) PROVE Parser!Data(u) = hello
  <2>1. Len(u) >= 1 + Len(hello)
    BY <1>7, <1>9 DEF Parser!Fits
  <2> DEFINE k == 1 + Len(hello)
             d == SubSeq(u, 2, k)
  <2>2. k \in Nat /\ 1 <= 2 /\ k <= Len(u) /\ 2 <= k + 1 /\ k - 2 + 1 = Len(hello)
    BY <1>3, <2>1
  <2> HIDE DEF k
  <2>3. d \in Seq(Nat) /\ Len(d) = k - 2 + 1 /\ \A i \in 1 .. (k - 2 + 1) : d[i] = u[2 + i - 1]
    BY <1>6, <2>2, ParsePart
  <2> HIDE DEF d
  <2>4. \A i \in 1 .. Len(hello) : 2 + i - 1 \in 1 .. (c - 1) /\ (2 + i - 1) + 1 = 2 + i
    BY <1>3, <1>6, <2>1
  <2>5. \A i \in 1 .. Len(hello) : d[i] = hello[i]
    BY <1>3, <1>6, <2>2, <2>3, <2>4
  <2>6. d = hello
    BY <1>1, <2>2, <2>3, <2>5, SeqEqual
  <2> QED BY <1>7, <2>6 DEF Parser!Data, d, k
<1>10. Parser!parseRecord(first) \in {Parser!Found(h.name), Parser!Truncated}
  BY <1>1, <1>8, <1>9, Zenon
<1> QED BY <1>2, <1>5, <1>10, Zenon DEF first

\* When a name, or that there is none, is read from the peeked bytes, it is read
\* from the whole first record.
LEMMA ParsePeek ==
    ASSUME NEW first \in Seq(Nat), NEW rest \in Seq(Nat), NEW seen \in Nat
    PROVE  LET bytes == (<<22, 3>> \o Parser!Prefixed(first)) \o rest
               s == SubSeq(bytes, 1, IF seen < Len(bytes) THEN seen ELSE Len(bytes))
               p == Parser!PeekClientHelloServerName(s)
           IN  p.tls /\ ~p.err => p = Parser!parseRecord(first)
<1> DEFINE head == <<22, 3>> \o Parser!Prefixed(first)
           bytes == head \o rest
           c == IF seen < Len(bytes) THEN seen ELSE Len(bytes)
           s == SubSeq(bytes, 1, c)
           p == Parser!PeekClientHelloServerName(s)
<1>1. /\ head \in Seq(Nat) /\ Len(head) = 3 + Len(first) /\ Len(first) \in Nat /\ head[3] = Len(first)
      /\ \A i \in 1 .. Len(first) : head[3 + i] = first[i]
  <2> DEFINE v == Parser!Prefixed(first)
  <2>1. v \in Seq(Nat) /\ Len(v) = 1 + Len(first) /\ Len(first) \in Nat
        /\ v[1] = Len(first) /\ \A i \in 1 .. Len(first) : v[1 + i] = first[i]
    BY DEF Parser!Prefixed
  <2> HIDE DEF v
  <2>2. <<22, 3>> \in Seq(Nat) /\ Len(<<22, 3>>) = 2
    OBVIOUS
  <2>3. head \in Seq(Nat) /\ Len(head) = 2 + Len(v) /\ \A i \in 1 .. Len(v) : head[2 + i] = v[i]
    BY <2>1, <2>2 DEF v
  <2> HIDE DEF head
  <2>4. 1 \in 1 .. Len(v) /\ 2 + 1 = 3
        /\ \A i \in 1 .. Len(first) : 1 + i \in 1 .. Len(v) /\ 2 + (1 + i) = 3 + i
    BY <2>1
  <2>5. Len(head) = 3 + Len(first)
    BY <2>1, <2>3
  <2> QED BY <2>1, <2>3, <2>4, <2>5
<1> HIDE DEF head
<1>2. /\ bytes \in Seq(Nat) /\ Len(bytes) = Len(head) + Len(rest) /\ Len(rest) \in Nat
      /\ \A i \in 1 .. Len(head) : bytes[i] = head[i]
  BY <1>1, ParseConcat
<1> HIDE DEF bytes
<1>3. c \in Nat /\ c <= Len(bytes)
  BY <1>1, <1>2
<1> HIDE DEF c
<1>4. s \in Seq(Nat) /\ Len(s) = c /\ \A i \in 1 .. c : s[i] = bytes[i]
  <2>1. 1 <= c + 1 /\ c - 1 + 1 = c /\ 1 \in Nat /\ \A i \in 1 .. c : 1 + i - 1 = i
    BY <1>3
  <2>2. /\ s \in Seq(Nat) /\ Len(s) = c - 1 + 1
        /\ \A i \in 1 .. (c - 1 + 1) : s[i] = bytes[1 + i - 1]
    BY <1>2, <1>3, <2>1, ParsePart
  <2> HIDE DEF s
  <2> QED BY <2>1, <2>2
<1> HIDE DEF s
<1> DEFINE u == Parser!Drop(s, 2)
<1>5. ASSUME ~(Len(s) < 3), Parser!Fits(u) PROVE Parser!Data(u) = first
  <2> DEFINE n == Len(s)
  <2>1. n \in Nat /\ n = c /\ n >= 3 /\ 2 + 1 = 3 /\ 3 \in Nat /\ 1 <= 3 /\ n <= Len(s) /\ 3 <= n + 1
        /\ n - 3 + 1 = c - 2
    BY <1>3, <1>4, <1>5
  <2> HIDE DEF n
  <2>2. u = SubSeq(s, 3, n)
    BY <2>1 DEF Parser!Drop, n
  <2>3. u \in Seq(Nat) /\ Len(u) = c - 2 /\ \A i \in 1 .. (c - 2) : u[i] = s[3 + i - 1]
    <3> DEFINE x == SubSeq(s, 3, n)
    <3>1. x \in Seq(Nat) /\ Len(x) = n - 3 + 1 /\ \A i \in 1 .. (n - 3 + 1) : x[i] = s[3 + i - 1]
      BY <1>4, <2>1, ParsePart
    <3> HIDE DEF x
    <3> QED BY <2>1, <2>2, <3>1 DEF x
  <2> HIDE DEF u
  <2>4. u[1] = Len(first)
    <3>1. 1 \in 1 .. (c - 2) /\ 3 + 1 - 1 = 3 /\ 3 \in 1 .. c /\ 3 \in 1 .. Len(head)
      BY <1>1, <1>3, <2>1
    <3> QED BY <1>1, <1>2, <1>4, <2>3, <3>1
  <2>5. Len(u) >= 1 + Len(first)
    BY <1>5, <2>4 DEF Parser!Fits
  <2> DEFINE k == 1 + Len(first)
             d == SubSeq(u, 2, k)
  <2>6. k \in Nat /\ 1 <= 2 /\ k <= Len(u) /\ 2 <= k + 1 /\ k - 2 + 1 = Len(first)
    BY <1>1, <2>5
  <2> HIDE DEF k
  <2>7. d \in Seq(Nat) /\ Len(d) = k - 2 + 1 /\ \A i \in 1 .. (k - 2 + 1) : d[i] = u[2 + i - 1]
    BY <2>3, <2>6, ParsePart
  <2> HIDE DEF d
  <2>8. ASSUME NEW i \in 1 .. Len(first) PROVE d[i] = first[i]
    <3>1. 2 + i - 1 \in 1 .. (c - 2) /\ 3 + (2 + i - 1) - 1 = 3 + i /\ 3 + i \in 1 .. c /\ 3 + i \in 1 .. Len(head)
      <4>1. c - 2 >= 1 + Len(first) /\ Len(first) \in Nat /\ c \in Nat /\ Len(head) = 3 + Len(first)
        BY <1>1, <1>3, <2>3, <2>5
      <4> DEFINE l == Len(first)
                 q == Len(head)
      <4>2. c - 2 >= 1 + l /\ l \in Nat /\ c \in Nat /\ q = 3 + l /\ i \in 1 .. l
        BY <4>1
      <4> HIDE DEF l, q
      <4>3. 2 + i - 1 \in 1 .. (c - 2) /\ 3 + (2 + i - 1) - 1 = 3 + i /\ 3 + i \in 1 .. c /\ 3 + i \in 1 .. q
        BY <4>2
      <4> QED BY <4>3 DEF q
    <3>2. d[i] = u[2 + i - 1] /\ u[2 + i - 1] = s[3 + i]
      BY <2>3, <2>6, <2>7, <3>1
    <3>3. s[3 + i] = bytes[3 + i]
      BY <1>4, <3>1
    <3>4. bytes[3 + i] = head[3 + i]
      BY <1>2, <3>1
    <3>5. head[3 + i] = first[i]
      BY <1>1
    <3> QED BY <3>2, <3>3, <3>4, <3>5
  <2>9. d = first
    BY <2>6, <2>7, <2>8, SeqEqual
  <2> QED BY <2>4, <2>9 DEF Parser!Data, d, k
<1>6. \/ p = [Parser!NotTLS EXCEPT !.err = TRUE]
      \/ p = Parser!NotTLS
      \/ p = Parser!Truncated
      \/ p = Parser!parseRecord(first)
  <2> HIDE DEF p, u
  <2>1. p = IF Len(s) < 3 THEN [Parser!NotTLS EXCEPT !.err = TRUE]
            ELSE IF s[1] # 22 \/ s[2] # 3 \/ s[3] = 0 \/ s[3] > MaxRecord THEN Parser!NotTLS
            ELSE IF ~Parser!Fits(u) THEN Parser!Truncated
            ELSE Parser!parseRecord(Parser!Data(u))
    BY Zenon DEF Parser!PeekClientHelloServerName, p, u
  <2> QED BY <1>5, <2>1, Zenon
<1> HIDE DEF p
<1>7. [Parser!NotTLS EXCEPT !.err = TRUE].tls = FALSE /\ Parser!NotTLS.tls = FALSE /\ Parser!Truncated.err = TRUE
  BY DEF Parser!NotTLS, Parser!Truncated
<1>8. p.tls /\ ~p.err => p = Parser!parseRecord(first)
  BY <1>6, <1>7, Zenon
<1> QED BY <1>8, Zenon DEF p, s, c, bytes, head

\* Whatever part of the hello is peeked, the parser gives its name or an error.
LEMMA ParseStream ==
    ASSUME NEW h \in Hellos, NEW cut \in Nat, 2 <= cut, NEW seen \in Nat
    PROVE  LET p == Parser!PeekClientHelloServerName(Parser!Stream(h, cut, seen))
           IN  p.tls /\ ~p.err => p.name = h.name
<1> DEFINE m == Parser!Encoding(h)
           c == IF cut < Len(m) THEN cut ELSE Len(m)
           first == SubSeq(m, 1, c)
           rest == Parser!Drop(m, Len(first))
           more == IF rest = <<>> THEN <<>> ELSE <<22, 3>> \o Parser!Prefixed(rest)
           bytes == (<<22, 3>> \o Parser!Prefixed(first)) \o more
           s == SubSeq(bytes, 1, IF seen < Len(bytes) THEN seen ELSE Len(bytes))
           p == Parser!PeekClientHelloServerName(s)
<1>1. m \in Seq(Nat) /\ Len(m) \in Nat /\ 2 <= Len(m)
  <2> DEFINE b == HelloBytes(h)
             x == Parser!Prefixed(b)
  <2>1. b \in Seq(Nat)
    BY ParseWhole
  <2>2. m = <<1>> \o x
    BY DEF Parser!Encoding, HelloBytes
  <2> HIDE DEF b, m
  <2>3. x \in Seq(Nat) /\ Len(x) = 1 + Len(b) /\ Len(b) \in Nat
    BY <2>1, ParseLast
  <2> HIDE DEF x
  <2>4. m \in Seq(Nat) /\ Len(m) = 1 + Len(x)
    BY <2>2, <2>3
  <2> QED BY <2>3, <2>4
<1>2. c \in Nat /\ 2 <= c /\ c <= Len(m)
  <2> HIDE DEF m
  <2> QED BY <1>1
<1>3. first \in Seq(Nat) /\ Parser!parseRecord(first) \in {Parser!Found(h.name), Parser!Truncated}
  <2> HIDE DEF c
  <2> QED BY <1>2, ParseRecord
<1>4. Len(first) = c
  <2> HIDE DEF c, m
  <2>1. 1 <= c + 1 /\ c - 1 + 1 = c /\ 1 \in Nat
    BY <1>2
  <2> QED BY <1>1, <1>2, <2>1, ParsePart
<1> HIDE DEF first
<1>5. rest \in Seq(Nat)
  <2> HIDE DEF m, c
  <2> DEFINE a == c + 1
             n == Len(m)
  <2>1. a \in Nat /\ n \in Nat /\ 1 <= a /\ n <= Len(m) /\ a <= n + 1
    BY <1>1, <1>2
  <2>2. rest = SubSeq(m, a, n)
    BY <1>4 DEF Parser!Drop
  <2> HIDE DEF a, n, rest
  <2> QED BY <1>1, <2>1, <2>2, ParsePart
<1> HIDE DEF rest
<1>6. more \in Seq(Nat)
  <2>1. Parser!Prefixed(rest) \in Seq(Nat)
    BY <1>5, ParseLast
  <2>2. <<22, 3>> \in Seq(Nat) /\ <<>> \in Seq(Nat)
    OBVIOUS
  <2>3. <<22, 3>> \o Parser!Prefixed(rest) \in Seq(Nat)
    BY <2>1, <2>2, ParseConcat
  <2> QED BY <2>2, <2>3, Zenon
<1> HIDE DEF more
<1>7. p.tls /\ ~p.err => p = Parser!parseRecord(first)
  BY <1>3, <1>6, ParsePeek
<1>8. Parser!Stream(h, cut, seen) = s
  BY Zenon DEF Parser!Stream, first, rest, more
<1> HIDE DEF s, p
<1>9. Parser!Truncated.err = TRUE /\ Parser!Found(h.name).name = h.name
  BY DEF Parser!Truncated, Parser!Found
<1>10. p.tls /\ ~p.err => p.name = h.name
  BY <1>3, <1>7, <1>9, Zenon
<1> QED BY <1>8, <1>10, Zenon DEF p

\* What has been parsed is what the peeked bytes give.
ParserInv ==
    /\ sent.hello \in Hellos /\ sent.cut \in Nat /\ sent.seen \in Nat
    /\ stream = Parser!Stream(sent.hello, sent.cut, sent.seen)
    /\ \/ parsed = [name |-> <<>>, tls |-> FALSE, err |-> TRUE]
       \/ parsed = Parser!PeekClientHelloServerName(stream)

\* However the client cuts a hello into records and wherever the peeked bytes end,
\* PeekClientHelloServerName reports the name the client means, or an error, for
\* every hello, of any number of extensions and names (client_hello.go).
THEOREM ParserNeverTheWrongName == Parser!Spec => []NeverTheWrongName
<1>1. Parser!Init => ParserInv
  <2> SUFFICES ASSUME Parser!Init PROVE ParserInv
    OBVIOUS
  <2>1. PICK h \in Hellos : \E cut \in 1..(Len(Parser!Encoding(h)) + 1), seen \in 0..(Len(Parser!Encoding(h)) + 6) :
            /\ sent = [hello |-> h, cut |-> cut, seen |-> seen]
            /\ stream = Parser!Stream(h, cut, seen)
            /\ parsed = [name |-> <<>>, tls |-> FALSE, err |-> TRUE]
    BY Zenon DEF Parser!Init
  <2> DEFINE a == Len(Parser!Encoding(h)) + 1
             b == Len(Parser!Encoding(h)) + 6
  <2>2. PICK cut \in 1 .. a, seen \in 0 .. b :
            /\ sent = [hello |-> h, cut |-> cut, seen |-> seen]
            /\ stream = Parser!Stream(h, cut, seen)
            /\ parsed = [name |-> <<>>, tls |-> FALSE, err |-> TRUE]
    BY <2>1, Zenon
  <2> HIDE DEF a, b
  <2>3. cut \in Nat /\ seen \in Nat
    OBVIOUS
  <2>4. sent.hello = h /\ sent.cut = cut /\ sent.seen = seen
    BY <2>2
  <2> QED BY <2>2, <2>3, <2>4, Zenon DEF ParserInv
<1>2. ParserInv /\ [Parser!Next]_(Parser!vars) => ParserInv'
  <2>1. ParserInv /\ Parser!Peek => ParserInv'
    BY Zenon DEF ParserInv, Parser!Peek
  <2>2. ParserInv /\ UNCHANGED Parser!vars => ParserInv'
    BY Zenon DEF ParserInv, Parser!vars
  <2> QED BY <2>1, <2>2 DEF Parser!Next
<1>3. ParserInv => NeverTheWrongName
  <2> SUFFICES ASSUME ParserInv, parsed.tls, ~parsed.err, ~(sent.cut < 2)
               PROVE  parsed.name = sent.hello.name
    BY DEF NeverTheWrongName, Parser!NeverTheWrongName
  <2>1. [name |-> <<>>, tls |-> FALSE, err |-> TRUE].tls = FALSE
    OBVIOUS
  <2>2. parsed = Parser!PeekClientHelloServerName(Parser!Stream(sent.hello, sent.cut, sent.seen))
    BY <2>1, Zenon DEF ParserInv
  <2>3. sent.hello \in Hellos /\ sent.cut \in Nat /\ sent.seen \in Nat
    BY Zenon DEF ParserInv
  <2>4. 2 <= sent.cut
    BY <2>3
  <2> QED BY <2>2, <2>3, <2>4, ParseStream
<1> QED BY <1>1, <1>2, <1>3, PTL DEF Parser!Spec
=============================================================================
