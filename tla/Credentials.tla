----------------------------- MODULE Credentials -----------------------------
(***************************************************************************)
(* Credential injection (cmd/proxy/credentials.go): every outbound request *)
(* that is terminated here takes a snapshot of the configured user sources, *)
(* resolves the user behind its headers (pkg/identity/resolver.go) and then *)
(* the credential of that user (pkg/credential/resolver.go).  Both         *)
(* resolvers keep a sync.Map with expiry times and ask the vault on a miss; *)
(* nothing keeps two requests from asking for the same key at once, and the *)
(* later answer to be stored may be the older one.                         *)
(*                                                                         *)
(* Time is counted in ticks.  A goroutine is not delayed by a whole tick   *)
(* between two of its steps; only the vault takes time, at most Timeout    *)
(* ticks (http.Client.Timeout), after which the call fails.  The agent id  *)
(* and the target host are fixed, so a user is the whole key.              *)
(***************************************************************************)
EXTENDS Integers, Sequences

CONSTANTS
    Request,        \* connections with a request in hand
    Token,          \* the tokens that requests carry
    User,           \* user ids; NoUser is ""
    Secret,         \* credentials; NoCred is nil
    NoToken, NoUser, NoCred,
    Headers,        \* the header sets that are explored, [token, prefixed, user]
    SourceLists,    \* values of user_sources, sequences of "oauth2_token" and "trusted_header"
    TTL,            \* ticks a credential is cached
    IdTTLs,         \* ticks an identity is cached, as the vault says or by default
    Timeout,        \* ticks before a call of the vault fails
    MaxTime,        \* bound on time
    MaxChange       \* bound on changes in the vault and of the configuration

VARIABLES
    now,
    sources,        \* runtimeconfig's user_sources
    identity,       \* the vault: the user of each token
    credential,     \* the vault: the credential of each user
    idUntil,        \* history: when each user was last the user of a token
    credUntil,      \* history: when each credential was last the one of a user
    idCache,        \* identity.Resolver.cache: per token {} or one [value, expiresAt]
    credCache,      \* credential.Resolver.cache: per user {} or one [value, expiresAt]
    call,           \* per request: what it does
    changes

cVars == <<now, sources, identity, credential, idUntil, credUntil, idCache,
           credCache, call, changes>>

AnyUser == User \cup {NoUser}
AnyCred == Secret \cup {NoCred}
Never == 0 - 100
Idle == [at |-> "idle", list |-> <<>>, headers |-> CHOOSE h \in Headers : TRUE,
         since |-> 0, answer |-> {}, user |-> NoUser, cred |-> NoCred]

Init ==
    /\ now = 0
    /\ sources \in SourceLists
    /\ identity \in [Token -> AnyUser]
    /\ credential \in [AnyUser -> AnyCred]
    /\ idUntil = [t \in Token |-> [u \in AnyUser |-> Never]]
    /\ credUntil = [u \in AnyUser |-> [c \in AnyCred |-> Never]]
    /\ idCache = [t \in Token |-> {}]
    /\ credCache = [u \in AnyUser |-> {}]
    /\ call = [r \in Request |-> Idle]
    /\ changes = 0

Update(r, c) == call' = [call EXCEPT ![r] = c]

World == <<now, sources, identity, credential, idUntil, credUntil, changes>>

-----------------------------------------------------------------------------
(***************************************************************************)
(* One request                                                             *)
(***************************************************************************)

\* resolveUserID has the user (or none): on to the credential.
WithUser(c, user) == [c EXCEPT !.at = "cred", !.user = user, !.list = <<>>,
                               !.answer = {}, !.since = 0]

\* trimTokenPrefix: the token of the header, none without the prefix.
TokenOf(h) == IF h.token # NoToken /\ h.prefixed THEN h.token ELSE NoToken

\* The loop of resolveUserID up to the next source that finds its header: a
\* trusted header decides, a token is looked up.
NextSource(c) ==
    LET Found(i) == IF c.list[i] = "trusted_header" THEN c.headers.user # NoUser
                    ELSE TokenOf(c.headers) # NoToken
        hits == {i \in DOMAIN c.list : Found(i)}
        first == CHOOSE i \in hits : \A j \in hits : i <= j
    IN IF hits = {} THEN WithUser(c, NoUser)
       ELSE IF c.list[first] = "trusted_header" THEN WithUser(c, c.headers.user)
       ELSE [c EXCEPT !.at = "identity", !.answer = {}, !.since = 0,
                      !.list = SubSeq(@, first + 1, Len(@))]

\* A request arrives: applyCredentialInjection, with the copy of the sources
\* that UserSources returns.
Arrive(r) ==
    /\ call[r] = Idle
    /\ \E h \in Headers :
         Update(r, NextSource([Idle EXCEPT !.list = sources, !.headers = h]))
    /\ UNCHANGED <<World, idCache, credCache>>

\* The request is sent on; the connection may bring another.
Finish(r) ==
    /\ call[r].at = "done"
    /\ Update(r, Idle)
    /\ UNCHANGED <<World, idCache, credCache>>

\* What resolveUserID does with the result of Resolve.
WithIdentity(c, user) == IF user = NoUser THEN NextSource(c) ELSE WithUser(c, user)

\* cache.Load: a live entry is the result, an expired one is deleted and the
\* vault is asked.  The two callers share the shape; cached is the entry.
Live(cached) == {e \in cached : now < e.expiresAt}

IdentityLoad(r) ==
    /\ call[r].at = "identity"
    /\ LET t == TokenOf(call[r].headers)
       IN /\ idCache' = [idCache EXCEPT ![t] = Live(@)]
          /\ \/ \E e \in Live(idCache[t]) : Update(r, WithIdentity(call[r], e.value))
             \/ /\ Live(idCache[t]) = {}
                /\ Update(r, [call[r] EXCEPT !.at = "idAsk", !.since = now])
    /\ UNCHANGED <<World, credCache>>

\* The vault's answer reaches the client: a user is stored with the expiry
\* the vault asked for; a 404 is not stored, an empty user id is.
IdentityStore(r) ==
    /\ call[r].at = "idAsk"
    /\ \E user \in call[r].answer, ttl \in IdTTLs :
         /\ \/ idCache' = [idCache EXCEPT ![TokenOf(call[r].headers)] =
                              {[value |-> user, expiresAt |-> now + ttl]}]
            \/ user = NoUser /\ UNCHANGED idCache
         /\ Update(r, WithIdentity(call[r], user))
    /\ UNCHANGED <<World, credCache>>

\* The credential is set on the request, if there is one.
Inject(c, cred) == [c EXCEPT !.at = "done", !.cred = cred, !.answer = {}, !.since = 0]

\* Fault: every hit extends the entry.
CredentialLoadSliding(r) ==
    /\ call[r].at = "cred"
    /\ LET u == call[r].user
       IN /\ credCache' = [credCache EXCEPT ![u] = {[e EXCEPT !.expiresAt = now + TTL] : e \in Live(@)}]
          /\ \/ \E e \in Live(credCache[u]) : Update(r, Inject(call[r], e.value))
             \/ /\ Live(credCache[u]) = {}
                /\ Update(r, [call[r] EXCEPT !.at = "credAsk", !.since = now])
    /\ UNCHANGED <<World, idCache>>

CredentialLoad(r) ==
    /\ call[r].at = "cred"
    /\ LET u == call[r].user
       IN /\ credCache' = [credCache EXCEPT ![u] = Live(@)]
          /\ \/ \E e \in Live(credCache[u]) : Update(r, Inject(call[r], e.value))
             \/ /\ Live(credCache[u]) = {}
                /\ Update(r, [call[r] EXCEPT !.at = "credAsk", !.since = now])
    /\ UNCHANGED <<World, idCache>>

\* A credential is stored with the fixed lifetime, its absence (404) too.
CredentialStore(r) ==
    /\ call[r].at = "credAsk"
    /\ \E cred \in call[r].answer :
         /\ credCache' = [credCache EXCEPT ![call[r].user] =
                             {[value |-> cred, expiresAt |-> now + TTL]}]
         /\ Update(r, Inject(call[r], cred))
    /\ UNCHANGED <<World, idCache>>

\* The vault cannot be reached, answers with another status, or is too slow:
\* nothing is stored and the request fails.
FetchFails(r) ==
    /\ call[r].at \in {"idAsk", "credAsk"}
    /\ Update(r, Idle)
    /\ UNCHANGED <<World, idCache, credCache>>

-----------------------------------------------------------------------------
(***************************************************************************)
(* The vault, the configuration and time                                   *)
(***************************************************************************)

VaultAnswers(r) ==
    /\ call[r].at \in {"idAsk", "credAsk"} /\ call[r].answer = {}
    /\ Update(r, [call[r] EXCEPT !.answer =
            IF call[r].at = "idAsk" THEN {identity[TokenOf(call[r].headers)]}
            ELSE {credential[call[r].user]}])
    /\ UNCHANGED <<World, idCache, credCache>>

ChangeIdentity(t, u) ==
    /\ changes < MaxChange /\ identity[t] # u
    /\ changes' = changes + 1
    /\ identity' = [identity EXCEPT ![t] = u]
    /\ idUntil' = [idUntil EXCEPT ![t][identity[t]] = now]
    /\ UNCHANGED <<now, sources, credential, credUntil, idCache, credCache, call>>

ChangeCredential(u, c) ==
    /\ changes < MaxChange /\ credential[u] # c
    /\ changes' = changes + 1
    /\ credential' = [credential EXCEPT ![u] = c]
    /\ credUntil' = [credUntil EXCEPT ![u][credential[u]] = now]
    /\ UNCHANGED <<now, sources, identity, idUntil, idCache, credCache, call>>

ChangeSources(list) ==
    /\ changes < MaxChange /\ sources # list
    /\ changes' = changes + 1
    /\ sources' = list
    /\ UNCHANGED <<now, identity, credential, idUntil, credUntil, idCache, credCache, call>>

\* Time passes while the goroutines wait for the vault, within its timeout.
Tick ==
    /\ now < MaxTime
    /\ \A r \in Request :
         \/ call[r].at = "idle"
         \/ call[r].at \in {"idAsk", "credAsk"} /\ now - call[r].since < Timeout
    /\ now' = now + 1
    /\ UNCHANGED <<sources, identity, credential, idUntil, credUntil, idCache,
                   credCache, call, changes>>

Next ==
    \/ Tick
    \/ \E r \in Request :
         \/ Arrive(r) \/ Finish(r) \/ IdentityLoad(r) \/ IdentityStore(r)
         \/ CredentialLoad(r) \/ CredentialStore(r) \/ FetchFails(r) \/ VaultAnswers(r)
    \/ \E t \in Token, u \in AnyUser : ChangeIdentity(t, u)
    \/ \E u \in AnyUser, c \in AnyCred : ChangeCredential(u, c)
    \/ \E list \in SourceLists : ChangeSources(list)

Spec == Init /\ [][Next]_cVars

-----------------------------------------------------------------------------
Longest == CHOOSE n \in IdTTLs : \A m \in IdTTLs : n >= m

\* Whatever requests ask at once and whenever the vault changes, a request
\* that is sent on carries the credential of a user that its own headers name,
\* and neither is too old: the credential was the vault's less than one
\* lifetime and one timeout ago (a slow answer may be stored over a newer one,
\* resolver.go:44-51), the user less than one lifetime and two timeouts ago.
CredentialIsCurrent ==
    \A r \in Request : call[r].at = "done" =>
        LET c == call[r]
            t == TokenOf(c.headers)
        IN /\ \/ credential[c.user] = c.cred
              \/ now < credUntil[c.user][c.cred] + Timeout + TTL
           /\ \/ c.user \in {NoUser, c.headers.user}
              \/ t # NoToken /\ identity[t] = c.user
              \/ t # NoToken /\ now < idUntil[t][c.user] + 2 * Timeout + Longest

-----------------------------------------------------------------------------
(***************************************************************************)
(* The inductive invariant                                                 *)
(***************************************************************************)

Source == {"oauth2_token", "trusted_header"}
Header == [token : Token \cup {NoToken}, prefixed : BOOLEAN, user : AnyUser]
Call == [at : {"idle", "identity", "idAsk", "cred", "credAsk", "done"}, list : Seq(Source),
         headers : Headers, since : Nat, answer : SUBSET (AnyUser \cup AnyCred),
         user : AnyUser, cred : AnyCred]

\* Both resolvers keep what they know for a time: the credential's lifetime is
\* fixed, the vault's ttl_seconds counts only if it is positive.
CachesAssumption ==
    /\ Headers \subseteq Header /\ Headers # {}
    /\ SourceLists \subseteq Seq(Source)
    /\ TTL \in Nat \ {0} /\ Timeout \in Nat
    /\ IdTTLs \subseteq Nat \ {0} /\ \E n \in IdTTLs : \A m \in IdTTLs : n >= m

CredTypeOK ==
    /\ now \in Nat
    /\ sources \in SourceLists
    /\ identity \in [Token -> AnyUser]
    /\ credential \in [AnyUser -> AnyCred]
    /\ idUntil \in [Token -> [AnyUser -> Int]]
    /\ credUntil \in [AnyUser -> [AnyCred -> Int]]
    /\ idCache \in [Token -> SUBSET [value : AnyUser, expiresAt : Nat]]
    /\ credCache \in [AnyUser -> SUBSET [value : AnyCred, expiresAt : Nat]]
    /\ call \in [Request -> Call]

\* The vault said so at some moment from then on, for a user and a credential.
WasUser(t, u, then) == identity[t] = u \/ then <= idUntil[t][u]
WasCred(u, c, then) == credential[u] = c \/ then <= credUntil[u][c]

\* What is cached is what the vault says, or was at most a timeout before it
\* was stored.
IdCacheIsRight ==
    \A t \in Token : \A e \in idCache[t] :
        e.expiresAt <= now + Longest /\ WasUser(t, e.value, e.expiresAt - Timeout - Longest)
CredCacheIsRight ==
    \A u \in AnyUser : \A e \in credCache[u] :
        e.expiresAt <= now + TTL /\ WasCred(u, e.value, e.expiresAt - Timeout - TTL)

\* The user of call c is one that its headers name, by a token until at most a
\* timeout and a lifetime before then.
UserIsRight(c, then) ==
    LET t == TokenOf(c.headers)
    IN  \/ c.user \in {NoUser, c.headers.user}
        \/ t # NoToken /\ WasUser(t, c.user, then + 1 - Timeout - Longest)

\* What a request holds at each of its steps.
CallIsRight(c) ==
    /\ c.at \in {"identity", "cred"} => c.answer = {}
    /\ c.at \in {"identity", "idAsk"} => TokenOf(c.headers) # NoToken
    /\ c.at \in {"idAsk", "credAsk"} => c.since <= now /\ now <= c.since + Timeout
    /\ c.at = "idAsk" => \A u \in c.answer :
          u \in AnyUser /\ WasUser(TokenOf(c.headers), u, c.since)
    /\ c.at = "cred" => UserIsRight(c, now)
    /\ c.at = "credAsk" => /\ UserIsRight(c, c.since)
                           /\ \A x \in c.answer : x \in AnyCred /\ WasCred(c.user, x, c.since)
    /\ c.at = "done" => /\ UserIsRight(c, now - Timeout)
                        /\ WasCred(c.user, c.cred, now + 1 - Timeout - TTL)

CallsAreRight == \A r \in Request : CallIsRight(call[r])

CredInv == CredTypeOK /\ IdCacheIsRight /\ CredCacheIsRight /\ CallsAreRight
=============================================================================
