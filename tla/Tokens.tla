----------------------------- MODULE Tokens -----------------------------
(* verify_token of gateway-api: the dependency that every endpoint awaits *)
(* first, and the cache of Keycloak's key set which all requests share.   *)
(* Signing keys are numbered in the order Keycloak makes them.            *)
EXTENDS Integers

CONSTANTS Requests,  \* requests with an Authorization header to verify
          MaxKeys,   \* bound: how many signing keys Keycloak makes
          Faults     \* what may go wrong, a subset of FaultKinds

FaultKinds == {"outage", "gatewayRestart"}

ASSUME TokensAssumption ==
  /\ MaxKeys \in Nat \ {0}
  /\ Faults \subseteq FaultKinds

VARIABLES
  oldest, newest, \* Keycloak publishes the keys oldest..newest and signs with newest
  cache,          \* _jwks_cache: the keys in it; {} while it is None
  fresh,          \* it was fetched less than JWKS_CACHE_TTL_SECONDS ago
  token,          \* token[r]: the bearer token request r came with
  pc,             \* pc[r]: where verify_token is, or how it ended
  answer,         \* answer[r]: Keycloak's answer to its GET, a set that is
                  \* empty until there is one
  buried          \* history: keys retired for a whole lifetime of the cache

vars == <<oldest, newest, cache, fresh, token, pc, answer, buried>>

Keys      == 1..MaxKeys
Published == oldest..newest

\* What a key set can find out about a token. Key 0: forged or expired, which
\* none accepts. Foreign: well signed, for another realm given the same key.
Hopeless   == [key |-> 0, foreign |-> FALSE]
Token      == {Hopeless} \cup [key : Keys, foreign : BOOLEAN]
Issued     == {t \in Token : t.key <= newest}

Answer     == {{}} \cup {{ks} : ks \in (SUBSET Keys) \ {{}}}

Fetching == {"fetching", "refetching"}  \* awaiting the GET, unforced and forced
Closing  == {"closing", "reclosing"}    \* awaiting the exit of "async with"
Ended    == {"admitted", "refused", "failed", "crashed"}

TypeOK ==
  /\ oldest \in Keys /\ newest \in Keys /\ oldest <= newest
  /\ cache \subseteq Keys
  /\ fresh \in BOOLEAN
  /\ fresh => cache # {}
  /\ token \in [Requests -> Token]
  /\ pc \in [Requests -> {"idle"} \cup Fetching \cup Closing \cup Ended]
  /\ answer \in [Requests -> Answer]
  /\ buried \subseteq Keys

\* Either gateway-api has just started, or earlier requests filled its cache.
Init ==
  /\ oldest = 1 /\ newest = 1
  /\ \/ cache = {} /\ fresh = FALSE
     \/ cache = Published /\ fresh = TRUE
  /\ token = [r \in Requests |-> Hopeless]
  /\ pc = [r \in Requests |-> "idle"]
  /\ answer = [r \in Requests |-> {}]
  /\ buried = {}

-------------------------------------------------------------------------
(* Keycloak: a rotation signs with a new key and goes on publishing the   *)
(* old ones; a retirement takes the oldest out of the key set.            *)

Rotate ==
  /\ newest < MaxKeys
  /\ newest' = newest + 1
  /\ UNCHANGED <<oldest, cache, fresh, token, pc, answer, buried>>

Retire ==
  /\ oldest < newest
  /\ oldest' = oldest + 1
  /\ UNCHANGED <<newest, cache, fresh, token, pc, answer, buried>>

KeycloakAnswers(r) ==
  /\ pc[r] \in Fetching /\ answer[r] = {}
  /\ answer' = [answer EXCEPT ![r] = {Published}]
  /\ UNCHANGED <<oldest, newest, cache, fresh, token, pc, buried>>

-------------------------------------------------------------------------
(* gateway-api                                                            *)

\* jwt.decode tries every key of the set.
Decodes(t, keys) == t.key \in keys

\* The realm is checked after the retry: another realm is refused at once.
Verdict(t) == IF t.foreign THEN "refused" ELSE "admitted"

\* Where a JWTError leads: to one forced refresh, or to the 401.
\* Mutants: no refresh; a refresh after each failure.
NeverRetry(forced)  == "refused"
AlwaysRetry(forced) == "refetching"
OnJWTError(forced)  == IF forced THEN "refused" ELSE "refetching"

Decode(r, t, forced) ==
  /\ pc' = [pc EXCEPT ![r] = IF Decodes(t, cache) THEN Verdict(t) ELSE OnJWTError(forced)]
  /\ answer' = [answer EXCEPT ![r] = {}]

\* Mutant: the cache as it was before it had a TTL, kept once it is filled.
KeptForever == cache # {}
Usable      == fresh

\* No await before the decode when the cache is usable.
Arrive(r) ==
  /\ pc[r] = "idle"
  /\ \E t \in Issued :
       /\ token' = [token EXCEPT ![r] = t]
       /\ \/ Usable /\ Decode(r, t, FALSE)
          \/ /\ ~Usable
             /\ pc' = [pc EXCEPT ![r] = "fetching"]
             /\ UNCHANGED answer
  /\ UNCHANGED <<oldest, newest, cache, fresh, buried>>

ArriveWithoutBearer(r) ==
  /\ pc[r] = "idle"
  /\ pc' = [pc EXCEPT ![r] = "refused"]
  /\ UNCHANGED <<oldest, newest, cache, fresh, token, answer, buried>>

\* Timeout of 5 s, connect error, status, body: no JWTError, so the except
\* clauses let it pass and the client is answered 500.
FetchFails(r) ==
  /\ "outage" \in Faults
  /\ pc[r] \in Fetching
  /\ pc' = [pc EXCEPT ![r] = "failed"]
  /\ answer' = [answer EXCEPT ![r] = {}]
  /\ UNCHANGED <<oldest, newest, cache, fresh, token, buried>>

\* Mutant: the time of the fetch is noted, the keys are only returned.
StampOnly(r) ==
  /\ pc[r] \in Fetching /\ answer[r] # {}
  /\ fresh' = TRUE
  /\ pc' = [pc EXCEPT ![r] = IF pc[r] = "fetching" THEN "closing" ELSE "reclosing"]
  /\ UNCHANGED <<oldest, newest, cache, token, answer, buried>>

StoreKeys(r) ==
  /\ pc[r] \in Fetching /\ answer[r] # {}
  /\ cache' = UNION answer[r]
  /\ fresh' = TRUE
  /\ pc' = [pc EXCEPT ![r] = IF pc[r] = "fetching" THEN "closing" ELSE "reclosing"]
  /\ UNCHANGED <<oldest, newest, token, answer, buried>>

\* "return _jwks_cache" stands after the "async with", whose exit awaits the
\* closing of the connection: what is returned and decoded with is the cache
\* as it is then, not the answer this request has stored.
ReturnKeys(r) ==
  /\ pc[r] \in Closing
  /\ Decode(r, token[r], pc[r] = "reclosing")
  /\ UNCHANGED <<oldest, newest, cache, fresh, token, buried>>

\* k may still reach the cache, or a decode, through a request in progress.
InProgress(k) ==
  \E r \in Requests :
    \/ pc[r] \in Fetching \cup Closing /\ k \in UNION answer[r]
    \/ pc[r] \in Closing /\ k \in cache

Lapse ==
  /\ fresh
  /\ fresh' = FALSE
  /\ buried' = buried \cup {k \in 1..(oldest - 1) : ~InProgress(k)}
  /\ UNCHANGED <<oldest, newest, cache, token, pc, answer>>

GatewayRestart ==
  /\ "gatewayRestart" \in Faults
  /\ \E r \in Requests : pc[r] \in Fetching \cup Closing
  /\ cache' = {} /\ fresh' = FALSE
  /\ pc' = [r \in Requests |-> IF pc[r] \in Fetching \cup Closing THEN "crashed" ELSE pc[r]]
  /\ answer' = [r \in Requests |-> {}]
  /\ buried' = 1..(oldest - 1)
  /\ UNCHANGED <<oldest, newest, token>>

Handler(r) == Arrive(r) \/ ArriveWithoutBearer(r) \/ StoreKeys(r) \/ ReturnKeys(r)

Rest == (\A r \in Requests : pc[r] \in Ended) /\ UNCHANGED vars

Next ==
  \/ \E r \in Requests : Handler(r) \/ KeycloakAnswers(r) \/ FetchFails(r)
  \/ Rotate \/ Retire \/ Lapse \/ GatewayRestart
  \/ Rest

\* The event loop gets round to every task, and httpx gives the GET 5 s.
Fairness ==
  \A r \in Requests :
    /\ WF_vars(StoreKeys(r) \/ FetchFails(r))
    /\ WF_vars(ReturnKeys(r))
    /\ WF_vars(KeycloakAnswers(r) \/ FetchFails(r))

Spec     == Init /\ [][Next]_vars
FairSpec == Spec /\ Fairness

-------------------------------------------------------------------------
(* Properties                                                             *)

\* "This recovers immediately on the very next request": a good token whose
\* key Keycloak publishes is answered 401 in one case only. Its own forced
\* fetch did bring the key, and before it could decode, the answer of another
\* request's fetch, older or taken earlier, had replaced the cache.
RefusedOnlyIfOverwritten ==
  [][\A r \in Requests :
       /\ pc[r] # "refused" /\ pc'[r] = "refused"
       /\ ~token'[r].foreign /\ token'[r].key \in Published
       => pc[r] = "reclosing" /\ token[r].key \in (UNION answer[r]) \ cache]_vars

\* "A TTL so the cache is refreshed periodically": a key that was retired
\* before the cache lapsed, and that no fetch was then bringing back, admits
\* nobody, although a cache hit never asks Keycloak.
RetiredKeysForgotten ==
  [][\A r \in Requests :
       pc[r] # "admitted" /\ pc'[r] = "admitted" => token'[r].key \notin buried]_vars

\* One retry and no more: with Keycloak slow, dead or rotating, and whatever
\* the token, each request that needs a fetch is answered.
EveryRequestAnswered ==
  \A r \in Requests : (pc[r] \in Fetching \cup Closing) ~> (pc[r] \in Ended)
=========================================================================
