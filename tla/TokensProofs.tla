-------------------------- MODULE TokensProofs --------------------------
(* Proofs about the key-set cache of gateway-api, for any number of       *)
(* requests, keys and faults.                                             *)
EXTENDS Tokens, TLAPS

\* No request carries a token from the future.
TokensOfTheirTime ==
  \A r \in Requests : token[r] \in Issued /\ (pc[r] = "idle" => token[r] = Hopeless)

\* Keys are retired for good, so what Keycloak has answered since the request
\* came includes the request's key as long as that key is published.
AnswersKnow ==
  \A r \in Requests :
    /\ pc[r] \in Closing => answer[r] # {}
    /\ answer[r] # {} => pc[r] \in Fetching \cup Closing
    /\ answer[r] # {} /\ token[r].key \in Published => token[r].key \in UNION answer[r]

Dead(k) == k < oldest /\ ~InProgress(k) /\ (fresh => k \notin cache)

Inv == TypeOK /\ TokensOfTheirTime /\ AnswersKnow /\ \A k \in buried : Dead(k)

LEMMA OneKey == MaxKeys \in Nat /\ 1 <= MaxKeys
BY TokensAssumption

LEMMA HopelessKey == Hopeless \in Token /\ Hopeless.key = 0
BY DEF Hopeless, Token

LEMMA InitInv == Init => Inv
<1> SUFFICES ASSUME Init PROVE Inv
  OBVIOUS
<1>1. 1 \in Keys
  BY OneKey DEF Keys
<1>2. Published = {1}
  BY DEF Init, Published
<1>3. TypeOK
  <2>1. cache \subseteq Keys /\ fresh \in BOOLEAN /\ (fresh => cache # {})
    BY <1>1, <1>2 DEF Init
  <2>2. token \in [Requests -> Token] /\ answer \in [Requests -> Answer]
    BY HopelessKey DEF Init, Answer
  <2>3. pc \in [Requests -> {"idle"} \cup Fetching \cup Closing \cup Ended]
    BY DEF Init
  <2> QED
    BY <1>1, <2>1, <2>2, <2>3 DEF Init, TypeOK
<1>4. TokensOfTheirTime
  <2>1. Hopeless \in Issued
    BY HopelessKey DEF Init, Issued
  <2> QED
    BY <2>1 DEF Init, TokensOfTheirTime
<1>5. AnswersKnow
  BY DEF Init, AnswersKnow, Closing
<1> QED
  BY <1>3, <1>4, <1>5 DEF Init, Inv

LEMMA KeyIsNumber ==
  ASSUME NEW t \in Token
  PROVE  t.key \in 0..MaxKeys
BY OneKey DEF Token, Hopeless, Keys

\* What Keycloak answers is a non-empty set of its keys.
LEMMA PublishedKeys ==
  ASSUME TypeOK
  PROVE  /\ Published \subseteq Keys /\ Published # {}
         /\ UNION {Published} = Published
<1>1. oldest \in Published /\ Published \subseteq Keys
  BY OneKey DEF TypeOK, Published, Keys
<1> QED
  BY <1>1

\* An answer is a set of keys, or not there.
LEMMA AnswerIsKeys ==
  ASSUME NEW a \in Answer
  PROVE  UNION a \subseteq Keys /\ (a # {} => UNION a # {})
<1>1. CASE a = {}
  BY <1>1
<1>2. ASSUME NEW ks \in (SUBSET Keys) \ {{}}, a = {ks}
      PROVE  UNION a \subseteq Keys /\ UNION a # {}
  <2>1. UNION a = ks
    BY <1>2
  <2> QED
    BY <1>2, <2>1
<1> QED
  BY <1>1, <1>2 DEF Answer

LEMMA StepType == Inv /\ [Next]_vars => TypeOK'
<1> SUFFICES ASSUME Inv, [Next]_vars PROVE TypeOK'
  OBVIOUS
<1> USE DEF Inv, TypeOK
<1>1. CASE Rotate \/ Retire
  <2>1. oldest' \in Keys /\ newest' \in Keys /\ oldest' <= newest'
    BY <1>1, OneKey DEF Rotate, Retire, Keys
  <2> QED
    BY <1>1, <2>1 DEF Rotate, Retire
<1>2. ASSUME NEW r \in Requests, Arrive(r) \/ ArriveWithoutBearer(r)
      PROVE  TypeOK'
  BY <1>2 DEF Arrive, ArriveWithoutBearer, Decode, OnJWTError, Verdict, Issued,
     Fetching, Closing, Ended, Answer
<1>3. ASSUME NEW r \in Requests, KeycloakAnswers(r)
      PROVE  TypeOK'
  BY <1>3, PublishedKeys DEF KeycloakAnswers, Answer
<1>4. ASSUME NEW r \in Requests, StoreKeys(r)
      PROVE  TypeOK'
  BY <1>4, AnswerIsKeys DEF StoreKeys, Fetching, Closing, Ended
<1>5. ASSUME NEW r \in Requests, FetchFails(r) \/ ReturnKeys(r)
      PROVE  TypeOK'
  BY <1>5 DEF FetchFails, ReturnKeys, Decode, OnJWTError, Verdict, Fetching, Closing, Ended,
     Answer
<1>6. CASE Lapse
  <2>1. 1..(oldest - 1) \subseteq Keys
    BY OneKey DEF Keys
  <2> QED
    BY <1>6, <2>1 DEF Lapse
<1>7. CASE GatewayRestart
  <2>1. 1..(oldest - 1) \subseteq Keys
    BY OneKey DEF Keys
  <2> QED
    BY <1>7, <2>1 DEF GatewayRestart, Fetching, Closing, Ended, Answer
<1>8. CASE UNCHANGED vars
  BY <1>8 DEF vars
<1> QED
  BY <1>1, <1>2, <1>3, <1>4, <1>5, <1>6, <1>7, <1>8 DEF Next, Handler, Rest

LEMMA StepTokens == Inv /\ [Next]_vars => TokensOfTheirTime'
<1> SUFFICES ASSUME Inv, [Next]_vars PROVE TokensOfTheirTime'
  OBVIOUS
<1> USE DEF Inv, TypeOK, TokensOfTheirTime, Issued
<1>1. CASE Rotate \/ Retire
  BY <1>1, OneKey, KeyIsNumber DEF Rotate, Retire, Keys
<1>2. ASSUME NEW r \in Requests, Arrive(r) \/ ArriveWithoutBearer(r)
      PROVE  TokensOfTheirTime'
  BY <1>2 DEF Arrive, ArriveWithoutBearer, Decode, OnJWTError, Verdict
<1>3. ASSUME NEW r \in Requests,
             KeycloakAnswers(r) \/ StoreKeys(r) \/ FetchFails(r) \/ ReturnKeys(r)
      PROVE  TokensOfTheirTime'
  BY <1>3 DEF KeycloakAnswers, StoreKeys, FetchFails, ReturnKeys, Decode, OnJWTError, Verdict
<1>4. CASE Lapse \/ GatewayRestart \/ UNCHANGED vars
  BY <1>4 DEF Lapse, GatewayRestart, vars
<1> QED
  BY <1>1, <1>2, <1>3, <1>4 DEF Next, Handler, Rest

LEMMA StepAnswers == Inv /\ [Next]_vars => AnswersKnow'
<1> SUFFICES ASSUME Inv, [Next]_vars PROVE AnswersKnow'
  OBVIOUS
<1> USE DEF Inv, TypeOK, AnswersKnow
<1>1. CASE Rotate \/ Retire
  BY <1>1, OneKey, KeyIsNumber DEF Rotate, Retire, Published, TokensOfTheirTime, Issued, Keys
<1>2. ASSUME NEW r \in Requests, Arrive(r) \/ ArriveWithoutBearer(r)
      PROVE  AnswersKnow'
  <2>1. answer[r] = {} \/ answer'[r] = {}
    BY <1>2 DEF Arrive, ArriveWithoutBearer, Fetching, Closing
  <2> QED
    BY <1>2 DEF Arrive, ArriveWithoutBearer, Decode, OnJWTError, Verdict, Published,
       Fetching, Closing
<1>3. ASSUME NEW r \in Requests, KeycloakAnswers(r)
      PROVE  AnswersKnow'
  BY <1>3, PublishedKeys DEF KeycloakAnswers, Published
<1>4. ASSUME NEW r \in Requests, StoreKeys(r) \/ FetchFails(r) \/ ReturnKeys(r)
      PROVE  AnswersKnow'
  BY <1>4 DEF StoreKeys, FetchFails, ReturnKeys, Decode, OnJWTError, Verdict, Published,
     Fetching, Closing
<1>5. CASE Lapse \/ GatewayRestart \/ UNCHANGED vars
  BY <1>5 DEF Lapse, GatewayRestart, vars, Published, Fetching, Closing
<1> QED
  BY <1>1, <1>2, <1>3, <1>4, <1>5 DEF Next, Handler, Rest

LEMMA StepDead == Inv /\ [Next]_vars => \A k \in buried' : Dead(k)'
<1> SUFFICES ASSUME Inv, [Next]_vars, NEW k \in buried' PROVE Dead(k)'
  OBVIOUS
<1> USE DEF Inv, TypeOK, Dead, InProgress
<1>1. CASE Rotate \/ Retire
  <2>1. UNCHANGED <<cache, fresh, pc, answer, buried>>
    BY <1>1 DEF Rotate, Retire
  <2>2. k < oldest'
    BY <1>1, <2>1, OneKey DEF Rotate, Retire, Keys
  <2> QED
    BY <2>1, <2>2
<1>2. ASSUME NEW r \in Requests, Arrive(r) \/ ArriveWithoutBearer(r)
      PROVE  Dead(k)'
  BY <1>2 DEF Arrive, ArriveWithoutBearer, Decode, OnJWTError, Verdict, Fetching, Closing,
     AnswersKnow
<1>3. ASSUME NEW r \in Requests, KeycloakAnswers(r)
      PROVE  Dead(k)'
  BY <1>3, PublishedKeys DEF KeycloakAnswers, Published, Keys
<1>4. ASSUME NEW r \in Requests, StoreKeys(r)
      PROVE  Dead(k)'
  BY <1>4 DEF StoreKeys, Fetching, Closing
<1>5. ASSUME NEW r \in Requests, FetchFails(r) \/ ReturnKeys(r)
      PROVE  Dead(k)'
  BY <1>5 DEF FetchFails, ReturnKeys, Decode, OnJWTError, Verdict, Fetching, Closing
<1>6. CASE Lapse
  BY <1>6 DEF Lapse, Keys
<1>7. CASE GatewayRestart
  BY <1>7 DEF GatewayRestart, Fetching, Closing, Keys
<1>8. CASE UNCHANGED vars
  BY <1>8 DEF vars
<1> QED
  BY <1>1, <1>2, <1>3, <1>4, <1>5, <1>6, <1>7, <1>8 DEF Next, Handler, Rest

\* The inductive invariant of the cache: a request's answer knows its key, and
\* a buried key is neither usable nor on its way.
THEOREM Invariance == Spec => []Inv
<1>1. Inv /\ [Next]_vars => Inv'
  BY StepType, StepTokens, StepAnswers, StepDead DEF Inv
<1> QED
  BY InitInv, <1>1, PTL DEF Spec

\* The state keeps its types, and a fresh cache holds keys.
THEOREM TypeCorrect == Spec => []TypeOK
<1>1. Inv => TypeOK
  BY DEF Inv
<1> QED
  BY Invariance, <1>1, PTL

\* A published key's token is refused only after another request's answer has
\* replaced the key set that its own forced fetch had stored.
THEOREM RefusedOnlyIfOverwrittenHolds == Spec => RefusedOnlyIfOverwritten
<1> DEFINE Overwritten ==
      \A r \in Requests :
        /\ pc[r] # "refused" /\ pc'[r] = "refused"
        /\ ~token'[r].foreign /\ token'[r].key \in Published
        => pc[r] = "reclosing" /\ token[r].key \in (UNION answer[r]) \ cache
<1>1. Inv /\ [Next]_vars => [Overwritten]_vars
  <2> SUFFICES ASSUME Inv, [Next]_vars, NEW r \in Requests,
                      pc[r] # "refused", pc'[r] = "refused",
                      ~token'[r].foreign, token'[r].key \in Published
               PROVE  pc[r] = "reclosing" /\ token[r].key \in (UNION answer[r]) \ cache
    OBVIOUS
  <2> USE DEF Inv, TypeOK
  <2>1. CASE Arrive(r)
    BY <2>1 DEF Arrive, Decode, OnJWTError, Verdict
  <2>2. CASE ArriveWithoutBearer(r)
    BY <2>2 DEF ArriveWithoutBearer, TokensOfTheirTime, Hopeless, Published, Keys
  <2>3. CASE ReturnKeys(r)
    <3>1. pc'[r] = IF Decodes(token[r], cache) THEN Verdict(token[r])
                   ELSE OnJWTError(pc[r] = "reclosing")
      BY <2>3 DEF ReturnKeys, Decode
    <3>2. ~Decodes(token[r], cache) /\ pc[r] = "reclosing"
      BY <2>3, <3>1 DEF ReturnKeys, Verdict, OnJWTError, Closing
    <3> QED
      BY <2>3, <3>2 DEF ReturnKeys, Decodes, AnswersKnow, Closing
  <2>4. CASE StoreKeys(r) \/ FetchFails(r) \/ KeycloakAnswers(r)
    BY <2>4 DEF StoreKeys, FetchFails, KeycloakAnswers
  <2>5. CASE \E q \in Requests \ {r} : Handler(q) \/ KeycloakAnswers(q) \/ FetchFails(q)
    BY <2>5 DEF Handler, Arrive, ArriveWithoutBearer, StoreKeys, ReturnKeys, Decode,
       FetchFails, KeycloakAnswers
  <2>6. CASE Rotate \/ Retire \/ Lapse \/ GatewayRestart \/ UNCHANGED vars
    BY <2>6 DEF Rotate, Retire, Lapse, GatewayRestart, vars
  <2> QED
    BY <2>1, <2>2, <2>3, <2>4, <2>5, <2>6 DEF Next, Handler, Rest
<1> QED
  BY <1>1, Invariance, PTL DEF Spec, RefusedOnlyIfOverwritten

\* A key retired before a lapse of the cache admits nobody after it.
THEOREM RetiredKeysForgottenHolds == Spec => RetiredKeysForgotten
<1> DEFINE Forgotten ==
      \A r \in Requests :
        pc[r] # "admitted" /\ pc'[r] = "admitted" => token'[r].key \notin buried
<1>1. Inv /\ [Next]_vars => [Forgotten]_vars
  <2> SUFFICES ASSUME Inv, [Next]_vars, NEW r \in Requests,
                      pc[r] # "admitted", pc'[r] = "admitted"
               PROVE  token'[r].key \notin buried
    OBVIOUS
  <2> USE DEF Inv, TypeOK, Dead
  <2>1. CASE Arrive(r)
    BY <2>1 DEF Arrive, Usable, Decode, Decodes, OnJWTError
  <2>2. CASE ReturnKeys(r)
    BY <2>2 DEF ReturnKeys, Decode, Decodes, OnJWTError, InProgress
  <2>3. CASE ArriveWithoutBearer(r) \/ StoreKeys(r) \/ FetchFails(r) \/ KeycloakAnswers(r)
    BY <2>3 DEF ArriveWithoutBearer, StoreKeys, FetchFails, KeycloakAnswers
  <2>4. CASE \E q \in Requests \ {r} : Handler(q) \/ KeycloakAnswers(q) \/ FetchFails(q)
    BY <2>4 DEF Handler, Arrive, ArriveWithoutBearer, StoreKeys, ReturnKeys, Decode,
       FetchFails, KeycloakAnswers
  <2>5. CASE Rotate \/ Retire \/ Lapse \/ GatewayRestart \/ UNCHANGED vars
    BY <2>5 DEF Rotate, Retire, Lapse, GatewayRestart, vars
  <2> QED
    BY <2>1, <2>2, <2>3, <2>4, <2>5 DEF Next, Handler, Rest
<1> QED
  BY <1>1, Invariance, PTL DEF Spec, RetiredKeysForgotten
=========================================================================
