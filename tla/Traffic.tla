----------------------------- MODULE Traffic -----------------------------
(* generate-traffic.py: one loop that picks a scenario, makes its calls    *)
(* one after the other with a timeout of 5 s, keeps a token per user and a *)
(* pool of account ids, and seeds that pool anew every two minutes.        *)
(* Time is counted in units that need not be seconds.                      *)
EXTENDS Integers, Sequences

CONSTANTS NumUsers, Traders,  \* users 1..NumUsers; those who may initiate payments
          Timeout,            \* of every HTTP call of the generator
          Margin,             \* tokens closer than this to their expiry are renewed
          Lifetime,           \* expires_in of a token
          ReseedInterval,
          NumSeeds,           \* accounts created at each seeding
          MaxLosses           \* bound: calls that fail and restarts of account-service

ASSUME TrafficAssumption ==
  /\ NumUsers \in Nat \ {0} /\ Traders \subseteq 1..NumUsers
  /\ Timeout \in Nat \ {0} /\ Margin \in Nat /\ Lifetime \in Nat
  /\ 2 * Timeout <= Margin /\ Margin < Lifetime
  /\ ReseedInterval \in Nat /\ NumSeeds \in Nat \ {0} /\ MaxLosses \in Nat

VARIABLES
  stage,      \* between scenarios ("picking") or calls ("next"), or in a request
  todo,       \* the calls ahead of the generator, the one under way first
  bearer,     \* the call under way carries a token
  elapsed,    \* time since the request under way was sent
  left,       \* left[u]: what is left of the life of u's token; 0: no valid one
  believed,   \* believed[u]: what the generator believes is left of it
  pool,       \* _account_ids
  known,      \* those of them that account-service knows
  sinceSeed,  \* time since _last_seed_time
  restarted,  \* history: account-service has restarted since the last seeding began
  losses,
  mix         \* bound: what a behaviour is about. "any" scenario, and no trigger of a
              \* batch job arrives; or "batch" jobs only, and no other call fails

trafficVars == <<stage, todo, bearer, elapsed, left, believed, pool, known, sinceSeed, restarted,
                 losses, mix>>

Users  == 1..NumUsers
NoUser == 0
Ids    == 1..(2 * NumSeeds)  \* an id is free again when nobody holds it any more
Busy   == {"fetching", "calling"}

\* "warm" only gets a token. Account 0 is one of acc-001 to acc-005, which the
\* generator makes up when its pool is empty, or none.
Kinds == {"warm", "create", "health", "balance", "payment", "payment lookup", "account lookup",
          "not found", "unauthorised", "bad payload", "batch job"}
Calls == [kind : Kinds, user : Users \cup {NoUser}, account : {0} \cup Ids]

Call(kind, user, account) == [kind |-> kind, user |-> user, account |-> account]
Plain(kind) == Call(kind, NoUser, 0)

TrafficTypeOK ==
  /\ stage \in {"picking", "next", "done"} \cup Busy
  /\ todo \in Seq(Calls)
  /\ (stage \in {"next"} \cup Busy) <=> (todo # <<>>)
  /\ bearer => stage = "calling"
  /\ stage = "fetching" \/ bearer => Head(todo).user # NoUser
  /\ bearer \in BOOLEAN /\ restarted \in BOOLEAN
  /\ elapsed \in 0..Timeout
  /\ left \in [Users -> 0..Lifetime] /\ believed \in [Users -> 0..Lifetime]
  /\ pool \subseteq Ids /\ known \subseteq pool
  /\ sinceSeed \in 0..ReseedInterval
  /\ losses \in 0..MaxLosses /\ mix \in {"any", "batch"}

\* main gets every user's token first. _last_seed_time is long ago.
TrafficInit ==
  /\ stage = "next"
  /\ todo = [u \in Users |-> Call("warm", u, 0)]
  /\ bearer = FALSE /\ elapsed = 0
  /\ left = [u \in Users |-> 0] /\ believed = [u \in Users |-> 0]
  /\ pool = {} /\ known = {}
  /\ sinceSeed = ReseedInterval
  /\ restarted = FALSE
  /\ losses = 0
  /\ mix \in {"any", "batch"}

\* The call under way is over; a paid payment is looked up after it.
Follow(calls) ==
  /\ todo' = calls \o Tail(todo)
  /\ stage' = IF todo' = <<>> THEN "picking" ELSE "next"
  /\ bearer' = FALSE /\ elapsed' = 0

Lose == mix = "any" /\ losses < MaxLosses /\ losses' = losses + 1

-------------------------------------------------------------------------
(* The loop                                                               *)

\* Mutant: a pool that is not empty is not seeded anew.
SeedAccountsIfNone ==
  /\ stage = "picking" /\ sinceSeed = ReseedInterval
  /\ sinceSeed' = 0
  /\ \/ pool # {} /\ UNCHANGED <<stage, todo, pool, known, restarted>>
     \/ /\ pool = {}
        /\ pool' = {} /\ known' = {} /\ restarted' = FALSE
        /\ todo' = [k \in 1..NumSeeds |-> Plain("create")] /\ stage' = "next"
  /\ UNCHANGED <<bearer, elapsed, left, believed, losses, mix>>

\* Mutant: the ids of the last seeding are kept.
SeedAccountsMore ==
  /\ stage = "picking" /\ sinceSeed = ReseedInterval
  /\ sinceSeed' = 0
  /\ restarted' = FALSE
  /\ todo' = [k \in 1..NumSeeds |-> Plain("create")] /\ stage' = "next"
  /\ UNCHANGED <<bearer, elapsed, left, believed, pool, known, losses, mix>>

\* The pool is cleared before the first of the calls that fill it.
SeedAccounts ==
  /\ stage = "picking" /\ sinceSeed = ReseedInterval
  /\ pool' = {} /\ known' = {}
  /\ sinceSeed' = 0
  /\ restarted' = FALSE
  /\ todo' = [k \in 1..NumSeeds |-> Plain("create")] /\ stage' = "next"
  /\ UNCHANGED <<bearer, elapsed, left, believed, losses, mix>>

SomeAccount == IF pool = {} THEN {0} ELSE pool

\* Calls a scenario makes to the same end appear once.
Scenarios ==
  [kind : {"health", "not found", "unauthorised", "batch job"}, user : {NoUser}, account : {0}]
  \cup [kind : {"bad payload"}, user : Users, account : {0}]
  \cup [kind : {"account lookup"}, user : {NoUser}, account : SomeAccount]
  \cup [kind : {"balance"}, user : Users, account : SomeAccount]
  \cup [kind : {"payment"}, user : Traders, account : SomeAccount]

\* The loop seeds first if it is time to. (--once makes each scenario's calls
\* in turn, without looking at the time again.)
PickScenario ==
  /\ stage = "picking" /\ sinceSeed < ReseedInterval
  /\ \E call \in Scenarios :
       /\ mix = "batch" => call.kind = "batch job"
       /\ todo' = <<call>>
  /\ stage' = "next"
  /\ UNCHANGED <<bearer, elapsed, left, believed, pool, known, sinceSeed, restarted, losses, mix>>

\* --duration is over, or Ctrl-C.
Stop ==
  /\ stage # "done"
  /\ stage' = "done" /\ todo' = <<>> /\ bearer' = FALSE /\ elapsed' = 0
  /\ UNCHANGED <<left, believed, pool, known, sinceSeed, restarted, losses, mix>>

-------------------------------------------------------------------------
(* Tokens                                                                 *)

\* Mutant: a token is used until it expires.
UsableToTheEnd(u) == believed[u] > 0

Usable(u) == believed[u] > Margin

\* auth_header and get_token, and the call if no new token is needed for it.
Begin ==
  /\ stage = "next"
  /\ LET call == Head(todo) IN
     \/ /\ call.user = NoUser
        /\ stage' = "calling" /\ UNCHANGED <<todo, bearer>>
     \/ /\ call.user # NoUser /\ Usable(call.user)
        /\ IF call.kind = "warm" THEN Follow(<<>>)
           ELSE stage' = "calling" /\ bearer' = TRUE /\ UNCHANGED todo
     \/ /\ call.user # NoUser /\ ~Usable(call.user)
        /\ stage' = "fetching" /\ UNCHANGED <<todo, bearer>>
  /\ elapsed' = 0
  /\ UNCHANGED <<left, believed, pool, known, sinceSeed, restarted, losses, mix>>

\* Without a token the call is made without Authorization header.
Fetched(success) ==
  IF Head(todo).kind = "warm" THEN Follow(<<>>)
  ELSE stage' = "calling" /\ bearer' = success /\ elapsed' = 0 /\ UNCHANGED todo

\* Keycloak counts from when it issues the token, the generator from when it
\* has read it.
TokenIssued ==
  /\ stage = "fetching"
  /\ Fetched(TRUE)
  /\ believed' = [believed EXCEPT ![Head(todo).user] = Lifetime]
  /\ \E age \in 0..elapsed : left' = [left EXCEPT ![Head(todo).user] = Lifetime - age]
  /\ UNCHANGED <<pool, known, sinceSeed, restarted, losses, mix>>

TokenRefused ==
  /\ stage = "fetching" /\ Lose
  /\ Fetched(FALSE)
  /\ UNCHANGED <<left, believed, pool, known, sinceSeed, restarted, mix>>

-------------------------------------------------------------------------
(* Calls                                                                  *)

\* 201: seed_accounts appends the new account's id.
AccountCreated ==
  /\ stage = "calling" /\ Head(todo).kind = "create"
  /\ \E id \in Ids \ pool :
       /\ \A other \in Ids \ pool : id <= other
       /\ pool' = pool \cup {id} /\ known' = known \cup {id}
  /\ Follow(<<>>)
  /\ UNCHANGED <<left, believed, sinceSeed, restarted, losses, mix>>

\* 201 from the gateway, if the token is one it takes: the payment is looked up.
PaymentInitiated ==
  /\ stage = "calling" /\ Head(todo).kind = "payment"
  /\ bearer /\ left[Head(todo).user] > 0
  /\ Follow(<<Plain("payment lookup")>>)
  /\ UNCHANGED <<left, believed, pool, known, sinceSeed, restarted, losses, mix>>

\* Any other answer is only logged; the job's when its run has ended.
Answered ==
  /\ stage = "calling" /\ Head(todo).kind # "create"
  /\ ~(Head(todo).kind = "payment" /\ bearer /\ left[Head(todo).user] > 0)
  /\ Follow(<<>>)
  /\ UNCHANGED <<left, believed, pool, known, sinceSeed, restarted, losses, mix>>

\* An error status, no connection, or no answer in time. http returns 0 or the
\* status, and the generator goes on; what was asked for may have been done.
CallFails ==
  /\ stage = "calling" /\ Lose
  /\ Follow(<<>>)
  /\ UNCHANGED <<left, believed, pool, known, sinceSeed, restarted, mix>>

\* A batch job is answered when it has ended, which may well take longer.
GiveUpWaiting ==
  /\ stage = "calling" /\ Head(todo).kind = "batch job" /\ elapsed = Timeout
  /\ Follow(<<>>)
  /\ UNCHANGED <<left, believed, pool, known, sinceSeed, restarted, losses, mix>>

\* The accounts of an in-memory store are gone.
AccountRestart ==
  /\ Lose
  /\ known' = {} /\ restarted' = TRUE
  /\ UNCHANGED <<stage, todo, bearer, elapsed, left, believed, pool, sinceSeed, mix>>

Less(t) == IF t = 0 THEN 0 ELSE t - 1

\* Mutant: urlopen without a timeout.
TickOn ==
  /\ stage # "done"
  /\ elapsed' = IF stage \in Busy THEN elapsed + 1 ELSE elapsed
  /\ left' = [u \in Users |-> Less(left[u])] /\ believed' = [u \in Users |-> Less(believed[u])]
  /\ sinceSeed' = IF sinceSeed < ReseedInterval THEN sinceSeed + 1 ELSE sinceSeed
  /\ UNCHANGED <<stage, todo, bearer, pool, known, restarted, losses, mix>>

\* No request outlives its timeout.
Tick ==
  /\ stage # "done"
  /\ stage \in Busy => elapsed < Timeout
  /\ elapsed' = IF stage \in Busy THEN elapsed + 1 ELSE elapsed
  /\ left' = [u \in Users |-> Less(left[u])] /\ believed' = [u \in Users |-> Less(believed[u])]
  /\ sinceSeed' = IF sinceSeed < ReseedInterval THEN sinceSeed + 1 ELSE sinceSeed
  /\ UNCHANGED <<stage, todo, bearer, pool, known, restarted, losses, mix>>

\* The generator's own steps.
Proceed == SeedAccounts \/ PickScenario \/ Begin
==========================================================================
