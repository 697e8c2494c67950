-------------------------- MODULE WorkloadProofs --------------------------
(* Theorems about the generator and the runs, for any number of users,     *)
(* runs and rows, and any times in the order of those of the script.       *)
EXTENDS Workload, FiniteSetTheorems, SequenceTheorems, TLAPS

-------------------------------------------------------------------------
(* A step changes the generator's state or the runs', hardly ever both     *)

TrafficStep ==
  \/ SeedAccounts \/ PickScenario \/ Begin \/ TokenIssued \/ TokenRefused
  \/ AccountCreated \/ PaymentInitiated \/ Answered \/ CallFails \/ GiveUpWaiting \/ Stop
  \/ AccountRestart \/ Tick \/ UNCHANGED trafficVars

RunsStep ==
  \/ \E r \in Runs : Launch(r) \/ RefuseLaunch(r) \/ RunStep(r)
  \/ UNCHANGED batchVars

LEMMA StepParts == [Next]_vars => TrafficStep /\ RunsStep
BY DEF Next, vars, Trigger, Answer, NoAnswer, Generator, Proceed, BatchStep, Rest, TrafficStep, RunsStep

-------------------------------------------------------------------------
(* Types of the generator's state                                         *)

LEMMA SomeCalls ==
  /\ <<>> \in Seq(Calls)
  /\ \A call \in Calls : <<call>> \in Seq(Calls) /\ <<call>> # <<>>
  /\ \A kind \in Kinds : Plain(kind) \in Calls
  /\ \A kind \in Kinds, u \in Users \cup {NoUser}, a \in {0} \cup Ids : Call(kind, u, a) \in Calls
<1>1. \A call \in Calls : <<call>> \in Seq(Calls) /\ <<call>> # <<>>
  OBVIOUS
<1> QED
  BY <1>1 DEF Calls, Plain, Call, NoUser

\* The parts of TrafficTypeOK: the request, what the generator knows, two flags.
CallTypeOK ==
  /\ stage \in {"picking", "next", "done"} \cup Busy
  /\ todo \in Seq(Calls)
  /\ (stage \in {"next"} \cup Busy) <=> (todo # <<>>)
  /\ bearer => stage = "calling"
  /\ stage = "fetching" \/ bearer => Head(todo).user # NoUser
  /\ elapsed \in 0..Timeout

PoolTypeOK ==
  /\ left \in [Users -> 0..Lifetime] /\ believed \in [Users -> 0..Lifetime]
  /\ pool \subseteq Ids /\ known \subseteq pool
  /\ sinceSeed \in 0..ReseedInterval
  /\ losses \in 0..MaxLosses /\ mix \in {"any", "batch"}

FlagTypeOK == bearer \in BOOLEAN /\ restarted \in BOOLEAN

LEMMA TypeParts == TrafficTypeOK <=> CallTypeOK /\ PoolTypeOK /\ FlagTypeOK
BY DEF TrafficTypeOK, CallTypeOK, PoolTypeOK, FlagTypeOK

LEMMA HeadType ==
  ASSUME CallTypeOK, stage \in {"next"} \cup Busy
  PROVE  /\ Head(todo) \in Calls /\ Tail(todo) \in Seq(Calls)
         /\ Head(todo).user \in Users \cup {NoUser}
<1>1. Head(todo) \in Calls /\ Tail(todo) \in Seq(Calls)
  BY HeadTailProperties DEF CallTypeOK
<1> QED
  BY <1>1 DEF Calls

LEMMA FollowType ==
  ASSUME CallTypeOK, stage \in {"next"} \cup Busy,
         NEW calls \in Seq(Calls), Follow(calls)
  PROVE  CallTypeOK'
<1>1. Tail(todo) \in Seq(Calls)
  BY HeadType
<1>2. todo' \in Seq(Calls)
  BY <1>1, ConcatProperties DEF Follow
<1>3. stage' = (IF todo' = <<>> THEN "picking" ELSE "next") /\ ~bearer'
  BY DEF Follow
<1>4. elapsed' \in 0..Timeout
  <2>1. elapsed' = 0
    BY DEF Follow
  <2>2. Timeout \in Nat
    BY TrafficAssumption
  <2> QED
    BY <2>1, <2>2
<1>5. (stage' \in {"next"} \cup Busy) <=> (todo' # <<>>)
  BY <1>3 DEF Busy
<1>6. stage' \in {"picking", "next", "done"}
  BY <1>3
<1> QED
  BY <1>2, <1>3, <1>4, <1>5, <1>6 DEF CallTypeOK

LEMMA ScenarioType == pool \subseteq Ids => Scenarios \subseteq Calls
<1> SUFFICES ASSUME pool \subseteq Ids PROVE Scenarios \subseteq Calls
  OBVIOUS
<1>1. SomeAccount \subseteq {0} \cup Ids /\ Traders \subseteq Users
  BY TrafficAssumption DEF SomeAccount, Users
<1> QED
  BY <1>1 DEF Scenarios, Calls, Kinds

LEMMA SeedingType ==
  LET calls == [k \in 1..NumSeeds |-> Plain("create")] IN calls \in Seq(Calls) /\ calls # <<>>
<1>1. Plain("create") \in Calls
  BY SomeCalls DEF Kinds
<1>2. NumSeeds \in Nat \ {0}
  BY TrafficAssumption
<1> QED
  BY <1>1, <1>2

LEMMA InitTraffic == TrafficInit => TrafficTypeOK
<1> SUFFICES ASSUME TrafficInit PROVE TrafficTypeOK
  OBVIOUS
<1>1. \A u \in Users : Call("warm", u, 0) \in Calls
  BY SomeCalls DEF Kinds
<1>2. NumUsers \in Nat \ {0}
  BY TrafficAssumption
<1>3. todo \in Seq(Calls) /\ todo # <<>>
  BY <1>1, <1>2 DEF TrafficInit, Users
<1>4. CallTypeOK
  BY <1>3, TrafficAssumption DEF TrafficInit, CallTypeOK, Busy
<1>5. PoolTypeOK
  BY TrafficAssumption DEF TrafficInit, PoolTypeOK
<1> QED
  BY <1>4, <1>5, TypeParts DEF TrafficInit, FlagTypeOK

LEMMA StepCalls == TrafficTypeOK /\ TrafficStep => CallTypeOK'
<1> SUFFICES ASSUME CallTypeOK, PoolTypeOK, TrafficStep PROVE CallTypeOK'
  BY TypeParts
<1> USE TrafficAssumption DEF Busy
<1>1. CASE SeedAccounts
  BY <1>1, SeedingType DEF SeedAccounts, CallTypeOK
<1>2. CASE PickScenario
  <2>1. todo' \in Seq(Calls) /\ todo' # <<>>
    <3>1. PICK call \in Scenarios : todo' = <<call>>
      BY <1>2 DEF PickScenario
    <3>2. call \in Calls
      BY ScenarioType DEF PoolTypeOK
    <3> QED
      BY <3>1, <3>2, SomeCalls
  <2> QED
    BY <1>2, <2>1 DEF PickScenario, CallTypeOK
<1>3. CASE Begin
  <2>1. stage = "next" /\ elapsed' \in 0..Timeout
    BY <1>3, TrafficAssumption DEF Begin
  <2>2. CASE Follow(<<>>)
    BY <2>1, <2>2, FollowType, SomeCalls
  <2>3. CASE UNCHANGED todo /\ stage' = "calling" /\ Head(todo).user # NoUser
    BY <2>1, <2>3 DEF CallTypeOK
  <2>4. CASE UNCHANGED <<todo, bearer>> /\ stage' = "fetching" /\ Head(todo).user # NoUser
    BY <2>1, <2>4 DEF CallTypeOK
  <2>5. CASE Head(todo).user = NoUser
    <3>1. UNCHANGED <<todo, bearer>> /\ stage' = "calling"
      BY Zenon, <1>3, <2>5 DEF Begin
    <3> QED
      BY <2>1, <3>1 DEF CallTypeOK
  <2>6. CASE Head(todo).user # NoUser
    BY Zenon, <1>3, <2>2, <2>3, <2>4, <2>6 DEF Begin
  <2> QED
    BY <2>5, <2>6
<1>4. CASE TokenIssued \/ TokenRefused
  <2>1. CASE Follow(<<>>)
    BY <1>4, <2>1, FollowType, SomeCalls DEF TokenIssued, TokenRefused
  <2>2. CASE stage' = "calling" /\ elapsed' \in 0..Timeout /\ UNCHANGED todo
    BY <1>4, <2>2 DEF TokenIssued, TokenRefused, CallTypeOK
  <2> QED
    BY <1>4, <2>1, <2>2 DEF TokenIssued, TokenRefused, Fetched
<1>5. CASE AccountCreated \/ PaymentInitiated \/ Answered \/ CallFails \/ GiveUpWaiting
  <2>1. <<>> \in Seq(Calls) /\ <<Plain("payment lookup")>> \in Seq(Calls)
    BY SomeCalls DEF Kinds
  <2> QED
    BY <1>5, <2>1, FollowType DEF AccountCreated, PaymentInitiated, Answered, CallFails, GiveUpWaiting, Busy
<1>6. CASE Stop
  BY <1>6, SomeCalls DEF Stop, CallTypeOK
<1>7. CASE AccountRestart \/ UNCHANGED trafficVars
  BY <1>7 DEF AccountRestart, trafficVars, CallTypeOK
<1>8. CASE Tick
  BY <1>8 DEF Tick, CallTypeOK
<1> QED
  BY <1>1, <1>2, <1>3, <1>4, <1>5, <1>6, <1>7, <1>8 DEF TrafficStep

LEMMA StepPool == TrafficTypeOK /\ TrafficStep => PoolTypeOK'
<1> SUFFICES ASSUME CallTypeOK, PoolTypeOK, TrafficStep PROVE PoolTypeOK'
  BY TypeParts
<1> USE TrafficAssumption
<1>1. CASE SeedAccounts
  BY <1>1 DEF SeedAccounts, PoolTypeOK
<1>2. CASE TokenIssued
  <2>1. /\ left' \in [Users -> 0..Lifetime] /\ believed' \in [Users -> 0..Lifetime]
    <3>1. PICK age \in 0..elapsed : left' = [left EXCEPT ![Head(todo).user] = Lifetime - age]
      BY <1>2 DEF TokenIssued
    <3>2. Lifetime - age \in 0..Lifetime /\ Lifetime \in 0..Lifetime
      BY <3>1 DEF CallTypeOK
    <3> QED
      BY <1>2, <3>1, <3>2 DEF TokenIssued, PoolTypeOK
  <2> QED
    BY <1>2, <2>1 DEF TokenIssued, PoolTypeOK
<1>3. CASE TokenRefused \/ CallFails \/ AccountRestart
  <2>1. losses' \in 0..MaxLosses
    <3>1. losses < MaxLosses /\ losses' = losses + 1
      BY Zenon, <1>3 DEF TokenRefused, CallFails, AccountRestart, Lose
    <3>2. losses \in 0..MaxLosses
      BY DEF PoolTypeOK
    <3> QED
      BY <3>1, <3>2
  <2>2. UNCHANGED <<left, believed, pool, sinceSeed, mix>> /\ known' \subseteq pool
    BY <1>3 DEF TokenRefused, CallFails, AccountRestart, PoolTypeOK
  <2> QED
    BY <2>1, <2>2 DEF PoolTypeOK
<1>4. CASE AccountCreated
  BY <1>4 DEF AccountCreated, PoolTypeOK
<1>5. CASE Tick
  <2>1. \A t \in 0..Lifetime : Less(t) \in 0..Lifetime
    BY DEF Less
  <2>2. sinceSeed' \in 0..ReseedInterval
    BY <1>5 DEF Tick, PoolTypeOK
  <2>3. left' \in [Users -> 0..Lifetime] /\ believed' \in [Users -> 0..Lifetime]
    BY <1>5, <2>1 DEF Tick, PoolTypeOK
  <2> QED
    BY <1>5, <2>2, <2>3 DEF Tick, PoolTypeOK
<1>6. CASE \/ PickScenario \/ Begin \/ PaymentInitiated \/ Answered \/ GiveUpWaiting \/ Stop
           \/ UNCHANGED trafficVars
  BY <1>6 DEF PickScenario, Begin, PaymentInitiated, Answered, GiveUpWaiting, Stop, trafficVars,
              PoolTypeOK
<1> QED
  BY <1>1, <1>2, <1>3, <1>4, <1>5, <1>6 DEF TrafficStep

LEMMA StepFlags == FlagTypeOK /\ TrafficStep => FlagTypeOK'
BY Zenon DEF FlagTypeOK, TrafficStep, SeedAccounts, PickScenario, Begin, Follow, TokenIssued,
   TokenRefused, Fetched, AccountCreated, PaymentInitiated, Answered, CallFails, GiveUpWaiting, Stop,
   AccountRestart, Tick, trafficVars

LEMMA StepTraffic == TrafficTypeOK /\ TrafficStep => TrafficTypeOK'
<1>1. TrafficTypeOK' <=> CallTypeOK' /\ PoolTypeOK' /\ FlagTypeOK'
  BY DEF TrafficTypeOK, CallTypeOK, PoolTypeOK, FlagTypeOK
<1> QED
  BY <1>1, TypeParts, StepCalls, StepPool, StepFlags
-------------------------------------------------------------------------
(* Tokens and account ids                                                 *)

\* The generator is at most one timeout ahead of the identity provider, and a
\* call under way has no more time left than its token.
TokenInv ==
  /\ \A u \in Users : believed[u] <= left[u] + Timeout
  /\ bearer => left[Head(todo).user] + elapsed > Timeout

LEMMA InitTokens == TrafficInit => TokenInv /\ StaleOnlyAfterRestart
<1> SUFFICES ASSUME TrafficInit PROVE TokenInv /\ StaleOnlyAfterRestart
  OBVIOUS
<1>1. \A u \in Users : believed[u] <= left[u] + Timeout
  <2>1. \A u \in Users : believed[u] = 0 /\ left[u] = 0
    BY DEF TrafficInit
  <2>2. Timeout \in Nat
    BY TrafficAssumption
  <2> QED
    BY <2>1, <2>2
<1> QED
  BY <1>1 DEF TrafficInit, TokenInv, StaleOnlyAfterRestart

LEMMA StepTokens == TrafficTypeOK /\ TokenInv /\ TrafficStep => TokenInv'
<1> SUFFICES ASSUME CallTypeOK, PoolTypeOK, TokenInv, TrafficStep PROVE TokenInv'
  BY TypeParts
<1>0. Timeout \in Nat \ {0} /\ Lifetime \in Nat /\ Margin \in Nat /\ 2 * Timeout <= Margin /\ Margin < Lifetime
  BY TrafficAssumption
<1>1. CASE /\ UNCHANGED <<left, believed>>
           /\ ~bearer' \/ UNCHANGED <<todo, bearer, elapsed>>
  BY <1>1 DEF TokenInv
<1>2. CASE SeedAccounts \/ PickScenario \/ AccountRestart \/ UNCHANGED trafficVars
  <2>1. bearer' => UNCHANGED <<todo, bearer, elapsed>>
    BY <1>2 DEF SeedAccounts, PickScenario, AccountRestart, trafficVars, CallTypeOK
  <2>2. UNCHANGED <<left, believed>>
    BY <1>2 DEF SeedAccounts, PickScenario, AccountRestart, trafficVars
  <2> QED
    BY <1>1, <2>1, <2>2
<1>3. CASE \/ TokenRefused \/ AccountCreated \/ PaymentInitiated \/ Answered \/ CallFails
           \/ GiveUpWaiting \/ Stop
  <2>1. ~bearer'
    BY Zenon, <1>3 DEF TokenRefused, Fetched, AccountCreated, PaymentInitiated, Answered, CallFails,
                       GiveUpWaiting, Stop, Follow
  <2>2. UNCHANGED <<left, believed>>
    BY <1>3 DEF TokenRefused, AccountCreated, PaymentInitiated, Answered, CallFails, GiveUpWaiting, Stop
  <2> QED
    BY <1>1, <2>1, <2>2
<1>4. CASE Begin
  <2>1. UNCHANGED <<left, believed>> /\ stage = "next"
    BY <1>4 DEF Begin
  <2>2. ~bearer
    BY <2>1 DEF CallTypeOK
  <2>3. CASE ~bearer'
    BY <1>1, <2>1, <2>3
  <2>4. CASE bearer'
    <3>1. /\ Head(todo).user # NoUser /\ Usable(Head(todo).user)
          /\ todo' = todo /\ elapsed' = 0
      BY Zenon, <1>4, <2>2, <2>4 DEF Begin, Follow
    <3>2. Head(todo).user \in Users
      BY <2>1, <3>1, HeadType
    <3>3. left[Head(todo).user] > Timeout
      BY <1>0, <3>1, <3>2 DEF Usable, TokenInv, PoolTypeOK
    <3> QED
      BY <1>0, <2>1, <3>1, <3>2, <3>3 DEF TokenInv, PoolTypeOK
  <2> QED
    BY <2>3, <2>4
<1>5. CASE TokenIssued
  <2> DEFINE user == Head(todo).user
  <2>1. PICK age \in 0..elapsed : left' = [left EXCEPT ![user] = Lifetime - age]
    BY <1>5 DEF TokenIssued
  <2>2. believed' = [believed EXCEPT ![user] = Lifetime] /\ stage = "fetching"
    BY <1>5 DEF TokenIssued
  <2>3. user \in Users
    BY <2>2, HeadType DEF CallTypeOK, Busy
  <2>4. Lifetime - age > Timeout /\ Lifetime <= Lifetime - age + Timeout
    BY <1>0, <2>1 DEF CallTypeOK
  <2>5. \A u \in Users : believed'[u] <= left'[u] + Timeout
    BY <1>0, <2>1, <2>2, <2>4 DEF TokenInv, PoolTypeOK
  <2>6. bearer' => todo' = todo /\ elapsed' = 0
    BY Zenon, <1>5 DEF TokenIssued, Fetched, Follow
  <2>7. left'[user] + 0 > Timeout
    BY <1>0, <2>1, <2>3, <2>4 DEF PoolTypeOK
  <2> QED
    BY <2>5, <2>6, <2>7 DEF TokenInv
<1>6. CASE Tick
  <2>1. \A u \in Users : left'[u] = Less(left[u]) /\ believed'[u] = Less(believed[u])
    BY <1>6 DEF Tick
  <2>2. \A u \in Users : left[u] \in Nat /\ believed[u] \in Nat
    BY <1>0 DEF PoolTypeOK
  <2>3. \A u \in Users : believed'[u] <= left'[u] + Timeout
    BY <1>0, <2>1, <2>2 DEF Less, TokenInv
  <2>4. ASSUME bearer' PROVE left'[Head(todo').user] + elapsed' > Timeout
    <3>1. bearer /\ todo' = todo
      BY <1>6, <2>4 DEF Tick
    <3>2. stage = "calling" /\ Head(todo).user \in Users
      BY <3>1, HeadType DEF CallTypeOK, Busy
    <3>3. elapsed < Timeout /\ elapsed' = elapsed + 1
      BY <1>6, <3>2 DEF Tick, Busy
    <3>4. elapsed \in Nat /\ left[Head(todo).user] + elapsed > Timeout
      BY <1>0, <3>1 DEF CallTypeOK, TokenInv
    <3> QED
      BY <1>0, <2>1, <2>2, <3>1, <3>2, <3>3, <3>4 DEF Less
  <2> QED
    BY <2>3, <2>4 DEF TokenInv
<1> QED
  BY <1>2, <1>3, <1>4, <1>5, <1>6 DEF TrafficStep

LEMMA TokensSuffice == TrafficTypeOK /\ TokenInv => TokenOutlivesCall
<1> SUFFICES ASSUME CallTypeOK, PoolTypeOK, TokenInv, stage = "calling", bearer
             PROVE  left[Head(todo).user] > 0
  BY TypeParts DEF TokenOutlivesCall
<1>1. Timeout \in Nat /\ Lifetime \in Nat
  BY TrafficAssumption
<1>2. Head(todo).user \in Users
  BY HeadType DEF CallTypeOK, Busy
<1> QED
  BY <1>1, <1>2 DEF TokenInv, CallTypeOK, PoolTypeOK

LEMMA StepPoolIds ==
  TrafficTypeOK /\ StaleOnlyAfterRestart /\ TrafficStep => StaleOnlyAfterRestart'
BY Zenon DEF TrafficTypeOK, StaleOnlyAfterRestart, TrafficStep, SeedAccounts, PickScenario, Begin,
   TokenIssued, TokenRefused, AccountCreated, PaymentInitiated, Answered, CallFails, GiveUpWaiting,
   Stop, AccountRestart, Tick, trafficVars
-------------------------------------------------------------------------
(* Types of the runs' state                                               *)

\* Room for one more row before it is read, and nothing read before the cursor
\* is open.
ChunkInv ==
  \A r \in Runs :
    /\ run[r] \in {"reading", "counted", "advanced"} => Len(chunk[r]) < ChunkSize
    /\ run[r] \in {"idle", "launched", "opening"} => chunk[r] = <<>> /\ written[r] = {}

BatchInv == BatchTypeOK /\ ChunkInv

\* The query returns finitely many rows.
LEMMA NumRowsType == NumRows \in Nat
<1>1. IsFiniteSet(Selected)
  BY BatchAssumption, FS_Subset DEF Selected
<1> QED
  BY <1>1, FS_CardinalityType DEF NumRows

LEMMA InitBatch == BatchInit => BatchInv
<1> SUFFICES ASSUME BatchInit PROVE BatchInv
  OBVIOUS
<1>1. NumRows \in Nat /\ ChunkSize \in Nat \ {0}
  BY BatchAssumption, NumRowsType
<1>2. <<>> \in Seq(Rows) /\ Len(<<>>) = 0
  OBVIOUS
<1>3. \A r \in Runs : run[r] = "idle" /\ chunk[r] = <<>> /\ written[r] = {}
  BY DEF BatchInit
<1>4. initialized \in BOOLEAN
  BY DEF BatchInit
<1>5. cursor \in -1..NumRows /\ count \in Nat
  BY <1>1 DEF BatchInit
<1>6. /\ run \in [Runs -> {"idle"} \cup Active \cup Ended]
      /\ chunk \in [Runs -> Seq(Rows)]
      /\ written \in [Runs -> SUBSET Rows]
      /\ sharing \subseteq Runs /\ overlapped \subseteq Runs /\ broken \subseteq Runs
  BY <1>2 DEF BatchInit
<1>7. \A r \in Runs : Len(chunk[r]) <= ChunkSize
  BY <1>1, <1>2, <1>3
<1> QED
  BY <1>3, <1>4, <1>5, <1>6, <1>7 DEF BatchInv, BatchTypeOK, ChunkInv

LEMMA ReaderType == BatchTypeOK /\ RunsStep => (initialized \in BOOLEAN)'
BY Zenon DEF BatchTypeOK, RunsStep, Launch, RefuseLaunch, RunStep, OpenReader, OpenCursor, CountItem,
   Advance, TakeRow, Commit, DatabaseFails, Close, batchVars, readerVars

RunMoves(r) == Launch(r) \/ RefuseLaunch(r) \/ RunStep(r)

\* What a step of one run leaves alone.
LEMMA OthersStay ==
  ASSUME BatchTypeOK, NEW r \in Runs, RunMoves(r)
  PROVE  /\ run' \in [Runs -> {"idle"} \cup Active \cup Ended]
         /\ \A q \in Runs \ {r} :
              run'[q] = run[q] /\ chunk'[q] = chunk[q] /\ written'[q] = written[q]
<1> USE DEF BatchTypeOK, Active, Ended, Reading, Goto
<1>1. CASE Launch(r) \/ RefuseLaunch(r)
  BY <1>1 DEF Launch, RefuseLaunch
<1>2. CASE OpenReader(r)
  BY <1>2 DEF OpenReader
<1>3. CASE OpenCursor(r) \/ CountItem(r)
  BY <1>3 DEF OpenCursor, CountItem
<1>4. CASE Advance(r)
  BY <1>4 DEF Advance
<1>5. CASE TakeRow(r)
  BY <1>5 DEF TakeRow
<1>6. CASE Commit(r)
  BY <1>6 DEF Commit
<1>7. CASE DatabaseFails(r) \/ Close(r)
  BY <1>7 DEF DatabaseFails, Close
<1> QED
  BY <1>1, <1>2, <1>3, <1>4, <1>5, <1>6, <1>7 DEF RunMoves, RunStep

\* Where a step of a run that neither takes a row nor commits leads.
LEMMA WhereTo ==
  ASSUME BatchTypeOK, NEW r \in Runs, RunMoves(r)
  PROVE  /\ run'[r] \in {"idle", "launched", "opening"}
              => run[r] \in {"idle", "launched"} /\ UNCHANGED <<chunk, written>>
         /\ run'[r] \in {"reading", "counted", "advanced"}
              => \/ run[r] \in {"opening", "reading", "counted"} /\ UNCHANGED chunk
                 \/ run[r] = "advanced" /\ TakeRow(r)
                 \/ run[r] \in {"committing", "last"} /\ Commit(r)
<1> USE DEF BatchTypeOK, Goto
<1>1. CASE Launch(r) \/ RefuseLaunch(r)
  BY <1>1 DEF Launch, RefuseLaunch
<1>2. CASE OpenReader(r)
  BY <1>2 DEF OpenReader
<1>3. CASE OpenCursor(r) \/ CountItem(r)
  BY <1>3 DEF OpenCursor, CountItem
<1>4. CASE Advance(r)
  BY <1>4 DEF Advance
<1>5. CASE TakeRow(r)
  BY <1>5 DEF TakeRow
<1>6. CASE Commit(r)
  BY <1>6 DEF Commit
<1>7. CASE DatabaseFails(r) \/ Close(r)
  BY <1>7 DEF DatabaseFails, Close
<1> QED
  BY <1>1, <1>2, <1>3, <1>4, <1>5, <1>6, <1>7 DEF RunMoves, RunStep

LEMMA StepBatch == BatchInv /\ RunsStep => BatchInv'
<1> SUFFICES ASSUME BatchInv, RunsStep PROVE BatchInv'
  OBVIOUS
<1> USE DEF BatchInv
<1>1. CASE UNCHANGED batchVars
  BY <1>1 DEF batchVars, readerVars, BatchTypeOK, ChunkInv
<1>2. ASSUME NEW r \in Runs, RunMoves(r) PROVE BatchInv'
  <2>0. NumRows \in Nat /\ ChunkSize \in Nat \ {0}
    BY BatchAssumption, NumRowsType
  <2>1. (initialized \in BOOLEAN)'
    BY ReaderType
  <2>2. sharing' \subseteq Runs /\ overlapped' \subseteq Runs /\ broken' \subseteq Runs
    BY Zenon, <1>2 DEF RunMoves, BatchTypeOK, Launch, RefuseLaunch, RunStep, OpenReader, OpenCursor,
       CountItem, Advance, TakeRow, Commit, DatabaseFails, Close, In
  <2>3. cursor' \in -1..NumRows /\ count' \in Nat
    BY <1>2, <2>0 DEF RunMoves, BatchTypeOK, Launch, RefuseLaunch, RunStep, OpenReader, OpenCursor,
       CountItem, Advance, TakeRow, Commit, DatabaseFails, Close, readerVars
  <2>4. /\ chunk' \in [Runs -> Seq(Rows)]
        /\ \A q \in Runs : Len(chunk'[q]) <= ChunkSize
        /\ run'[r] \in {"reading", "counted", "advanced"} => Len(chunk'[r]) < ChunkSize
        /\ run'[r] \in {"idle", "launched", "opening"} => chunk'[r] = <<>>
    <3>1. CASE UNCHANGED chunk /\ ~TakeRow(r) /\ ~Commit(r)
      BY <1>2, <2>0, <3>1, WhereTo DEF BatchTypeOK, ChunkInv
    <3>2. CASE chunk' = [chunk EXCEPT ![r] = <<>>]
      BY <2>0, <3>2 DEF BatchTypeOK
    <3>3. CASE TakeRow(r) /\ cursor = count /\ cursor \in Rows
      <4>1. run[r] = "advanced" /\ chunk' = [chunk EXCEPT ![r] = Append(@, cursor)]
        BY <3>3 DEF TakeRow
      <4>2. chunk[r] \in Seq(Rows) /\ Len(chunk[r]) < ChunkSize
        BY <4>1 DEF BatchTypeOK, ChunkInv
      <4>3. Append(chunk[r], cursor) \in Seq(Rows) /\ Len(Append(chunk[r], cursor)) = Len(chunk[r]) + 1
        BY <3>3, <4>2, AppendProperties
      <4> QED
        BY <2>0, <3>3, <4>1, <4>2, <4>3 DEF BatchTypeOK, TakeRow, Goto
    <3>4. CASE TakeRow(r) /\ ~(cursor = count /\ cursor \in Rows)
      BY <2>0, <3>4 DEF TakeRow, Goto, BatchTypeOK
    <3> QED
      BY Zenon, <1>2, <3>1, <3>2, <3>3, <3>4 DEF RunMoves, Launch, RefuseLaunch, RunStep, OpenReader,
         OpenCursor, CountItem, Advance, Commit, DatabaseFails, Close
  <2>5. /\ written' \in [Runs -> SUBSET Rows]
        /\ run'[r] \in {"idle", "launched", "opening"} => written'[r] = {}
    <3>1. CASE UNCHANGED written
      BY <1>2, <3>1, WhereTo DEF BatchTypeOK, ChunkInv
    <3>2. CASE Commit(r)
      <4>1. {chunk[r][i] : i \in DOMAIN chunk[r]} \subseteq Rows
        BY DEF BatchTypeOK
      <4>2. written' \in [Runs -> SUBSET Rows]
        BY <3>2, <4>1 DEF Commit, BatchTypeOK
      <4>3. run'[r] \in {"closing", "reading"}
        BY <3>2 DEF Commit, Goto, BatchTypeOK
      <4> QED
        BY <4>2, <4>3
    <3> QED
      BY Zenon, <1>2, <3>1, <3>2 DEF RunMoves, Launch, RefuseLaunch, RunStep, OpenReader,
         OpenCursor, CountItem, Advance, TakeRow, DatabaseFails, Close
  <2> QED
    BY <1>2, <2>1, <2>2, <2>3, <2>4, <2>5, OthersStay DEF BatchTypeOK, ChunkInv
<1> QED
  BY <1>1, <1>2 DEF RunsStep, RunMoves
-------------------------------------------------------------------------
(* The runs' outcome                                                      *)

\* Of two runs that read at the same time, both share a reader.
SharingInv ==
  \A r, q \in Runs :
    r # q /\ run[r] \in Reading /\ run[q] \in Reading => r \in sharing

LEMMA StepSharing == BatchInv /\ SharingInv /\ RunsStep => SharingInv'
<1> SUFFICES ASSUME BatchTypeOK, SharingInv, RunsStep PROVE SharingInv'
  BY DEF BatchInv
<1>1. CASE UNCHANGED batchVars
  BY <1>1 DEF batchVars, SharingInv
<1>2. ASSUME NEW r \in Runs, RunMoves(r) PROVE SharingInv'
  <2>1. CASE OpenCursor(r)
    <3>1. sharing' = IF In(Reading) = {} THEN sharing ELSE sharing \cup In(Reading) \cup {r}
      BY <2>1 DEF OpenCursor
    <3>2. ASSUME NEW q \in Runs, NEW p \in Runs, q # p, run'[q] \in Reading, run'[p] \in Reading
          PROVE  q \in sharing'
      BY <1>2, <3>1, <3>2, OthersStay DEF In, SharingInv
    <3> QED
      BY <3>2 DEF SharingInv
  <2>2. CASE ~OpenCursor(r)
    <3>1. UNCHANGED sharing
      BY Zenon, <1>2, <2>2 DEF RunMoves, Launch, RefuseLaunch, RunStep, OpenReader, CountItem, Advance,
         TakeRow, Commit, DatabaseFails, Close
    <3>2. run'[r] \in Reading => run[r] \in Reading
      BY <1>2, <2>2 DEF RunMoves, BatchTypeOK, Goto, Reading, Launch, RefuseLaunch, RunStep, OpenReader,
         CountItem, Advance, TakeRow, Commit, DatabaseFails, Close
    <3> QED
      BY <1>2, <3>1, <3>2, OthersStay DEF SharingInv
  <2> QED
    BY <2>1, <2>2
<1> QED
  BY <1>1, <1>2 DEF RunsStep, RunMoves

\* What a run has read, committed or not.
Taken(r) == written[r] \cup {chunk[r][i] : i \in DOMAIN chunk[r]}

\* A run that shares its reader with none has read the rows up to the cursor.
ReadsInOrder(r) ==
  /\ run[r] \in {"reading", "counted", "committing"} /\ cursor # -1 => Taken(r) = 1..cursor
  /\ run[r] = "advanced" /\ cursor # -1 => cursor >= 1 /\ Taken(r) = 1..(cursor - 1)
  /\ run[r] = "last" => Taken(r) = Rows
  /\ run[r] \in {"closing", "completed"} => written[r] = Rows

ReadInv == \A r \in Runs \ sharing : ReadsInOrder(r)

LEMMA OwnRead ==
  ASSUME BatchInv, SharingInv, ReadInv, NEW r \in Runs, RunMoves(r), r \notin sharing'
  PROVE  ReadsInOrder(r)'
<1>0. NumRows \in Nat /\ cursor \in -1..NumRows /\ run \in [Runs -> {"idle"} \cup Active \cup Ended]
  BY NumRowsType DEF BatchInv, BatchTypeOK
<1>1. ReadsInOrder(r)
  <2>1. sharing \subseteq sharing'
    BY Zenon DEF RunMoves, Launch, RefuseLaunch, RunStep, OpenReader, OpenCursor, CountItem, Advance,
       TakeRow, Commit, DatabaseFails, Close
  <2> QED
    BY <2>1 DEF ReadInv
<1>2. CASE Launch(r) \/ RefuseLaunch(r) \/ OpenReader(r)
  BY <1>0, <1>2 DEF ReadsInOrder, Launch, RefuseLaunch, OpenReader, Goto
<1>3. CASE OpenCursor(r)
  <2>1. written[r] = {} /\ chunk[r] = <<>>
    BY <1>3 DEF OpenCursor, BatchInv, ChunkInv
  <2>2. Taken(r)' = {}
    BY <1>3, <2>1 DEF OpenCursor, Taken
  <2> QED
    BY <1>0, <1>3, <2>2 DEF OpenCursor, ReadsInOrder, Goto
<1>4. CASE CountItem(r)
  <2>1. Taken(r)' = Taken(r)
    BY <1>4 DEF CountItem, Taken
  <2> QED
    BY <1>0, <1>1, <1>4, <2>1 DEF CountItem, ReadsInOrder, Goto
<1>5. CASE Advance(r)
  <2>1. Taken(r)' = Taken(r)
    BY <1>5 DEF Advance, Taken
  <2> QED
    BY <1>0, <1>1, <1>5, <2>1 DEF Advance, ReadsInOrder, Goto, Rows
<1>6. CASE TakeRow(r)
  <2>1. CASE cursor # count \/ cursor \notin Rows
    BY <1>0, <1>6, <2>1 DEF TakeRow, ReadsInOrder, Goto
  <2>2. CASE cursor = count /\ cursor \in Rows
    <3>1. chunk'[r] = Append(chunk[r], cursor) /\ UNCHANGED <<written, cursor>>
      BY <1>6, <2>2 DEF TakeRow, BatchInv, BatchTypeOK, readerVars
    <3>2. chunk[r] \in Seq(Rows)
      BY DEF BatchInv, BatchTypeOK
    <3>3. Taken(r)' = Taken(r) \cup {cursor}
      BY <3>1, <3>2 DEF Taken
    <3>4. Taken(r) = 1..(cursor - 1)
      BY <1>1, <1>6, <2>2 DEF TakeRow, ReadsInOrder, Rows
    <3>5. Taken(r)' = 1..cursor
      BY <1>0, <2>2, <3>3, <3>4 DEF Rows
    <3>6. run'[r] \in {"reading", "committing"}
      BY <1>0, <1>6, <2>2 DEF TakeRow, Goto
    <3> QED
      BY <3>1, <3>5, <3>6 DEF ReadsInOrder
  <2> QED
    BY <2>1, <2>2
<1>7. CASE Commit(r)
  <2>1. written'[r] = Taken(r) /\ chunk'[r] = <<>> /\ cursor' = cursor
    BY <1>7 DEF Commit, Taken, BatchInv, BatchTypeOK, readerVars
  <2>2. Taken(r)' = Taken(r)
    BY <2>1 DEF Taken
  <2> QED
    BY <1>0, <1>1, <1>7, <2>1, <2>2 DEF Commit, ReadsInOrder, Goto
<1>8. CASE DatabaseFails(r)
  BY <1>0, <1>8 DEF DatabaseFails, ReadsInOrder, Goto
<1>9. CASE Close(r)
  BY <1>0, <1>1, <1>9 DEF Close, ReadsInOrder, Goto
<1> QED
  BY <1>2, <1>3, <1>4, <1>5, <1>6, <1>7, <1>8, <1>9 DEF RunMoves, RunStep

LEMMA StepRead == BatchInv /\ SharingInv /\ ReadInv /\ RunsStep => ReadInv'
<1> SUFFICES ASSUME BatchInv, SharingInv, ReadInv, RunsStep PROVE ReadInv'
  OBVIOUS
<1>1. CASE UNCHANGED batchVars
  BY <1>1 DEF batchVars, readerVars, ReadInv, ReadsInOrder, Taken
<1>2. ASSUME NEW q \in Runs, RunMoves(q) PROVE ReadInv'
  <2>1. SUFFICES ASSUME NEW r \in Runs, r \notin sharing', r # q PROVE ReadsInOrder(r)'
    BY <1>2, OwnRead DEF ReadInv
  <2>2. r \notin sharing
    BY Zenon, <1>2, <2>1 DEF RunMoves, Launch, RefuseLaunch, RunStep, OpenReader, OpenCursor, CountItem,
       Advance, TakeRow, Commit, DatabaseFails, Close
  <2>3. run'[r] = run[r] /\ Taken(r)' = Taken(r) /\ written'[r] = written[r]
    BY <1>2, <2>1, OthersStay DEF BatchInv, Taken
  <2>4. run[r] \in Reading => cursor' \in {cursor, -1}
    <3> SUFFICES ASSUME run[r] \in Reading PROVE cursor' \in {cursor, -1}
      OBVIOUS
    <3>1. ~OpenCursor(q)
      BY <2>1 DEF OpenCursor, In
    <3>2. ~Advance(q)
      BY <2>1, <2>2 DEF Advance, SharingInv, Reading
    <3> QED
      BY <1>2, <3>1, <3>2 DEF RunMoves, Launch, RefuseLaunch, RunStep, OpenReader, CountItem, TakeRow,
         Commit, DatabaseFails, Close, readerVars
  <2> QED
    BY <2>1, <2>2, <2>3, <2>4 DEF ReadInv, ReadsInOrder, Reading
<1> QED
  BY <1>1, <1>2 DEF RunsStep, RunMoves

\* Unless runs overlap, an active run is alone, the reader is as new whenever
\* none is active, and the count follows the cursor of a healthy run.
AloneInv ==
  \A r, q \in Runs : run[r] \in Active /\ run[q] \in Active /\ r # q => r \in overlapped

Fresh == ~initialized /\ cursor = -1 /\ count = 0

CleanInv == In(Active) = {} => Fresh

Healthy(r) ==
  /\ run[r] \in {"launched", "opening"} => Fresh
  /\ run[r] \in {"reading", "committing"} => cursor = count /\ cursor >= 0
  /\ run[r] = "counted" => cursor >= 0 /\ count = cursor + 1
  /\ run[r] = "advanced" => cursor = count /\ cursor \in Rows
  /\ run[r] \notin {"failing", "failed"}

HealthInv == \A r \in Runs \ (overlapped \cup broken) : Healthy(r)

LEMMA StepAlone == BatchInv /\ AloneInv /\ RunsStep => AloneInv'
<1> SUFFICES ASSUME BatchTypeOK, AloneInv, RunsStep PROVE AloneInv'
  BY DEF BatchInv
<1>1. CASE UNCHANGED batchVars
  BY <1>1 DEF batchVars, AloneInv
<1>2. ASSUME NEW r \in Runs, RunMoves(r) PROVE AloneInv'
  <2>1. CASE Launch(r)
    <3>1. overlapped' = IF In(Active) = {} THEN overlapped ELSE overlapped \cup In(Active) \cup {r}
      BY <2>1 DEF Launch
    <3>2. ASSUME NEW q \in Runs, NEW p \in Runs, q # p, run'[q] \in Active, run'[p] \in Active
          PROVE  q \in overlapped'
      BY <1>2, <3>1, <3>2, OthersStay DEF In, AloneInv
    <3> QED
      BY <3>2 DEF AloneInv
  <2>2. CASE ~Launch(r)
    <3>1. UNCHANGED overlapped
      BY Zenon, <1>2, <2>2 DEF RunMoves, RefuseLaunch, RunStep, OpenReader, OpenCursor, CountItem,
         Advance, TakeRow, Commit, DatabaseFails, Close
    <3>2. run'[r] \in Active => run[r] \in Active
      BY <1>2, <2>2 DEF RunMoves, BatchTypeOK, Goto, Active, Reading, RefuseLaunch, RunStep, OpenReader,
         OpenCursor, CountItem, Advance, TakeRow, Commit, DatabaseFails, Close
    <3> QED
      BY <1>2, <3>1, <3>2, OthersStay DEF AloneInv
  <2> QED
    BY <2>1, <2>2
<1> QED
  BY <1>1, <1>2 DEF RunsStep, RunMoves

LEMMA StepClean == BatchInv /\ CleanInv /\ RunsStep => CleanInv'
<1> SUFFICES ASSUME BatchTypeOK, CleanInv, RunsStep PROVE CleanInv'
  BY DEF BatchInv
<1>1. CASE UNCHANGED batchVars
  BY <1>1 DEF batchVars, readerVars, CleanInv, In, Fresh
<1>2. ASSUME NEW r \in Runs, RunMoves(r) PROVE CleanInv'
  <2>1. CASE Close(r)
    BY <2>1 DEF Close, CleanInv, Fresh
  <2>2. CASE RefuseLaunch(r)
    <3>1. run[r] \notin Active
      BY <2>2 DEF RefuseLaunch, Active, Reading
    <3>2. In(Active)' = {} => In(Active) = {}
      BY <1>2, <3>1, OthersStay DEF In
    <3> QED
      BY <2>2, <3>2 DEF RefuseLaunch, CleanInv, Fresh, readerVars
  <2>3. CASE ~Close(r) /\ ~RefuseLaunch(r)
    <3>1. run'[r] \in Active
      BY <1>2, <2>3 DEF RunMoves, BatchTypeOK, Goto, Active, Reading, Launch, RunStep, OpenReader,
         OpenCursor, CountItem, Advance, TakeRow, Commit, DatabaseFails
    <3> QED
      BY <3>1 DEF CleanInv, In
  <2> QED
    BY <2>1, <2>2, <2>3
<1> QED
  BY <1>1, <1>2 DEF RunsStep, RunMoves

LEMMA OwnHealth ==
  ASSUME BatchInv, CleanInv, HealthInv, NEW r \in Runs, RunMoves(r), r \notin (overlapped \cup broken)'
  PROVE  Healthy(r)'
<1>0. NumRows \in Nat /\ cursor \in -1..NumRows /\ run \in [Runs -> {"idle"} \cup Active \cup Ended]
  BY NumRowsType DEF BatchInv, BatchTypeOK
<1>1. Healthy(r)
  <2>1. overlapped \subseteq overlapped' /\ broken \subseteq broken'
    BY Zenon DEF RunMoves, Launch, RefuseLaunch, RunStep, OpenReader, OpenCursor, CountItem, Advance,
       TakeRow, Commit, DatabaseFails, Close
  <2> QED
    BY <2>1 DEF HealthInv
<1>2. CASE Launch(r)
  <2>1. In(Active) = {}
    BY <1>2 DEF Launch
  <2>2. Fresh
    BY <2>1 DEF CleanInv
  <2>3. Fresh' /\ run'[r] = "launched"
    BY <1>0, <1>2, <2>2 DEF Launch, Fresh, readerVars, Goto
  <2> QED
    BY <2>3 DEF Healthy
<1>3. CASE RefuseLaunch(r)
  BY <1>0, <1>3 DEF RefuseLaunch, Healthy, Goto
<1>4. CASE OpenReader(r)
  <2>1. Fresh
    BY <1>1, <1>4 DEF OpenReader, Healthy
  <2>2. Fresh' /\ run'[r] = "opening"
    BY <1>0, <1>4, <2>1 DEF OpenReader, Fresh, readerVars, Goto
  <2> QED
    BY <2>2 DEF Healthy
<1>5. CASE OpenCursor(r)
  <2>1. count = 0
    BY <1>1, <1>5 DEF OpenCursor, Healthy, Fresh
  <2>2. cursor' = 0 /\ count' = 0 /\ run'[r] = "reading"
    BY <1>0, <1>5, <2>1 DEF OpenCursor, Goto
  <2> QED
    BY <2>2 DEF Healthy
<1>6. CASE CountItem(r)
  BY <1>0, <1>1, <1>6 DEF CountItem, Healthy, Goto
<1>7. CASE Advance(r)
  BY <1>0, <1>1, <1>7 DEF Advance, Healthy, Goto, Rows
<1>8. CASE TakeRow(r)
  <2>1. cursor = count /\ cursor \in Rows
    BY <1>1, <1>8 DEF TakeRow, Healthy
  <2>2. run'[r] \in {"reading", "committing"} /\ cursor' = cursor /\ count' = count
    BY <1>0, <1>8, <2>1 DEF TakeRow, Goto, readerVars
  <2> QED
    BY <1>0, <2>1, <2>2 DEF Healthy, Rows
<1>9. CASE Commit(r)
  <2>1. cursor' = cursor /\ count' = count
    BY <1>9 DEF Commit, readerVars
  <2> QED
    BY <1>0, <1>1, <1>9, <2>1 DEF Commit, Healthy, Goto
<1>10. CASE DatabaseFails(r)
  BY <1>10 DEF DatabaseFails
<1>11. CASE Close(r)
  BY <1>0, <1>1, <1>11 DEF Close, Healthy, Goto
<1> QED
  BY <1>2, <1>3, <1>4, <1>5, <1>6, <1>7, <1>8, <1>9, <1>10, <1>11 DEF RunMoves, RunStep

LEMMA StepHealth == BatchInv /\ AloneInv /\ CleanInv /\ HealthInv /\ RunsStep => HealthInv'
<1> SUFFICES ASSUME BatchInv, AloneInv, CleanInv, HealthInv, RunsStep PROVE HealthInv'
  OBVIOUS
<1>1. CASE UNCHANGED batchVars
  BY <1>1 DEF batchVars, readerVars, HealthInv, Healthy, Fresh
<1>2. ASSUME NEW q \in Runs, RunMoves(q) PROVE HealthInv'
  <2>1. SUFFICES ASSUME NEW r \in Runs, r \notin (overlapped \cup broken)', r # q PROVE Healthy(r)'
    BY <1>2, OwnHealth DEF HealthInv
  <2>2. r \notin overlapped \cup broken
    BY Zenon, <1>2, <2>1 DEF RunMoves, Launch, RefuseLaunch, RunStep, OpenReader, OpenCursor, CountItem,
       Advance, TakeRow, Commit, DatabaseFails, Close
  <2>3. Healthy(r) /\ run'[r] = run[r]
    BY <1>2, <2>1, <2>2, OthersStay DEF HealthInv, BatchInv
  <2>4. CASE run[r] \in Active
    <3>1. run[q] \notin Active
      BY <2>1, <2>2, <2>4 DEF AloneInv
    <3>2. ~Launch(q)
      BY <2>1, <2>4 DEF Launch, In
    <3>3. RefuseLaunch(q)
      BY <1>2, <3>1, <3>2 DEF RunMoves, Active, Reading, RunStep, OpenReader, OpenCursor, CountItem,
         Advance, TakeRow, Commit, DatabaseFails, Close
    <3> QED
      BY <2>3, <3>3 DEF RefuseLaunch, readerVars, Healthy, Fresh
  <2>5. CASE run[r] \notin Active
    BY <2>3, <2>5 DEF Healthy, Active, Reading
  <2> QED
    BY <2>4, <2>5
<1> QED
  BY <1>1, <1>2 DEF RunsStep, RunMoves

LEMMA InitRuns ==
  BatchInit => SharingInv /\ ReadInv /\ AloneInv /\ CleanInv /\ HealthInv
<1> SUFFICES ASSUME BatchInit PROVE SharingInv /\ ReadInv /\ AloneInv /\ CleanInv /\ HealthInv
  OBVIOUS
<1>1. \A r \in Runs : run[r] = "idle"
  BY DEF BatchInit
<1>2. Fresh
  BY DEF BatchInit, Fresh
<1>3. SharingInv /\ AloneInv /\ CleanInv
  BY <1>1, <1>2 DEF SharingInv, AloneInv, CleanInv, Active, Reading
<1> QED
  BY <1>1, <1>3 DEF ReadInv, ReadsInOrder, HealthInv, Healthy

-------------------------------------------------------------------------
(* The composition                                                        *)

AwaitedTypeOK == awaited \subseteq Runs /\ Cardinality(awaited) <= 1

Inv ==
  /\ TrafficTypeOK /\ TokenInv /\ StaleOnlyAfterRestart
  /\ BatchInv /\ SharingInv /\ ReadInv /\ AloneInv /\ CleanInv /\ HealthInv
  /\ AwaitedTypeOK

LEMMA StepAwaited == AwaitedTypeOK /\ [Next]_vars => AwaitedTypeOK'
<1> SUFFICES ASSUME AwaitedTypeOK, [Next]_vars PROVE AwaitedTypeOK'
  OBVIOUS
<1>1. awaited' = awaited \/ awaited' = {} \/ \E r \in Runs : awaited' = {r}
  BY DEF Next, vars, Trigger, Answer, NoAnswer, Generator, BatchStep, Rest
<1>2. CASE awaited' = awaited
  BY <1>2 DEF AwaitedTypeOK
<1>3. CASE awaited' = {}
  BY <1>3, FS_EmptySet DEF AwaitedTypeOK
<1>4. CASE \E r \in Runs : awaited' = {r}
  BY <1>4, FS_Singleton DEF AwaitedTypeOK
<1> QED
  BY <1>1, <1>2, <1>3, <1>4

\* The inductive invariant: types, how far the generator's clock is ahead, and
\* what a run that is alone, or shares its reader with none, can rely on.
THEOREM Invariance == Spec => []Inv
<1>1. Init => Inv
  BY InitTraffic, InitTokens, InitBatch, InitRuns, FS_EmptySet DEF Init, Inv, AwaitedTypeOK
<1>2. Inv /\ [Next]_vars => Inv'
  BY StepParts, StepTraffic, StepTokens, StepPoolIds, StepBatch, StepSharing, StepRead, StepAlone,
     StepClean, StepHealth, StepAwaited DEF Inv
<1> QED
  BY <1>1, <1>2, PTL DEF Spec

\* Every variable keeps its type; above all, a request is under way exactly when
\* there is a call to make, and no chunk grows beyond its size.
THEOREM TypeCorrect == Spec => []TypeOK
<1>1. Inv => TypeOK
  BY DEF Inv, TypeOK, BatchInv, AwaitedTypeOK
<1> QED
  BY Invariance, <1>1, PTL

\* A margin of two timeouts is enough for every token to outlive the call that
\* carries it.
THEOREM TokenOutlivesCallHolds == Spec => []TokenOutlivesCall
<1>1. Inv => TokenOutlivesCall
  BY TokensSuffice DEF Inv
<1> QED
  BY Invariance, <1>1, PTL

\* The pool holds an id account-service does not know only after its restart.
THEOREM StaleOnlyAfterRestartHolds == Spec => []StaleOnlyAfterRestart
<1>1. Inv => StaleOnlyAfterRestart
  BY DEF Inv
<1> QED
  BY Invariance, <1>1, PTL

\* A completed run that shared the reader with none has written every selected row.
THEOREM CompletedReadsAllHolds == Spec => []CompletedReadsAll
<1>1. Inv => CompletedReadsAll
  BY DEF Inv, ReadInv, ReadsInOrder, CompletedReadsAll
<1> QED
  BY Invariance, <1>1, PTL

\* A run fails only if the database failed it or another run overlapped it.
THEOREM FailedForCauseHolds == Spec => []FailedForCause
<1>1. Inv => FailedForCause
  BY DEF Inv, HealthInv, Healthy, FailedForCause
<1> QED
  BY Invariance, <1>1, PTL
==========================================================================
