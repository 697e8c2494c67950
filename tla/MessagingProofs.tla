------------------------- MODULE MessagingProofs -------------------------
(* Proofs about the consumers of the two queues, for any number of         *)
(* messages of any content, delivery attempts and losses.                  *)
EXTENDS Messaging, TLAPS

Handled(m) == results[m] = {Outcome(m)} \/ body[m].shape = "garbage"

\* A message is in its queue's order: removed or in flight before queued, and
\* queued before unsent. That is what makes a cumulative acknowledgement safe.
InOrder ==
  \A m, n \in Messages :
    /\ place[m] = "inflight" /\ place[n] \in {"queued", "unsent"} => m < n
    /\ place[m] = "queued" /\ place[n] = "unsent" => m < n

AcksInOrder ==
  \A m \in acks :
    /\ place[m] = "inflight" /\ Handled(m)
    /\ \A n \in Messages : consumer = "notifier" /\ place[n] = "inflight" /\ n < m => n \in acks

ResultsFit == \A m \in Messages : results[m] \subseteq {Outcome(m)}

HandledInv == TypeOK /\ InOrder /\ AcksInOrder /\ ResultsFit /\ RemovedMeansHandled

LEMMA InitInv == Init => HandledInv
<1> SUFFICES ASSUME Init PROVE HandledInv
  OBVIOUS
<1>1. TypeOK
  BY QueueAssumption DEF Init, QueueInit, TypeOK, QueueTypeOK, At
<1> QED
  BY <1>1 DEF Init, QueueInit, HandledInv, InOrder, AcksInOrder, ResultsFit, RemovedMeansHandled,
     Settled

-------------------------------------------------------------------------
(* Types                                                                  *)

LEMMA ConnectType ==
  ASSUME TypeOK, Connect \/ Subscribe \/ LossNoticed \/ FraudLoses, UNCHANGED <<leftover, consumer>>
  PROVE  TypeOK'
<1>1. CASE Connect \/ Subscribe
  BY <1>1 DEF TypeOK, QueueTypeOK, Connect, Subscribe, At, Bodies
<1>2. CASE LossNoticed \/ FraudLoses
  <2>1. losses' \in 0..MaxLosses /\ UNCHANGED <<body, results>>
    BY <1>2, QueueAssumption DEF TypeOK, QueueTypeOK, LossNoticed, FraudLoses, Lose
  <2>2. Cut /\ link' = "down"
    BY <1>2 DEF LossNoticed, FraudLoses
  <2> QED
    BY <2>1, <2>2, QueueAssumption DEF TypeOK, QueueTypeOK, Cut, At, Settled, Bodies
<1> QED
  BY <1>1, <1>2

LEMMA SendType ==
  ASSUME TypeOK, NEW m \in Messages, Send(m) \/ Deliver(m), UNCHANGED <<leftover, consumer>>
  PROVE  TypeOK'
<1>1. CASE Send(m)
  <2>1. deliveries[m] < MaxDeliveries
    BY <1>1, QueueAssumption DEF TypeOK, QueueTypeOK, Send, First, At
  <2> QED
    BY <1>1, <2>1 DEF TypeOK, QueueTypeOK, Send, First, At, Settled, Bodies
<1>2. CASE Deliver(m)
  <2>1. deliveries[m] + 1 \in 0..MaxDeliveries
    BY <1>2, QueueAssumption DEF TypeOK, QueueTypeOK, Deliver, First, At
  <2> QED
    BY <1>2, <2>1 DEF TypeOK, QueueTypeOK, Deliver, First, At, Settled, Bodies
<1> QED
  BY <1>1, <1>2

LEMMA HandlerType ==
  ASSUME TypeOK, NEW m \in Messages,
         \/ OnMessage(m) /\ UNCHANGED <<leftover, consumer>>
         \/ ProcessMessage(m) /\ UNCHANGED consumer
  PROVE  TypeOK'
<1>1. results' \in [Messages -> SUBSET Outcomes]
  <2>1. Bucket(body[m].value) \in Outcomes
    BY DEF Bucket, Outcomes
  <2>2. Dispatch(body[m].value) \in Outcomes
    BY DEF Dispatch, Outcomes
  <2> QED
    BY <2>1, <2>2 DEF TypeOK, QueueTypeOK, OnMessage, ProcessMessage, Log
<1>2. acks' \subseteq Messages /\ leftover' \subseteq Messages
  BY DEF TypeOK, QueueTypeOK, OnMessage, ProcessMessage, Ack
<1>3. link' \in {"down", "connected", "subscribed", "dying"}
  BY DEF TypeOK, QueueTypeOK, OnMessage, ProcessMessage
<1>4. UNCHANGED <<place, deliveries, losses, body, consumer>>
  BY DEF OnMessage, ProcessMessage
<1> QED
  BY <1>1, <1>2, <1>3, <1>4 DEF TypeOK, QueueTypeOK, At, Bodies

LEMMA AckType ==
  ASSUME TypeOK, NEW m \in Messages, NEW covered, NEW outcome \in {"taken", "dead"},
         TakeAck(m, covered, outcome), UNCHANGED <<leftover, consumer>>
  PROVE  TypeOK'
BY DEF TypeOK, QueueTypeOK, TakeAck, At, Settled, Bodies

LEMMA NotifierType ==
  ASSUME TypeOK, ChannelClosed \/ NotifierLoses \/ Shutdown, UNCHANGED consumer
  PROVE  TypeOK'
<1>1. leftover' \subseteq Messages
  BY DEF TypeOK, ChannelClosed, NotifierLoses, Shutdown, InChannel, Unread, At
<1> QED
  BY <1>1, QueueAssumption
  DEF TypeOK, QueueTypeOK, ChannelClosed, NotifierLoses, Shutdown, Lose, Cut, CleanCut, At,
      Settled, Bodies

LEMMA BrokerType ==
  ASSUME TypeOK, BrokerRestart
  PROVE  TypeOK'
<1>1. leftover' \subseteq Messages
  BY DEF TypeOK, BrokerRestart, InChannel, Unread, At
<1> QED
  BY <1>1, QueueAssumption
  DEF TypeOK, QueueTypeOK, BrokerRestart, Lose, BrokerCut, At, Settled, Bodies

LEMMA StepType == TypeOK /\ [Next]_vars => TypeOK'
<1> SUFFICES ASSUME TypeOK, [Next]_vars PROVE TypeOK'
  OBVIOUS
<1>1. CASE Broker
  BY <1>1, ConnectType, SendType DEF Broker
<1>2. CASE Fraud
  BY <1>2, ConnectType, HandlerType, AckType DEF Fraud, FraudConsumes, FraudAckArrives
<1>3. CASE Notifier
  BY <1>3, NotifierType, HandlerType, AckType DEF Notifier, NotifierConsumes, AlertAckArrives
<1>4. CASE UNCHANGED vars
  BY <1>4 DEF vars, queueVars, TypeOK, QueueTypeOK, At, Bodies
<1> QED
  BY <1>1, <1>2, <1>3, <1>4, BrokerType DEF Next, Rest

\* The state keeps its types, and no message is queued with its attempts used up.
THEOREM TypeCorrect == Spec => []TypeOK
<1>1. Init => TypeOK
  BY InitInv DEF HandledInv
<1> QED
  BY <1>1, StepType, PTL DEF Spec

-------------------------------------------------------------------------
(* Order, acknowledgements and what is handled                            *)

\* Outcomes depend on the content of a message only.
LEMMA OutcomeStays ==
  ASSUME UNCHANGED <<body, consumer>>, NEW m \in Messages
  PROVE  Outcome(m)' = Outcome(m)
BY DEF Outcome

LEMMA SendHandled ==
  ASSUME HandledInv, NEW m \in Messages, Send(m) \/ Deliver(m), UNCHANGED <<leftover, consumer>>
  PROVE  InOrder' /\ AcksInOrder' /\ ResultsFit' /\ RemovedMeansHandled'
<1> USE DEF HandledInv, TypeOK, QueueTypeOK
<1>1. UNCHANGED <<body, consumer, results, acks>>
  BY DEF Send, Deliver
<1>2. InOrder'
  <2>1. CASE Send(m)
    <3>1. /\ place' = [place EXCEPT ![m] = "queued"] /\ place[m] = "unsent"
          /\ \A n \in Messages : place[n] = "unsent" /\ n # m => m < n
      BY <2>1 DEF Send, First, At, Messages
    <3> QED
      BY <3>1 DEF InOrder
  <2>2. CASE Deliver(m)
    <3>1. /\ place' = [place EXCEPT ![m] = "inflight"] /\ place[m] = "queued"
          /\ \A n \in Messages : place[n] = "queued" /\ n # m => m < n
      BY <2>2 DEF Deliver, First, At, Messages
    <3> QED
      BY <3>1 DEF InOrder
  <2> QED
    BY <2>1, <2>2
<1>3. AcksInOrder'
  <2> SUFFICES ASSUME NEW a \in acks
               PROVE  /\ place'[a] = "inflight" /\ Handled(a)'
                      /\ \A n \in Messages :
                           consumer = "notifier" /\ place'[n] = "inflight" /\ n < a => n \in acks
    BY <1>1 DEF AcksInOrder
  <2>1. a \in Messages /\ place[a] = "inflight" /\ Handled(a)
    BY DEF AcksInOrder
  <2>2. place'[a] = "inflight" /\ Handled(a)'
    BY <1>1, <2>1, OutcomeStays DEF Send, Deliver, First, At, Handled
  <2>3. ASSUME NEW n \in Messages, place'[n] = "inflight", n < a
        PROVE  place[n] = "inflight"
    <3>1. CASE n = m
      <4>1. place[m] \in {"queued", "unsent"}
        BY DEF Send, Deliver, First, At
      <4>2. a < m
        BY <2>1, <4>1 DEF InOrder
      <4> QED
        BY <2>3, <3>1, <4>2, <2>1 DEF Messages
    <3>2. CASE n # m
      BY <2>3, <3>2 DEF Send, Deliver
    <3> QED
      BY <3>1, <3>2
  <2> QED
    BY <2>1, <2>2, <2>3 DEF AcksInOrder
<1>4. ResultsFit' /\ RemovedMeansHandled'
  BY <1>1, OutcomeStays DEF Send, Deliver, First, At, ResultsFit, RemovedMeansHandled
<1> QED
  BY <1>2, <1>3, <1>4

\* What the consumer does with a message it takes out in order.
LEMMA HandlerHandled ==
  ASSUME HandledInv, NEW m \in Messages,
         \/ consumer = "fraud" /\ OnMessage(m) /\ UNCHANGED <<leftover, consumer>>
         \/ consumer = "notifier" /\ ProcessMessage(m) /\ UNCHANGED consumer
  PROVE  InOrder' /\ AcksInOrder' /\ ResultsFit' /\ RemovedMeansHandled'
<1> USE DEF HandledInv, TypeOK, QueueTypeOK
<1>1. UNCHANGED <<body, consumer, place>>
  BY DEF OnMessage, ProcessMessage
<1>2. \/ UNCHANGED results
      \/ body[m].shape = "fit" /\ Log(m, Outcome(m))
  BY DEF OnMessage, ProcessMessage, Outcome
<1>3. \/ UNCHANGED acks
      \/ /\ acks' = acks \cup {m} /\ First(m, Unread)
         /\ body[m].shape = "garbage" \/ Log(m, Outcome(m))
  BY DEF OnMessage, ProcessMessage, NextInChannel, Ack, Outcome
<1>4. ResultsFit'
  BY <1>1, <1>2, OutcomeStays DEF ResultsFit, Log
<1>5. \A n \in Messages : Handled(n) => Handled(n)'
  BY <1>1, <1>2, OutcomeStays DEF Handled, Log
<1>6. RemovedMeansHandled'
  BY <1>1, <1>5 DEF RemovedMeansHandled, Handled
<1>7. InOrder'
  BY <1>1 DEF InOrder
<1>8. AcksInOrder'
  <2>1. CASE UNCHANGED acks
    BY <2>1, <1>1, <1>5 DEF AcksInOrder
  <2>2. CASE /\ acks' = acks \cup {m} /\ First(m, Unread)
             /\ body[m].shape = "garbage" \/ Log(m, Outcome(m))
    <3>1. place[m] = "inflight"
      BY <2>2 DEF First, Unread, At
    <3>2. Handled(m)'
      BY <2>2, <1>1, OutcomeStays DEF Handled, Log, ResultsFit
    <3>3. \A n \in Messages : place[n] = "inflight" /\ n < m => n \in acks
      BY <2>2 DEF First, Unread, At, Messages
    <3> QED
      BY <2>2, <3>1, <3>2, <3>3, <1>1, <1>5 DEF AcksInOrder
  <2> QED
    BY <1>3, <2>1, <2>2
<1> QED
  BY <1>4, <1>6, <1>7, <1>8

LEMMA AckHandled ==
  ASSUME HandledInv, NEW m \in Messages, NEW outcome \in {"taken", "dead"},
         \/ consumer = "fraud" /\ TakeAck(m, {m}, outcome)
         \/ consumer = "notifier" /\ TakeAck(m, 1..m, outcome),
         UNCHANGED <<leftover, consumer>>
  PROVE  InOrder' /\ AcksInOrder' /\ ResultsFit' /\ RemovedMeansHandled'
<1> USE DEF HandledInv, TypeOK, QueueTypeOK
<1>1. UNCHANGED <<body, consumer, results>> /\ acks' = acks \ {m} /\ First(m, acks)
  BY DEF TakeAck
<1>2. \A n \in Messages : Handled(n)' = Handled(n)
  BY <1>1, OutcomeStays DEF Handled
<1>3. \A n \in Messages : place'[n] = place[n] \/ (place[n] = "inflight" /\ Handled(n))
  <2> SUFFICES ASSUME NEW n \in Messages, place'[n] # place[n]
               PROVE  place[n] = "inflight" /\ Handled(n)
    OBVIOUS
  <2>1. CASE n = m
    BY <1>1, <2>1 DEF First, AcksInOrder
  <2>2. CASE n # m
    <3>1. place[n] = "inflight" /\ consumer = "notifier" /\ n < m
      <4>1. CASE consumer = "fraud"
        BY <2>2, <4>1 DEF TakeAck
      <4>2. CASE TakeAck(m, 1..m, outcome) /\ consumer = "notifier"
        BY <2>2, <4>2 DEF TakeAck, Messages
      <4> QED
        BY <4>1, <4>2
    <3> QED
      BY <1>1, <3>1 DEF First, AcksInOrder
  <2> QED
    BY <2>1, <2>2
<1>4. \A n \in Messages : place'[n] = place[n] \/ place'[n] \in {"taken", "dead"}
  BY DEF TakeAck
<1>5. ResultsFit' /\ RemovedMeansHandled'
  BY <1>1, <1>2, <1>3, OutcomeStays DEF ResultsFit, RemovedMeansHandled, Handled
<1>6. InOrder'
  BY <1>4 DEF InOrder
<1>7. \A n \in acks' : place'[n] = "inflight"
  <2> SUFFICES ASSUME NEW n \in acks' PROVE place'[n] = "inflight"
    OBVIOUS
  <2>1. n \in Messages /\ m < n /\ place[n] = "inflight"
    BY <1>1 DEF First, AcksInOrder, Messages
  <2> QED
    <3>1. n # m /\ n \notin {m} /\ n \notin 1..m
      BY <2>1 DEF Messages
    <3> QED
      BY <2>1, <3>1 DEF TakeAck
<1>8. AcksInOrder'
  BY <1>1, <1>2, <1>4, <1>7 DEF AcksInOrder, TakeAck
<1> QED
  BY <1>5, <1>6, <1>8

\* Every way of losing a connection or a process.
LEMMA CutHandled ==
  ASSUME HandledInv, Cut \/ CleanCut \/ BrokerCut, UNCHANGED <<body, results, consumer>>
  PROVE  InOrder' /\ AcksInOrder' /\ ResultsFit' /\ RemovedMeansHandled'
<1> USE DEF HandledInv, TypeOK, QueueTypeOK
<1>1. acks' = {}
  BY DEF Cut, CleanCut, BrokerCut
<1>2. \A n \in Messages : /\ place'[n] # "inflight"
                          /\ place'[n] = "unsent" => place[n] = "unsent"
                          /\ place'[n] = "taken" => place[n] = "taken"
                          /\ place'[n] = "queued" => place[n] \in {"queued", "inflight"}
  BY DEF Cut, CleanCut, BrokerCut, At
<1> QED
  BY <1>1, <1>2, OutcomeStays DEF InOrder, AcksInOrder, ResultsFit, RemovedMeansHandled

LEMMA StepHandled == HandledInv /\ [Next]_vars => HandledInv'
<1> SUFFICES ASSUME HandledInv, [Next]_vars
             PROVE  InOrder' /\ AcksInOrder' /\ ResultsFit' /\ RemovedMeansHandled'
  BY StepType DEF HandledInv
<1> DEFINE Goal == InOrder' /\ AcksInOrder' /\ ResultsFit' /\ RemovedMeansHandled'
<1>1. ASSUME UNCHANGED <<place, acks, body, results, consumer>>
      PROVE  Goal
  BY <1>1, OutcomeStays
  DEF HandledInv, InOrder, AcksInOrder, ResultsFit, RemovedMeansHandled, Handled, TypeOK,
      QueueTypeOK
<1>2. CASE Broker
  <2>1. CASE Connect \/ Subscribe
    BY <2>1, <1>2, <1>1 DEF Connect, Subscribe, Broker
  <2> QED
    BY <2>1, <1>2, SendHandled DEF Broker
<1>3. CASE Fraud
  <2>1. CASE LossNoticed \/ FraudLoses
    BY <2>1, <1>3, CutHandled DEF LossNoticed, FraudLoses, Fraud
  <2>2. CASE FraudConsumes
    BY <2>2, <1>3, HandlerHandled, AckHandled DEF Fraud, FraudConsumes, FraudAckArrives
  <2> QED
    BY <2>1, <2>2, <1>3 DEF Fraud
<1>4. CASE Notifier
  <2>1. CASE ChannelClosed
    BY <2>1, <1>4, <1>1 DEF ChannelClosed, Notifier
  <2>2. CASE NotifierLoses \/ Shutdown
    <3>1. CASE UNCHANGED <<place, deliveries, acks>>
      BY <3>1, <2>2, <1>4, <1>1 DEF NotifierLoses, Shutdown, Notifier
    <3> QED
      BY <3>1, <2>2, <1>4, CutHandled DEF NotifierLoses, Shutdown, Notifier
  <2>3. CASE NotifierConsumes
    BY <2>3, <1>4, HandlerHandled, AckHandled DEF Notifier, NotifierConsumes, AlertAckArrives
  <2> QED
    BY <2>1, <2>2, <2>3, <1>4 DEF Notifier
<1>5. CASE BrokerRestart
  BY <1>5, CutHandled DEF BrokerRestart
<1>6. CASE UNCHANGED vars
  BY <1>6, <1>1 DEF vars, queueVars
<1> QED
  BY <1>2, <1>3, <1>4, <1>5, <1>6 DEF Next, Rest

\* A removed message was handled, by its own content, or was no JSON.
THEOREM RemovedMeansHandledHolds == Spec => []RemovedMeansHandled
<1>1. HandledInv => RemovedMeansHandled
  BY DEF HandledInv
<1> QED
  BY InitInv, StepHandled, <1>1, PTL DEF Spec

-------------------------------------------------------------------------
(* What ends in the DLQ unscored                                          *)

\* A valid message not scored yet, with no killer of receivers up to it.
Innocent(m) ==
  body[m].shape = "fit" /\ results[m] = {} /\ \A n \in 1..m : body[n].shape # "odd"

AttemptsLost ==
  \A m \in Messages : Innocent(m) =>
    /\ place[m] # "inflight" => deliveries[m] <= losses
    /\ place[m] = "inflight" => deliveries[m] <= losses + 1
    /\ place[m] = "dead" => losses >= MaxDeliveries

\* While a dead receiver goes unnoticed, what is in flight is handled already
\* or behind the message that killed it.
BehindTheKiller ==
  consumer = "fraud" /\ link = "dying" =>
    \A m \in At("inflight") : m \in acks \/ \E n \in 1..m : body[n].shape = "odd"

Inv == HandledInv /\ AttemptsLost /\ BehindTheKiller

LEMMA InnocentBefore ==
  ASSUME UNCHANGED body, NEW m \in Messages, Innocent(m)',
         results[m] \subseteq results'[m]
  PROVE  Innocent(m)
BY DEF Innocent

LEMMA StepResults ==
  ASSUME HandledInv, [Next]_vars
  PROVE  UNCHANGED <<body, consumer>> /\ \A m \in Messages : results[m] \subseteq results'[m]
<1> USE DEF HandledInv, TypeOK, QueueTypeOK
<1>1. CASE Broker \/ BrokerRestart
  BY <1>1 DEF Broker, BrokerRestart, Send, Deliver, Connect, Subscribe
<1>2. CASE Fraud
  BY <1>2 DEF Fraud, FraudConsumes, OnMessage, FraudAckArrives, TakeAck, LossNoticed, FraudLoses, Log
<1>3. CASE Notifier
  BY <1>3 DEF Notifier, NotifierConsumes, ProcessMessage, AlertAckArrives, TakeAck, ChannelClosed,
     NotifierLoses, Shutdown, Log
<1>4. CASE UNCHANGED vars
  BY <1>4 DEF vars, queueVars
<1> QED
  BY <1>1, <1>2, <1>3, <1>4 DEF Next, Rest

\* A connection that is lost costs an attempt, and is counted.
LEMMA LostAttempt ==
  ASSUME Inv, NEW m \in Messages, Innocent(m), Lose, Cut \/ CleanCut \/ BrokerCut
  PROVE  /\ place'[m] # "inflight"
         /\ deliveries'[m] <= losses'
         /\ place'[m] = "dead" => losses' >= MaxDeliveries
<1> USE QueueAssumption DEF Inv, HandledInv, TypeOK, QueueTypeOK, AttemptsLost, Lose
<1>1. CASE Cut
  BY <1>1 DEF Cut
<1>2. CASE CleanCut
  BY <1>2 DEF CleanCut, At
<1>3. CASE BrokerCut
  <2>1. /\ place'[m] = IF place[m] \in {"queued", "inflight"} THEN place'[m] ELSE place[m]
        /\ place'[m] # "inflight" /\ (place'[m] = "dead" => place[m] = "dead")
        /\ deliveries'[m] \in {0, deliveries[m]}
        /\ place[m] = "inflight" => deliveries'[m] = 0
    BY <1>3 DEF BrokerCut, At, Settled
  <2> QED
    BY <2>1
<1> QED
  BY <1>1, <1>2, <1>3

LEMMA StepAttempts == Inv /\ [Next]_vars => AttemptsLost'
<1> SUFFICES ASSUME Inv, [Next]_vars, NEW m \in Messages, Innocent(m)'
             PROVE  /\ place'[m] # "inflight" => deliveries'[m] <= losses'
                    /\ place'[m] = "inflight" => deliveries'[m] <= losses' + 1
                    /\ place'[m] = "dead" => losses' >= MaxDeliveries
  BY DEF AttemptsLost
<1>1. Innocent(m)
  BY StepResults, InnocentBefore DEF Inv
<1> USE <1>1, QueueAssumption DEF Inv, HandledInv, TypeOK, QueueTypeOK, AttemptsLost
<1>2. CASE UNCHANGED <<place, deliveries, losses>>
  BY <1>2
<1>3. ASSUME NEW n \in Messages, Send(n) \/ Deliver(n)
      PROVE  /\ place'[m] # "inflight" => deliveries'[m] <= losses'
             /\ place'[m] = "inflight" => deliveries'[m] <= losses' + 1
             /\ place'[m] = "dead" => losses' >= MaxDeliveries
  BY <1>3 DEF Send, Deliver, First, At
<1>4. ASSUME NEW n \in Messages,
             \/ FraudAckArrives(n)
             \/ AlertAckArrives(n) /\ consumer = "notifier"
      PROVE  UNCHANGED <<deliveries, losses>> /\ place'[m] = place[m]
  <2>1. n \in acks /\ UNCHANGED <<deliveries, losses>>
    BY <1>4 DEF FraudAckArrives, AlertAckArrives, TakeAck, First
  <2>2. m \notin acks
    BY DEF AcksInOrder, Handled, Innocent
  <2>3. CASE FraudAckArrives(n)
    BY <2>1, <2>2, <2>3 DEF FraudAckArrives, TakeAck
  <2>4. CASE AlertAckArrives(n) /\ consumer = "notifier"
    <3>1. place[m] = "inflight" => m \notin 1..n
      BY <2>1, <2>2, <2>4 DEF AcksInOrder, Messages
    <3> QED
      BY <2>1, <2>2, <2>4, <3>1 DEF AlertAckArrives, TakeAck
  <2> QED
    BY <1>4, <2>1, <2>3, <2>4
<1>5. CASE LossNoticed /\ consumer = "fraud"
  <2>1. place[m] # "inflight"
    BY <1>5 DEF LossNoticed, BehindTheKiller, At, AcksInOrder, Handled, Innocent
  <2> QED
    BY <1>5, <2>1 DEF LossNoticed, Cut
<1>6. CASE Lose /\ (Cut \/ CleanCut \/ BrokerCut)
  BY <1>6, LostAttempt
<1>7. CASE Lose /\ UNCHANGED <<place, deliveries>>
  BY <1>7 DEF Lose
<1>8. CASE Broker
  BY <1>2, <1>3, <1>8 DEF Broker, Connect, Subscribe
<1>9. CASE Fraud
  BY <1>2, <1>4, <1>5, <1>6, <1>9 DEF Fraud, FraudConsumes, OnMessage, FraudLoses
<1>10. CASE Notifier
  BY <1>2, <1>4, <1>6, <1>7, <1>10
  DEF Notifier, NotifierConsumes, ProcessMessage, ChannelClosed, NotifierLoses, Shutdown
<1>11. CASE BrokerRestart \/ UNCHANGED vars
  BY <1>2, <1>6, <1>11 DEF BrokerRestart, vars, queueVars
<1> QED
  BY <1>8, <1>9, <1>10, <1>11 DEF Next, Rest

LEMMA StepKiller == Inv /\ [Next]_vars => BehindTheKiller'
<1> SUFFICES ASSUME Inv, [Next]_vars, consumer' = "fraud", link' = "dying",
                    NEW m \in Messages, place'[m] = "inflight"
             PROVE  m \in acks' \/ \E n \in 1..m : body'[n].shape = "odd"
  BY DEF BehindTheKiller, At
<1>1. UNCHANGED <<body, consumer>>
  BY StepResults DEF Inv
<1> USE <1>1 DEF Inv, HandledInv, TypeOK, QueueTypeOK, BehindTheKiller, At
<1>2. CASE Broker
  BY <1>2 DEF Broker, Send, Deliver, Connect, Subscribe
<1>3. CASE BrokerRestart
  BY <1>3 DEF BrokerRestart, BrokerCut
<1>4. ASSUME NEW k \in Messages, OnMessage(k)
      PROVE  m \in acks' \/ \E n \in 1..m : body'[n].shape = "odd"
  <2>1. link = "subscribed" /\ body[k].shape = "odd" /\ acks' = acks /\ place' = place
    BY <1>4 DEF OnMessage
  <2>2. m \in acks \/ k <= m
    BY <1>4, <2>1 DEF OnMessage, First, Unread
  <2>3. k <= m => k \in 1..m
    BY DEF Messages
  <2> QED
    BY <2>1, <2>2, <2>3
<1>5. ASSUME NEW k \in Messages, FraudAckArrives(k)
      PROVE  m \in acks' \/ \E n \in 1..m : body'[n].shape = "odd"
  BY <1>5 DEF FraudAckArrives, TakeAck
<1>6. CASE Fraud
  BY <1>4, <1>5, <1>6 DEF Fraud, FraudConsumes, LossNoticed, FraudLoses
<1>7. CASE UNCHANGED vars
  BY <1>7 DEF vars, queueVars
<1> QED
  BY <1>2, <1>3, <1>6, <1>7 DEF Next, Notifier, Rest

\* The inductive invariant of both consumers.
THEOREM Invariance == Spec => []Inv
<1>1. Init => Inv
  BY InitInv, QueueAssumption
  DEF Inv, Init, QueueInit, AttemptsLost, BehindTheKiller, At
<1>2. Inv /\ [Next]_vars => Inv'
  BY StepHandled, StepAttempts, StepKiller DEF Inv
<1> QED
  BY <1>1, <1>2, PTL DEF Spec

\* A valid message is dead-lettered unscored only for lost connections, or
\* together with a message ahead of it that kills the receiver.
THEOREM DeadOnlyForCauseHolds == Spec => []DeadOnlyForCause
<1>1. Inv => DeadOnlyForCause
  BY DEF Inv, AttemptsLost, Innocent, DeadOnlyForCause
<1> QED
  BY Invariance, <1>1, PTL
==========================================================================
