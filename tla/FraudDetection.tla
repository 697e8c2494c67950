------------------------- MODULE FraudDetection -------------------------
(* fraud-detection: listens on fraud.score.queue, scores each transaction *)
(* and logs the result. One receiver thread, individual acknowledgements. *)
EXTENDS Queue

CONSTANT Amounts  \* amounts a message may carry, in units of its currency

ASSUME FraudAssumption == Amounts \subseteq Int

\* "garbage" is no JSON; "odd" is JSON, but not an object, or its amount is
\* nothing float() takes (transaction-service checks only that it is there).
FraudBodies ==
  [shape : {"fit"}, value : Amounts] \cup [shape : {"odd", "garbage"}, value : {0}]

LowThreshold    == 1000
MediumThreshold == 5000

Abs(x) == IF x < 0 THEN -x ELSE x

\* An account-created event carries no amount and is scored as 0.
Bucket(amount) ==
  IF Abs(amount) < LowThreshold THEN "low"
  ELSE IF Abs(amount) < MediumThreshold THEN "medium" ELSE "high"

\* Mutant: no except clause around json.loads.
OnMessageRaising(m) ==
  /\ link = "subscribed" /\ First(m, Unread)
  /\ \/ /\ body[m].shape # "fit"
        /\ link' = "dying"
        /\ UNCHANGED <<acks, results>>
     \/ /\ body[m].shape = "fit"
        /\ Log(m, Bucket(body[m].value)) /\ Ack(m)
        /\ UNCHANGED link
  /\ UNCHANGED <<place, deliveries, losses, body>>

\* Mutant: the early return after a parse failure forgets its ACK.
OnMessageSilent(m) ==
  /\ link = "subscribed"
  /\ First(m, {n \in Unread : body[n].shape # "garbage"})
  /\ \/ /\ body[m].shape = "odd"
        /\ link' = "dying"
        /\ UNCHANGED <<acks, results>>
     \/ /\ body[m].shape = "fit"
        /\ Log(m, Bucket(body[m].value)) /\ Ack(m)
        /\ UNCHANGED link
  /\ UNCHANGED <<place, deliveries, losses, body>>

\* stomp.py calls on_message in its receiver thread; what it raises ends the
\* thread, and the frames behind m are never looked at.
OnMessage(m) ==
  /\ link = "subscribed" /\ First(m, Unread)
  /\ \/ /\ body[m].shape = "garbage"
        /\ Ack(m)
        /\ UNCHANGED <<link, results>>
     \/ /\ body[m].shape = "odd"
        /\ link' = "dying"
        /\ UNCHANGED <<acks, results>>
     \/ /\ body[m].shape = "fit"
        /\ Log(m, Bucket(body[m].value)) /\ Ack(m)
        /\ UNCHANGED link
  /\ UNCHANGED <<place, deliveries, losses, body>>

\* ACK frames of a client-individual subscription.
FraudAckArrives(m) == TakeAck(m, {m}, "taken")

\* is_connected turns false once the library has closed the socket, or the
\* broker has for want of traffic; then a sleep and a new Connection.
LossNoticed ==
  /\ link = "dying"
  /\ link' = "down"
  /\ Cut
  /\ UNCHANGED <<losses, body, results>>

\* connect or subscribe raises, the connection drops, or the pod is killed.
FraudLoses ==
  /\ link # "down" /\ Lose
  /\ link' = "down"
  /\ Cut
  /\ UNCHANGED <<body, results>>

FraudConsumes ==
  \E m \in Messages : OnMessage(m) \/ FraudAckArrives(m)
=========================================================================
