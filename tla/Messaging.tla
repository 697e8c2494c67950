---------------------------- MODULE Messaging ----------------------------
(* The two queues of the platform. They share nothing but the broker, and  *)
(* so a behaviour is about one of them.                                    *)
EXTENDS FraudDetection, NotificationService

VARIABLE consumer  \* "fraud": fraud.score.queue; "notifier": alert.queue

vars == <<queueVars, leftover, consumer>>

Bodies == IF consumer = "fraud" THEN FraudBodies ELSE AlertBodies

TypeOK ==
  /\ QueueTypeOK
  /\ \A m \in At("inflight") : deliveries[m] > 0
  /\ \A m \in At("unsent") \cup At("queued") : deliveries[m] < MaxDeliveries
  /\ consumer \in {"fraud", "notifier"}
  /\ body \in [Messages -> Bodies]
  /\ leftover \subseteq Messages

Init ==
  /\ QueueInit
  /\ consumer \in {"fraud", "notifier"}
  /\ body \in [Messages -> Bodies]
  /\ leftover = {}

BrokerRestart ==
  /\ Lose
  /\ BrokerCut
  /\ \/ link \in {"down", "dying"} /\ UNCHANGED <<link, leftover>>
     \/ /\ link \in {"connected", "subscribed"}
        /\ link' = "dying"
        /\ leftover' \in IF consumer = "notifier" THEN InChannel ELSE {{}}
  /\ UNCHANGED <<body, results, consumer>>

Broker ==
  /\ \/ \E m \in Messages : Send(m) \/ Deliver(m)
     \/ Connect \/ Subscribe
  /\ UNCHANGED <<leftover, consumer>>

Fraud ==
  /\ consumer = "fraud"
  /\ FraudConsumes \/ LossNoticed \/ FraudLoses
  /\ UNCHANGED <<leftover, consumer>>

Notifier ==
  /\ consumer = "notifier"
  /\ NotifierConsumes \/ ChannelClosed \/ NotifierLoses \/ Shutdown
  /\ UNCHANGED consumer

Rest ==
  /\ \A m \in Messages : place[m] \in Settled
  /\ UNCHANGED vars

Next == Broker \/ BrokerRestart \/ Fraud \/ Notifier \/ Rest

\* The main loops retry for ever, the receivers take what is there, TCP
\* delivers, and a connection that is over is noticed: by the socket, by the
\* heart-beats of go-stomp, or because Artemis closes what has gone quiet.
Fairness ==
  /\ WF_vars(Connect /\ UNCHANGED <<leftover, consumer>>)
  /\ WF_vars(Subscribe /\ UNCHANGED <<leftover, consumer>>)
  /\ WF_vars((\E m \in Messages : Deliver(m)) /\ UNCHANGED <<leftover, consumer>>)
  /\ WF_vars(Fraud /\ \E m \in Messages : OnMessage(m))
  /\ WF_vars(Fraud /\ \E m \in Messages : FraudAckArrives(m))
  /\ WF_vars(Fraud /\ LossNoticed)
  /\ WF_vars(Notifier /\ \E m \in Messages : ProcessMessage(m))
  /\ WF_vars(Notifier /\ \E m \in Messages : AlertAckArrives(m))
  /\ WF_vars(Notifier /\ ChannelClosed)

Spec     == Init /\ [][Next]_vars
FairSpec == Spec /\ Fairness

-------------------------------------------------------------------------
(* Properties                                                             *)

Outcome(m) ==
  IF consumer = "fraud" THEN Bucket(body[m].value) ELSE Dispatch(body[m].value)

\* "ACK the frame so the broker removes it from the queue" comes last: a message
\* is removed only after it was scored or dispatched, by its amount or channel,
\* or if it is no JSON. That holds under cumulative acknowledgements too, across
\* lost connections, leftovers of them and restarts.
RemovedMeansHandled ==
  \A m \in Messages :
    place[m] = "taken" => results[m] = {Outcome(m)} \/ body[m].shape = "garbage"

\* "ACK even on parse failure to avoid poison-pill infinite redelivery": a valid
\* message reaches the DLQ unscored only if MaxDeliveries connections were lost,
\* or if one that kills the receiver thread was ahead of it in the queue and took
\* it along. A message that is no JSON harms nobody.
DeadOnlyForCause ==
  \A m \in Messages :
    place[m] = "dead" /\ body[m].shape = "fit" /\ results[m] = {} =>
      \/ losses >= MaxDeliveries
      \/ \E n \in 1..m : body[n].shape = "odd"

\* No message stays for ever: it is handled and removed, ends in the DLQ, or is
\* lost with the broker, although receivers die and connections are lost.
EveryMessageSettles ==
  \A m \in Messages : (place[m] = "queued") ~> (place[m] \in Settled)
==========================================================================
