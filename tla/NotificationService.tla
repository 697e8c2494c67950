----------------------- MODULE NotificationService -----------------------
(* notification-service: dispatches the alerts of alert.queue. go-stomp    *)
(* reads frames into the subscription's channel; consume takes them out in *)
(* order and acknowledges cumulatively (AckClient).                        *)
EXTENDS Queue

CONSTANT Channels  \* what an alert may name as its channel

AlertBodies == [shape : {"fit"}, value : Channels] \cup [shape : {"garbage"}, value : {""}]

VARIABLE leftover  \* messages in the channel of a connection that is lost

Dispatch(channel) == IF channel \in {"email", "sms"} THEN channel ELSE "unknown channel"

\* Mutant: "go processMessage(conn, msg)": the messages overtake one another.
AnyInChannel(m) == m \in (IF link = "dying" THEN leftover ELSE Unread)
NextInChannel(m) == First(m, IF link = "dying" THEN leftover ELSE Unread)

\* The ACK or NACK of a message whose connection is lost only logs an error.
ProcessMessage(m) ==
  /\ link \in {"subscribed", "dying"}
  /\ NextInChannel(m)
  /\ \/ /\ body[m].shape = "garbage"
        /\ UNCHANGED results
     \/ /\ body[m].shape = "fit"
        /\ Log(m, Dispatch(body[m].value))
  /\ IF link = "dying" THEN UNCHANGED acks ELSE Ack(m)
  /\ leftover' = leftover \ {m}
  /\ UNCHANGED <<place, deliveries, link, losses, body>>

\* An ACK covers what was delivered before m as well. A NACK the broker takes
\* for one, or for an order to dead-letter m.
AlertAckArrives(m) ==
  /\ \E outcome \in IF body[m].shape = "garbage" THEN {"taken", "dead"} ELSE {"taken"} :
       TakeAck(m, 1..m, outcome)
  /\ UNCHANGED leftover

\* What go-stomp may have read of the frames that are not processed yet.
InChannel == {{}} \cup {{n \in Unread : n <= m} : m \in Unread}

\* go-stomp closes the channel when the connection ends (an error, or Artemis'
\* TTL); what it had read until then can still be taken out.
NotifierLoses ==
  /\ link \in {"connected", "subscribed"} /\ Lose
  /\ Cut
  /\ link' = "dying"
  /\ leftover' \in InChannel
  /\ UNCHANGED <<body, results>>

\* consume returns once the channel is drained; Disconnect, 3 s, dial again.
ChannelClosed ==
  /\ link = "dying" /\ leftover = {}
  /\ link' = "down"
  /\ UNCHANGED <<place, deliveries, acks, losses, body, results, leftover>>

\* SIGTERM: select may choose ctx.Done with messages in the channel. They stay
\* unacknowledged, and the next pod gets them; also if the pod is just killed.
Shutdown ==
  /\ link # "down" /\ Lose
  /\ \/ link = "dying" /\ UNCHANGED <<place, deliveries, acks>>
     \/ link # "dying" /\ CleanCut
     \/ link # "dying" /\ Cut
  /\ link' = "down"
  /\ leftover' = {}
  /\ UNCHANGED <<body, results>>

NotifierConsumes ==
  \E m \in Messages : ProcessMessage(m) \/ AlertAckArrives(m)
==========================================================================
