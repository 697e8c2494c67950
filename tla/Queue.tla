------------------------------ MODULE Queue ------------------------------
(* A queue of the Artemis broker with its one consumer, on the broker's    *)
(* side of the STOMP connection. The broker pushes what it has without     *)
(* waiting for acknowledgements; a message whose connection ends returns   *)
(* to the queue, and after MaxDeliveries such ends goes to the DLQ.        *)
EXTENDS Integers

CONSTANTS NumMessages,    \* bound: messages put on the queue in a behaviour
          MaxDeliveries,  \* max-delivery-attempts of the broker
          MaxLosses       \* bound: connections lost and processes stopped

ASSUME QueueAssumption ==
  /\ NumMessages \in Nat /\ MaxLosses \in Nat
  /\ MaxDeliveries \in Nat \ {0}

VARIABLES
  place,       \* place[m]: where message m is. "taken": acknowledged and
               \* removed; "dead": in the DLQ; "gone": lost with a broker
  deliveries,  \* deliveries[m]: its delivery count
  link,        \* the consumer's connection; "dying": it ends, but the
               \* consumer's main loop has not got to know yet
  acks,        \* messages whose ACK or NACK frame is on its way to the broker
  losses,      \* connections lost and processes stopped so far
  body,        \* body[m]: what message m says
  results      \* results[m]: history, what the consumer has logged of m

queueVars == <<place, deliveries, link, acks, losses, body, results>>

Messages == 1..NumMessages  \* numbered as they arrive
Outcomes == {"low", "medium", "high", "email", "sms", "unknown channel"}
Settled  == {"taken", "dead", "gone"}

At(p)    == {m \in Messages : place[m] = p}
Unread   == At("inflight") \ acks
First(m, S) == m \in S /\ \A n \in S : m <= n

QueueTypeOK ==
  /\ place \in [Messages -> {"unsent", "queued", "inflight"} \cup Settled]
  /\ deliveries \in [Messages -> 0..MaxDeliveries]
  /\ link \in {"down", "connected", "subscribed", "dying"}
  /\ acks \subseteq Messages
  /\ losses \in 0..MaxLosses
  /\ results \in [Messages -> SUBSET Outcomes]

QueueInit ==
  /\ place = [m \in Messages |-> "unsent"]
  /\ deliveries = [m \in Messages |-> 0]
  /\ link = "down"
  /\ acks = {}
  /\ losses = 0
  /\ results = [m \in Messages |-> {}]

Log(m, result) == results' = [results EXCEPT ![m] = @ \cup {result}]
Ack(m)         == acks' = acks \cup {m}

Send(m) ==
  /\ First(m, At("unsent"))
  /\ place' = [place EXCEPT ![m] = "queued"]
  /\ UNCHANGED <<deliveries, link, acks, losses, body, results>>

Deliver(m) ==
  /\ link = "subscribed"
  /\ First(m, At("queued"))
  /\ place' = [place EXCEPT ![m] = "inflight"]
  /\ deliveries' = [deliveries EXCEPT ![m] = @ + 1]
  /\ UNCHANGED <<link, acks, losses, body, results>>

\* The oldest ACK or NACK arrives, and ends the covered messages in an outcome.
TakeAck(m, covered, outcome) ==
  /\ First(m, acks)
  /\ acks' = acks \ {m}
  /\ place' = [n \in Messages |->
                 IF n = m THEN outcome
                 ELSE IF n \in covered /\ place[n] = "inflight" THEN "taken" ELSE place[n]]
  /\ UNCHANGED <<deliveries, link, losses, body, results>>

Connect ==
  /\ link = "down"
  /\ link' = "connected"
  /\ UNCHANGED <<place, deliveries, acks, losses, body, results>>

Subscribe ==
  /\ link = "connected"
  /\ link' = "subscribed"
  /\ UNCHANGED <<place, deliveries, acks, losses, body, results>>

\* Mutant: no limit to the delivery attempts.
CutUnlimited ==
  /\ acks' = {}
  /\ place' = [m \in Messages |-> IF place[m] = "inflight" THEN "queued" ELSE place[m]]
  /\ UNCHANGED deliveries

\* The broker sees a connection end without DISCONNECT: what it had delivered
\* there has used up an attempt, whether or not the consumer had looked at it.
Cut ==
  /\ acks' = {}
  /\ place' = [m \in Messages |->
                 IF place[m] # "inflight" THEN place[m]
                 ELSE IF deliveries[m] = MaxDeliveries THEN "dead" ELSE "queued"]
  /\ UNCHANGED deliveries

\* With DISCONNECT the attempt is not counted.
CleanCut ==
  /\ acks' = {}
  /\ place' = [m \in Messages |-> IF place[m] = "inflight" THEN "queued" ELSE place[m]]
  /\ deliveries' = [m \in Messages |->
                      IF place[m] = "inflight" THEN deliveries[m] - 1 ELSE deliveries[m]]

Lose ==
  /\ losses < MaxLosses
  /\ losses' = losses + 1

\* A restarted broker finds what its journal on an emptyDir has kept, if that
\* is still the same pod and the message was sent as a persistent one.
BrokerCut ==
  /\ acks' = {}
  /\ \E kept \in SUBSET (At("queued") \cup At("inflight")) :
       place' = [m \in Messages |->
                   IF m \in kept THEN "queued"
                   ELSE IF place[m] \in {"queued", "inflight"} THEN "gone" ELSE place[m]]
  /\ deliveries' = [m \in Messages |-> IF place[m] \in Settled THEN deliveries[m] ELSE 0]
==========================================================================
