\* Three messages, of any content, on one of the two queues; two connections
\* lost and two delivery attempts, so that a message can run out of them.
CONSTANTS
  NumMessages = 3
  MaxDeliveries = 2
  MaxLosses = 2
  Amounts = {999, 5000}
  Channels = {"sms", "pigeon"}
SPECIFICATION FairSpec
INVARIANTS
  TypeOK
  RemovedMeansHandled
  DeadOnlyForCause
PROPERTY EveryMessageSettles
