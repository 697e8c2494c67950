\* One payment with two fraud messages and one decision, a failing ledger, lost
\* calls and restarts. No timeout: requests must end without the timer's help.
CONSTANTS
  acc001 = acc001
  acc002 = acc002
  p1 = p1
  p2 = p2
  v1 = v1
  v2 = v2
  Accounts <- MCAccounts
  Seed = acc001
  Opening <- MCOpening
  BrokerFails = FALSE
  MaxRestarts = 1
  Payments = {p1}
  Decisions = {v1}
  PaymentBodies <- MCOrders
  DecisionBodies <- MCRulings
  Blank = Blank
  DuplicateFactor = 2
  MaxTxRestarts = 1
  Faults = {"loss", "accountRestart", "txRestart", "gatewayCrash", "database"}
SPECIFICATION Spec
INVARIANT LedgerExplained
PROPERTIES
  EveryRequestEnds
  EveryPaymentScored
