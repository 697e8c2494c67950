\* The call to transaction-service may fail to connect.
CONSTANTS
  acc001 = acc001
  acc002 = acc002
  p1 = p1
  p2 = p2
  v1 = v1
  v2 = v2
  Accounts <- MCAccounts
  Seed = acc001
  Opening <- MCOpening
  BrokerFails = FALSE
  MaxRestarts = 0
  Payments = {p1}
  Decisions = {v1, v2}
  PaymentBodies <- MCOrders
  DecisionBodies <- MCRulings
  Blank = Blank
  DuplicateFactor = 1
  MaxTxRestarts = 0
  Faults = {"loss"}
SPECIFICATION Spec
INVARIANT AlertedPaymentAccepted
