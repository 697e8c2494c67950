\* One payment, two decisions on it, every fault but the ledger's, a restart of each service.
CONSTANTS
  acc001 = acc001
  acc002 = acc002
  p1 = p1
  p2 = p2
  v1 = v1
  v2 = v2
  Accounts <- MCAccounts
  Seed = acc001
  Opening <- MCOpening
  BrokerFails = FALSE
  MaxRestarts = 1
  Payments = {p1}
  Decisions = {v1, v2}
  PaymentBodies <- MCOrders
  DecisionBodies <- MCRulings
  Blank = Blank
  DuplicateFactor = 1
  MaxTxRestarts = 1
  Faults = {"timeout", "loss", "accountRestart", "txRestart", "gatewayCrash", "broker"}
SYMMETRY Officers
SPECIFICATION Spec
INVARIANTS
  TypeOK
  DebitNeedsOwnApproval
  ApprovalMeansDebited
  StoredFirst
  ToldStatusHappened
  BalancesMatchDebits
