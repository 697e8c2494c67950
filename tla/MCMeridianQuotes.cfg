\* Two deposits racing each other and a transfer, every fault of theirs.
CONSTANTS
  acc001 = acc001
  acc002 = acc002
  p1 = p1
  Accounts <- MCAccounts
  Seed = acc001
  Opening <- MCOpening
  BrokerFails = TRUE
  MaxRestarts = 1
  Deposits = {d1, d2}
  DepositBodies <- MCDepositBodies
  Transfers = {t1}
  Bodies <- MCBodies
  Payments = {}
  Decisions = {}
  PaymentBodies <- MCPaymentBodies
  DecisionBodies = {}
  Blank = Blank
  DuplicateFactor = 1
  MaxTxRestarts = 0
  Faults = {"timeout", "loss", "accountRestart", "gatewayCrash"}
SPECIFICATION Spec
INVARIANT QuotedBalanceIncludesDeposit
