\* All three endpoints at once, a restart of account-service (and the replies
\* lost with it) and a crash of the gateway.
CONSTANTS
  acc001 = acc001
  acc002 = acc002
  p1 = p1
  Accounts <- MCAccounts
  Seed = acc001
  Opening <- MCOpening
  BrokerFails = FALSE
  MaxRestarts = 1
  Deposits = {d1}
  DepositBodies <- MCContended
  Transfers = {t1}
  Bodies <- MCBodies
  Payments = {p1}
  Decisions = {v1}
  PaymentBodies <- MCPaymentBodies
  DecisionBodies <- MCDecisionBodies
  Blank = Blank
  DuplicateFactor = 1
  MaxTxRestarts = 0
  Faults = {"accountRestart", "gatewayCrash"}
SPECIFICATION Spec
INVARIANTS
  TypeOK
  BooksBalance
PROPERTY ImplementsBank
