\* Every fault at once, one restart of account-service.
CONSTANTS
  acc001 = acc001
  acc002 = acc002
  t1 = t1
  t2 = t2
  Accounts <- MCAccounts
  Seed = acc001
  Opening <- MCOpening
  BrokerFails = FALSE
  MaxRestarts = 1
  Transfers <- MCTransfers
  Bodies <- MCBodies
  Faults = {"timeout", "loss", "accountRestart", "gatewayCrash"}
SPECIFICATION Spec
INVARIANTS
  TypeOK
  CompletedMeansMoved
  SagaOrder
  AllOrNothing
  CreatedOnlyInDoubt
  BalancesMatchLegs
PROPERTY EveryTransferEnds
