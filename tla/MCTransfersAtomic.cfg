\* No fault: the saga against the atomic transfer it stands for.
CONSTANTS
  acc001 = acc001
  acc002 = acc002
  t1 = t1
  t2 = t2
  Accounts <- MCAccounts
  Seed = acc001
  Opening <- MCOpening
  BrokerFails = TRUE
  MaxRestarts = 0
  Transfers <- MCTransfers
  Bodies <- MCBodies
  Faults = {}
SPECIFICATION Spec
INVARIANT Conservation
PROPERTY ImplementsAtomicTransfers
