\* A reply may take longer than the timeout: the docstring is not kept.
CONSTANTS
  acc001 = acc001
  acc002 = acc002
  t1 = t1
  t2 = t2
  Accounts <- MCAccounts
  Seed = acc001
  Opening <- MCOpening
  BrokerFails = FALSE
  MaxRestarts = 0
  Transfers <- MCTransfers
  Bodies <- MCBodies
  Faults = {"timeout"}
SPECIFICATION Spec
INVARIANT DocumentedAtomicity
