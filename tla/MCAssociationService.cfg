SPECIFICATION ServiceSpec
CONSTANTS
  Texts <- AllTexts
  Clients = {c1, c2}
  SeedRows <- NoRows
  FirstId = 1
  Inputs <- AtraTwice
  RequestHosts <- Hosts
  MaxFaults = 1
  MaxId = 3
INVARIANTS
  IdNamesOneAssociation
  CallInv
PROPERTIES
  EveryCallReturns
  ImplementsRegistry
