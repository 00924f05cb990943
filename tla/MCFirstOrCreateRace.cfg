SPECIFICATION ServiceSpec
CONSTANTS
  Texts <- AllTexts
  Clients = {c1, c2}
  SeedRows <- NoRows
  FirstId = 1
  Inputs <- AtraOnly
  RequestHosts <- NoInputs
  MaxFaults = 0
  MaxId = 3
INVARIANTS
  FirstOrCreateSaves
