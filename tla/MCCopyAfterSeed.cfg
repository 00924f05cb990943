SPECIFICATION Spec
CONSTANTS
  Texts <- AllTexts
  Clients = {r1}
  SeedRows <- SeedSql
  FirstId = 1
  Inputs <- NoInputs
  RequestHosts <- NoInputs
  MaxFaults = 0
  MaxId = 10
  Acronyms <- OneAcronym
  Lower <- DatabaseOf
  NoName = NoName
  ShortNames <- ShortNamesSeen
  WebHost <- WebHosts
  RailsTables <- TwoEvents
  Attempts = 2
  MaxConnections = 3
INVARIANTS
  CopyCopies
