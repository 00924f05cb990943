SPECIFICATION Spec
CONSTANTS
  Texts <- AllTexts
  Clients = {r1, r2}
  SeedRows <- NoRows
  FirstId = 1
  Inputs <- NoInputs
  RequestHosts <- NoInputs
  MaxFaults = 2
  MaxId = 10
  Acronyms <- Posted
  Lower <- DatabaseOf
  NoName = NoName
  ShortNames <- ShortNamesSeen
  WebHost <- WebHosts
  RailsTables <- AtraChanging
  Attempts = 2
  MaxConnections = 2
INVARIANTS
  TypeOK
  NoCrossAssociation
  OneSnapshot
  NoHoles
  AllOrNothing
  NothingCopiedOnlyWhenRefused
  OnlyFindLeaks
PROPERTIES
  EveryRequestAnswered
  ImplementsCopyJob
