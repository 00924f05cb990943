SPECIFICATION RootSpec
CONSTANTS
  Texts <- AllTexts
  Clients = {r1, r2}
  SeedRows <- NoRows
  FirstId = 1
  Inputs <- NoInputs
  RequestHosts <- NoInputs
  MaxFaults = 1
  MaxId = 10
  Acronyms <- Posted
  Lower <- DatabaseOf
  NoName = NoName
  ShortNames <- ShortNamesSeen
  WebHost <- WebHosts
  RailsTables <- Tables
  Attempts = 1
  MaxConnections = 4
  Visitors = {v1}
  Hosts <- AskedHosts
  Catches <- RegularExpressions
  Breaks = {"100%"}
INVARIANTS
  OneAssociation
  CopiedIsShown
  BeginningOfCopy
