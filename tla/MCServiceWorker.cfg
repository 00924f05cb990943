SPECIFICATION Spec
CONSTANTS
  Tabs = {t1, t2}
  LastVersion = 3
  Sites <- MCSites
  MaxFaults = 1
INVARIANTS
  TypeOK
  UpdateWaits
  SuccessIsCached
  CachedPageWhole
PROPERTIES
  EveryPageSettles
  WorkerGoesAway
