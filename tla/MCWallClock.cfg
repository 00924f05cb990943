SPECIFICATION Spec
CONSTANTS
  Days <- Week
  Hours <- AllHours
  Minutes <- AllMinutes
  Batch = 1
  Transitions <- Pacific
INVARIANTS
  WallClockKept
