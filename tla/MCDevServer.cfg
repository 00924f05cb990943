SPECIFICATION Spec
CONSTANTS
  s1 = s1
  s2 = s2
  Servers = {s1, s2}
  Ports = {3000, 3001}
  Settings <- MCSettings
  Nobody = Nobody
  Other = Other
INVARIANTS
  AnnouncedIsServed
PROPERTIES
  StartSettles
  OrphanEnds
