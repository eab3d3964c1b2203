SPECIFICATION Spec
CONSTANTS
  i1 = i1
  i2 = i2
  i3 = i3
  Images <- MCImages
  Processes = {p1, p2}
  Lists <- MCLists
  MaxEntries = 2
  MaxWorkers = 2
  MaxCalls = 2
  MaxKills = 1
  MaxRemovals = 1
SYMMETRY Symmetry
INVARIANTS
  CachedIsVerified
  CacheBounded
  VerdictSound
  NeverStuck
