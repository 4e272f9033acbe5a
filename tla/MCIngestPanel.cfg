\* Two jobs compete for a registry of one record, beside two searches or the panel.
SPECIFICATION MCSpec
CONSTANTS
  j1 = j1
  j2 = j2
  s1 = s1
  s2 = s2
  None = None
  Jobs = {j1, j2}
  Searches = {s1, s2}
  MaxJobs = 1
  Ttl = 2
  MaxTime = 3
  MaxReloads = 1
  MaxFaults = 1
SYMMETRY Symmetry
CHECK_DEADLOCK FALSE
INVARIANTS RegistryBounded OutcomeStands IngestsSurface
PROPERTIES StalenessCeiling
