\* A listing that began before an ingest wrote is stored after its reset.
SPECIFICATION Spec
CONSTANTS
  j1 = j1
  j2 = j2
  s1 = s1
  s2 = s2
  None = None
  Jobs = {j1, j2}
  Searches = {s1, s2}
  MaxJobs = 1
  Ttl = 2
  MaxTime = 3
SYMMETRY Symmetry
CHECK_DEADLOCK FALSE
INVARIANTS FreshAfterIngest
