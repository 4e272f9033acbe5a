\* Two calls read tiles of one file of eight bytes through two workers.
SPECIFICATION Spec
CONSTANTS
  c1 = c1
  c2 = c2
  None = None
  Calls = {c1, c2}
  Files <- Files0
  Requests <- Requests0
  Size = 8
  Coalesce = 1
  MaxRange = 3
  Parallel = 2
  Workers = 2
CHECK_DEADLOCK FALSE
INVARIANTS OwnPixels RequestsSound
PROPERTIES CallsSettle
