\* Two ingests and the migration beside each other; the refresh and the rewriting;
\* two requests that share a connection.
SPECIFICATION MCSpec
CONSTANTS
  None = None
  Nothing = Nothing
  Bucket <- Bucket0
  Ingests = {i1, i2}
  Migration = migration
  Requests <- Requests0
  Stac <- Stac0
  OldLayout <- Old0
  Files <- Files0
  Live <- Live0
  Known <- Known0
  Roots <- Roots0
  YearsFrom = 2022
  Published <- Published0
  VectorSize = 2
  Queries = {r1, r2}
  NoCon = NoCon
  MaxKeys = 2
  MaxCons = 3
  MaxCalls = 3
SYMMETRY Sym
CHECK_DEADLOCK FALSE
INVARIANTS IndexRefreshed QueriesHeal
PROPERTIES IngestReplaces StrictIsComplete AskedOnly MigrationVerified LayoutOnly
