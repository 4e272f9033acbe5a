\* Two images to sign, a session of three events, a terrain of two data sets, overlays over
\* two places, and two textures of two pixels.
SPECIFICATION MCSpec
CONSTANTS
  None = None
  Nothing = Nothing
  Hrefs = {a, b}
  Signable = {a}
  Public = {b}
  Features <- Features0
  Account = acc
  Margin = 1
  ClientMargin = 1
  PRESIGN_EXPIRES = 3
  PRESIGN_CACHE_TTL = 2
  PRESIGN_CACHE_MAXSIZE = 1
  Lives = {3}
  UnknownLife = 1
  GEOTIFF_SOURCE_CACHE_MAX = 1
  MaxTime = 3
  MaxSessions = 2
  MaxSearches = 1
  MaxResets = 1
  MaxOpens = 2
  Disturbances = 2
  Collections = {"naip", "ky"}
  Default = "naip"
  All = "all"
  Views = {"west", "east", "far"}
  Seen <- Seen0
  Wide <- Wide0
  Lake0 <- LakeFirst
  Later <- LakeLater
  Start = "east"
  MaxEvents = 3
  MaxRetries = 1
  Datasets = {"d", "e"}
  Absent = Absent
  Clear = Clear
  Positions = {"near", "far"}
  Home = "near"
  Covers <- Covers0
  Lod <- Lod0
  Split <- Split0
  Deferred = {"far"}
  Finest = 2
  Coarser = 1
  Readers = 1
  DrapeMax = 1
  MaxActs = 3
  MaxRefreshes = 3
  BroadActs = 2
  BroadRefreshes = 2
  MaxFaults = 1
  Places = {"p", "q", "r"}
  Near = {"p", "q"}
  MaxSteps = 6
  Regions = {"r", "s"}
  Pixels = {"x", "y"}
  Displays = {1, 2}
  Pool <- Pool0
  Overlap <- Overlap0
  Cover <- Cover0
  TileAt <- TileAt0
  Opaque <- Opaque0
  Size <- Size0
  MaxSources = 2
  MaxBytes = 3
  MaxCount = 2
  MaxBuilds = 2
  MaxChanges = 2
CHECK_DEADLOCK FALSE
INVARIANTS UrlsLapseUnused SourcesAgree PictureIsCurrent
  ClearedStaysCleared DrapesShown FootprintsFollow TexturesRight
