\* The prop of a COGLayer changes while its file is being opened.
SPECIFICATION MCSpec
CONSTANTS
  None = None
  MaxTiles = 1
  CogFiles <- CogFiles0
  CogProps <- CogProps0
  CogChanges = 3
  MultiFiles <- MultiFiles0
  MultiNames <- MultiNames0
  MultiProps <- MultiProps0
  MultiChanges = 2
  Unset = None
  Lists <- Lists0
  Viewports <- Viewports0
  MinZoom = 2
  MaxZoom = 3
  Buffer = 1
  MosaicChanges = 3
  Pyramids <- Pyramids0
  TileViews <- TileViews0
  ZRanges = {0, 2}
  MinTileZoom = 1
  MaxTileZooms = {2, 9}
  WorldWidth = 8
  WorldHeight = 4
  MAX_ROOT_TILES_NO_CULL = 8
  MAX_MAPS = 2
  MaxEntries = 6
  MaxTileRequests = 3
  MaxTileCalls = 3
  Side = 72
  Warps <- Warps0
  MaxError = 1
  MaxIterations = 14
  NaN = NaN
  Returns <- Returns0
  MaxWaiters = 4
  Absent = Absent
  Pictures <- Pictures0
  Content <- Content0
  Valid <- Valid0
  Entry <- Entry0
  Domains <- Domains0
CHECK_DEADLOCK FALSE
INVARIANTS ShowsItsProp
