SPECIFICATION Spec
CONSTANTS
  ca = ca  cb = cb  co = co  x = x  y = y
  NoPath = NoPath  NoFile = NoFile
  Paths <- MCPaths  Names <- MCNames  Dirs <- MCDirs
  BlobPath <- MCBlobPath  BlobData <- MCBlobData
  Byte <- MCByte  Tags = {y}  Junk = x  Zero = x
  LastFd = 4  NExtra = 2  ICap = 1  GrowMax = 1  WordSize = 4
  Modes <- MCModes  Counts <- MCCounts  Offsets <- MCOffsets  MaxBufs = 3
INVARIANTS TypeOK InBounds OwnStorage
PROPERTY OneFileAtATime
VIEW CodeState
