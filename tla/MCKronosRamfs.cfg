SPECIFICATION PoliteSpec
CONSTANTS
  ca = ca  cb = cb  co = co  x = x  y = y
  NoPath = NoPath  NoFile = NoFile
  Paths <- AllPaths  Names <- AllNames  Dirs <- MCDirs
  BlobPath <- MCBlobPath  BlobData <- MCBlobData
  Byte <- MCByte  Tags = {y}  Junk = x  Zero = x
  LastFd = 4  NExtra = 1  ICap = 1  GrowMax = 1  WordSize = 4
  Modes <- MCNoPlainWrite  Counts <- MCCounts  Offsets = {1}  MaxBufs = 3
INVARIANT DescriptorsAgree
PROPERTY ImplementsFileStore
