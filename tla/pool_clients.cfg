SPECIFICATION Spec
CONSTANTS
  MaxFrames = 2
  MaxPages = 3
  Contents = {z, c}
  ZeroPage = z
  MaxHeld = 2
  SpareUnpins = TRUE
  RaisingPages = {1}
  MaxRaised = 1
  MaxBusy = 3
INVARIANTS
  TypeOK
  PageInOneFrame
  CleanMeansOnDisk
  DirtyPagesExist
  PinsAreReturned
  FlushReachesDisk
  RestartSeesFile
PROPERTIES
  PinnedFrameStays
  ImplementsPageStore
