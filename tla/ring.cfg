\* A C reader on a two-slot ring; the writer may die anywhere and be restarted.
CONSTANTS
  NSlots = 2
  MaxAttempts = 2
  MaxFrames = 3
  MaxGen = 2
  pixels = pixels
  viewer = viewer
  worker = worker
  Payload <- OnePayload
  CReaders <- Viewer
  PyReaders <- Nobody
SPECIFICATION FairSpec
INVARIANTS
  TypeOK
  NoTornFrame
  LatestIsWhole
  MagicIsLast
PROPERTIES
  ImplementsRegister
  ReadableAfterCrash
\* The bounds stop the writer, and a reader is not obliged to call.
CHECK_DEADLOCK FALSE
