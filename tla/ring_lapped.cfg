\* A Python reader, lapped on a three-slot ring written by C, with a restart.
CONSTANTS
  NSlots = 3
  MaxAttempts = 2
  MaxFrames = 5
  MaxGen = 2
  pixels = pixels
  viewer = viewer
  worker = worker
  Payload <- OnePayload
  CReaders <- Nobody
  PyReaders <- Worker
SPECIFICATION Spec
INVARIANTS
  Freshness
  NoMissedFrame
  RacedMeansLapped
PROPERTIES
  BackwardsByAtMostOne
\* The bounds stop the writer, and a reader is not obliged to call.
CHECK_DEADLOCK FALSE
