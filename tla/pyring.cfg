\* A C reader on a ring written by a Python worker.
CONSTANTS
  NSlots = 2
  MaxAttempts = 1
  MaxFrames = 3
  MaxGen = 2
  pixels = pixels
  viewer = viewer
  worker = worker
  Payload <- OnePayload
  CReaders <- Viewer
  PyReaders <- Nobody
SPECIFICATION Spec
INVARIANTS
  TypeOK
  PromptReadIsWhole
  LatestIsWhole
\* The bounds stop the writer, and a reader is not obliged to call.
CHECK_DEADLOCK FALSE
