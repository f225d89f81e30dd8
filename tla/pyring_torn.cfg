\* A lapped reader of a Python ring.
CONSTANTS
  NSlots = 4
  MaxAttempts = 8
  MaxFrames = 5
  MaxGen = 1
  pixels = pixels
  viewer = viewer
  worker = worker
  Payload <- OnePayload
  CReaders <- Viewer
  PyReaders <- Nobody
SPECIFICATION Spec
INVARIANTS
  NoTornFrame
\* The bounds stop the writer, and a reader is not obliged to call.
CHECK_DEADLOCK FALSE
