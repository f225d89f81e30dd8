\* Re-initialisation under an attached reader.
CONSTANTS
  NSlots = 4
  MaxAttempts = 8
  MaxFrames = 1
  MaxGen = 2
  pixels = pixels
  viewer = viewer
  worker = worker
  Payload <- OnePayload
  CReaders <- Viewer
  PyReaders <- Nobody
SPECIFICATION Spec
INVARIANTS
  NoFrameOutOfThinAir
\* The bounds stop the writer, and a reader is not obliged to call.
CHECK_DEADLOCK FALSE
