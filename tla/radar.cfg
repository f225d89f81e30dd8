CONSTANTS
  Scenes <- SomeScenes
  Interval <- SomeIntervals
  Delays = {1, 2}
SPECIFICATION Spec
INVARIANTS
  MostUrgentFirst
  SoundHasCause
  Cadence
