\* The code's angles and margins, ticks of a second, a short cooldown.
CONSTANTS
  MaxTracks = 2
  MergeGate = 20
  TrackGate = 22
  SeamGate = 40
  Stale = 1
  Hold = 1
  GraveLife = 1
  FreshFor = 2
  OpenRetry = 1
  StickyGate = 25
  StickyMargin = 8
  Edge = 18
  Hyst = 6
  NotifyMin = 35
  Cooldown = 1
  ClipLen = 3
  OnDisk <- SomeFiles
  Block = 2
  Wrap = 3
  Preamble = 2
  Buffer = 1
  Spoilt = 1
  MaxFaults = 1
  ToneLen = 3
  Setups <- SomeSetups
  Found <- SomeFound
  Reports <- SomeReports
  MaxReports = 3
SPECIFICATION Spec
INVARIANTS
  GhostBounded
  SilenceHasCause
  OutputWhole
PROPERTIES
  VoiceDoesNotJump
  NoFlutter
  ClipStartsInEar
