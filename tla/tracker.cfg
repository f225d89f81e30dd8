\* The code's gates in degrees; ticks of 0.4 s; a table of two tracks.
CONSTANTS
  MaxTracks = 2
  MergeGate = 20
  TrackGate = 22
  SeamGate = 40
  Stale = 2
  Hold = 3
  GraveLife = 10
  Scenes <- SomeScenes
  Steps = {1, 4}
  MaxChanges = 3
SPECIFICATION FairSpec
INVARIANTS
  TypeOK
  IdsUnique
  OverlapMerged
PROPERTIES
  NeverReused
  MatchedLeftAlone
  HeldOrTraded
  Settles
  NearestHeard
