CONSTANTS
  Setups <- SomeSetups
  MaxTries = 1
  MaxKills = 1
SPECIFICATION FairSpec
INVARIANTS
  Paired
  BackByAtMostOne
  UpMeansUp
PROPERTIES
  GetsThrough
  ScriptEnds
\* By hand everything may have ended, or have nothing left to do.
CHECK_DEADLOCK FALSE
