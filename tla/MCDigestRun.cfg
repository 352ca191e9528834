CONSTANTS
  Runs = {r1, r2}
  NoRun = NoRun
  Channels = 2
  Waits = {1, 2}
  MaxWait = 1
  MaxTotal = 1
  MaxSize = 2
SPECIFICATION FairSpec
INVARIANTS
  FlagTracksTheRun
  OutcomeIsTold
PROPERTIES
  AbortEndsCollection
  EveryRunEnds
