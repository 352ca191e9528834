CONSTANTS
  Runs = {r1, r2}
  NoRun = NoRun
  Channels = 2
  Waits = {1, 3}
  MaxWait = 2
  MaxTotal = 3
  MaxSize = 2
SPECIFICATION Spec
PROPERTY AbortedRunSendsNothing
