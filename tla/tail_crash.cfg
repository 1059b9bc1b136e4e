SPECIFICATION FairSpec
CONSTANTS
  c1 = c1
  c2 = c2
  Console <- OneConsole
  MaxEvents = 3
  Body <- AsciiBodies
  Hits <- TwoHits
  MaxStops = 2
  MaxCrashes = 2
  MaxTruncs = 1
  MaxFaults = 1
INVARIANTS TypeOK TornLosesOne RowsBounded FaultLosesOne
PROPERTIES NeverRewinds EveryLineRecorded CatchesUp
