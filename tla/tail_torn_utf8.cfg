SPECIFICATION Spec
CONSTANTS
  c1 = c1
  c2 = c2
  Console <- OneConsole
  MaxEvents = 3
  Body <- TornBodies
  Hits <- TwoHits
  MaxStops = 1
  MaxCrashes = 0
  MaxTruncs = 0
  MaxFaults = 0
INVARIANT StartsOverOnlyTruncated
