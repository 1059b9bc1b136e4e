SPECIFICATION Spec
CONSTANTS
  c1 = c1
  c2 = c2
  Console <- TwoConsoles
  MaxEvents = 3
  Body <- Utf8Bodies
  Hits <- TwoHits
  MaxStops = 1
  MaxCrashes = 1
  MaxTruncs = 0
  MaxFaults = 0
CONSTRAINT Intact
INVARIANTS IInv NothingSkipped OffsetOnBoundary
PROPERTY ImplementsAtLeastOnce
SYMMETRY Consoles
