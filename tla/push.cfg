SPECIFICATION IngestFairSpec
CONSTANTS
  MaxEvents = 2
  Hits <- HitsOfTwo
  MaxCrashes = 1
  MaxFaults = 1
  MaxCopies = 2
\* After the last process creation the agent waits for ever.
CHECK_DEADLOCK FALSE
INVARIANTS IngestInv PushedOnce AcceptedIsComplete LogComesFirst RowsPerCopy
PROPERTIES OnlyLookupHangs CopyRecovers
