SPECIFICATION FairSpec
CONSTANTS
  events = events
  host = host
  r1 = r1
  r2 = r2
  Host = host
  Events = events
  Refresh <- Two
  Part <- TwoParts
  FirstStored = 0
  MaxStored = 2
  Named = {1}
  Text <- Texts
  Example <- Chips
  Hits <- TheHits
  Undrawable = {1}
INVARIANT SampleRowsMarked
PROPERTY BecomesCurrent
