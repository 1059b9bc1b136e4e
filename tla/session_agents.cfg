\* An agent may listen for ever: a behaviour may end there.
SPECIFICATION FairSpec
CONSTANTS
  a1 = a1
  a2 = a2
  Agent <- TwoAgents
  MaxSessions = 4
  MaxInterrupts = 2
  MaxKills = 1
CHECK_DEADLOCK FALSE
INVARIANTS IInv NoOrphanSession
PROPERTIES NeverDeaf StaleNeverBlocks
