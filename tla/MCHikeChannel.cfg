SPECIFICATION FairSpec
CONSTANTS
  t1 = t1
  t2 = t2
  t3 = t3
  v1 = v1
  Zero = zero
  Threads <- Three
  Values <- One
  Program <- Parts
  Cap = 2
INVARIANTS TypeOK ChannelInv
PROPERTIES Linearizable CloseReleases SleepersWake
