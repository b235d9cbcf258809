SPECIFICATION FairSpec
CONSTANTS
  a1 = a1  m1 = m1  u1 = u1  u2 = u2  f1 = f1  f2 = f2  g1 = g1  g2 = g2
  None = None
  Previews <- OneAuto
  Manual <- OneManual
  Posted <- TwoFiles
  Uploads <- TwoUploads
  Fresh <- TwoFresh
  MaxTransfers = 2
  MaxRejects = 1
  MaxPurges = 1
  MaxSessions = 2
INVARIANTS CacheGenuine OwnFrameUnlessSlipped ReaderHasFrame UploadsIntact
PROPERTIES TransfersReturn
CHECK_DEADLOCK FALSE
