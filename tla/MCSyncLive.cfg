SPECIFICATION FairSpec
CONSTANTS
  a = a
  b = b
  c = c
  t1 = t1
  t2 = t2
  t3 = t3
  NoTrans = NoTrans
  Robots = {a, b}
  Transitions = {t1, t2}
  OutTransitions <- Pair
  CondValues <- Steady
  Leavers = {}
  MaxEntries = 1
  MaxInFlight = 10
  InitTicks = 0
  PeersBefore = 1
  PeersAfter = 0
  FailOnSyncTimeOut = FALSE
  LossyNetwork = FALSE
PROPERTIES TeamSynchronises OrphansCollected
CHECK_DEADLOCK FALSE
