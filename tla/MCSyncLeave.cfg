SPECIFICATION Spec
CONSTANTS
  a = a
  b = b
  c = c
  t1 = t1
  t2 = t2
  t3 = t3
  NoTrans = NoTrans
  Robots = {a, b}
  Transitions = {t1, t2}
  OutTransitions <- Pair
  CondValues <- Steady
  Leavers = {b}
  MaxEntries = 2
  MaxInFlight = 2
  InitTicks = 3
  PeersBefore = 1
  PeersAfter = 0
  FailOnSyncTimeOut = TRUE
  LossyNetwork = TRUE
INVARIANT AgreementInv
CHECK_DEADLOCK FALSE
