SPECIFICATION Spec
CONSTANTS
  a = a
  b = b
  c = c
  t1 = t1
  t2 = t2
  t3 = t3
  NoTrans = NoTrans
  Robots = {a, b}
  Transitions = {t1, t2}
  OutTransitions <- Pair
  CondValues <- OneFickle
  Leavers = {}
  MaxEntries = 1
  MaxInFlight = 2
  InitTicks = 3
  PeersBefore = 0
  PeersAfter = 0
  FailOnSyncTimeOut = FALSE
  LossyNetwork = TRUE
INVARIANTS ReadyIsComplete SynchedMeansAgreed
PROPERTIES ImplementsAgreement ParticipantsFrozen
CHECK_DEADLOCK FALSE
