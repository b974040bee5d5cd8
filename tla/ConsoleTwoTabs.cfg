SPECIFICATION FairSpec
CONSTANTS
  v1 = v1
  v2 = v2
  t1 = t1
  t2 = t2
  r1 = r1
  r2 = r2
  Views = {v1, v2}
  Tabs = {t1, t2}
  Resources = {r1}
  TabOf <- MCOwnTabs
  ResOf <- MCOneResource
  FailingViews = {v1}
  Closable = {t1}
  MaxClears = 2
  LossyClears = TRUE
  Nobody = Nobody
  Foreigners = {f1}
INVARIANTS
  TypeOK
  NoOrphanSocket
  NoOrphanLock
  IdleHoldsNothing
  LiveSocketIsLocked
PROPERTIES
  ImplementsLifecycle
  EvictionFollowsTakeOver
  ConnectingSettles
  GoneViewFreesLock
CHECK_DEADLOCK FALSE
