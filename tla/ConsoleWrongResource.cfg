SPECIFICATION Spec
CONSTANTS
  v1 = v1
  v2 = v2
  t1 = t1
  t2 = t2
  r1 = r1
  r2 = r2
  Views = {v1, v2}
  Tabs = {t1, t2}
  Resources = {r1, r2}
  TabOf <- MCOwnTabs
  ResOf <- MCOwnResources
  FailingViews = {}
  Closable = {}
  MaxClears = 2
  LossyClears = TRUE
  Nobody = Nobody
  Foreigners = {}
INVARIANTS
  SocketIsForThisResource
CHECK_DEADLOCK FALSE
