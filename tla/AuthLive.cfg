SPECIFICATION FairSpec
CONSTANTS
  Tabs = {t1}
  MaxSessions = 2
  MaxStates = 3
  MaxGen = 1
  Rotates = TRUE
  Impatient = {}
PROPERTIES
  LoadSettles
  LogoutSettles
