SPECIFICATION Spec
CONSTANTS
  Tabs = {t1}
  MaxSessions = 1
  MaxStates = 1
  MaxGen = 1
  Rotates = TRUE
  Impatient = {}
PROPERTIES
  LogoutReachesKeycloak
