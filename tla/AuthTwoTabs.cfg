SPECIFICATION Spec
CONSTANTS
  Tabs = {t1, t2}
  MaxSessions = 2
  MaxStates = 2
  MaxGen = 1
  Rotates = TRUE
  Impatient = {t1, t2}
SYMMETRY MCTabs
INVARIANTS
  TypeOK
  OneSession
  OwnVerifier
  SignedOutStaysOut
  ShownUserActs
