SPECIFICATION PartsSpec
CONSTANTS
  Keys = {k1}
  Callers = {c1, c2}
  TTL = 2
  FetchTime = 2
  Attempts <- MCAttempts
  MaxTime = 8
  MaxSockets = 3
  MaxFrames = 3
INVARIANTS
  PartsTypeOK
  AnswersAreRecent
  SpeaksForItsSession
  InArrivalOrder
PROPERTIES
  CreatesDisjoint
  FreshSavesUndoNothing
  EditsAreKept
  MountedSettles
  OutputGoesOn
CHECK_DEADLOCK FALSE
