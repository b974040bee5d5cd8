SPECIFICATION FairSpec
CONSTANTS
  Items = {i1, i2}
  None = None
  Steps = 4
  MaxVisits = 2
INVARIANTS
  TypeOK
  FormIsConsistent
  OneResourcePerVisit
  ErrorIsCurrent
PROPERTIES
  SentValuesAreValid
  TypedWorkIsKept
  CreateSettles
CHECK_DEADLOCK FALSE
