SPECIFICATION Spec
CONSTANTS
  MaxAtts = 2
  MaxReqs = 1
INVARIANT TypeOK
PROPERTIES
  DetachesThePicked
  AttachesOnce
