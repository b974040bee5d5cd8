SPECIFICATION Spec
CONSTANTS
  Tabs = {a}
  MaxSaves = 2
  Others = Others
PROPERTY NoLostUpdate
CHECK_DEADLOCK FALSE
