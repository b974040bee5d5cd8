SPECIFICATION Spec
CONSTANTS
  Tabs = {t1}
  Directions = {"ingress"}
  Initial <- NoRules
  MaxSaves = 3
  Hasty = {t1}
INVARIANTS TypeOK OwnSavesShown
