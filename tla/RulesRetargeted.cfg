SPECIFICATION Spec
CONSTANTS
  Tabs = {t1, t2}
  Directions = {"ingress"}
  Initial <- TwoRules
  MaxSaves = 2
  Hasty = {}
INVARIANT DeletesTheRulePicked
