SPECIFICATION FairSpec
CONSTANTS
  Tabs = {t1}
  Directions = {"ingress", "egress"}
  Initial <- TwoRules
  MaxSaves = 2
  Hasty = {}
INVARIANTS KeptRulesStay HitsTheRulePicked
PROPERTY DialogSettles
