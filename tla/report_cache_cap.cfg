\* One request at a time, for four reports, with the cap the code has.
SPECIFICATION Spec
CONSTANTS
  case1 = case1
  nsip = nsip
  local = local
  u1 = u1
  u2 = u2
  u3 = u3
  u4 = u4
  r1 = r1
  r2 = r2
  t1 = t1
  None = None
  Requests = {r1}
  Sessions = {t1}
  Urls = {u1, u2, u3, u4}
  Cases = {case1}
  Rulesets = {nsip, local}
  CaseOf <- MCCaseOf
  RulesetOf <- MCRulesetOf
  Kinds = {"created"}
  MaxAge = 2
  MaxRemembered = 5
  MaxTime = 0
  MaxData = 0
SYMMETRY RequestSymmetry
PROPERTY DroppedOnlyAtCap
