\* Two requests of one session at once, for two reports of which one is kept, and
\* of two pages of it while the reference data is reloaded twice.
SPECIFICATION MCSpec
CONSTANTS
  case1 = case1
  nsip = nsip
  local = local
  u1 = u1
  u2 = u2
  u3 = u3
  u4 = u4
  r1 = r1
  r2 = r2
  t1 = t1
  None = None
  Requests = {r1, r2}
  Sessions = {t1}
  Urls = {u1, u3}
  Cases = {case1}
  Rulesets = {nsip, local}
  CaseOf <- MCCaseOf
  RulesetOf <- MCRulesetOf
  Kinds = {"page", "created", "download"}
  MaxAge = 2
  MaxRemembered = 1
  MaxTime = 4
  MaxData = 2
SYMMETRY RequestSymmetry
INVARIANTS TypeOK OwnCaseAndRuleset FewRemembered
PROPERTY PicksUpReloads
