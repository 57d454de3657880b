SPECIFICATION FairLeaseSpec
CONSTANTS
  p1 = p1
  p2 = p2
  s1 = s1
  t1 = t1
  t2 = t2
  None = None
  Units = {u1}
  Tenants = {t1, t2}
  Pages = {p1, p2}
  Depositors = {t1}
  Scripts = {s1}
  TenantOf <- TwoPages
  MaxLeases = 3
  MaxDay = 1
  MaxDeaths = 1
  MaxActs <- Acts
  StatementDays = 0
  ReturnDays = 1
CHECK_DEADLOCK FALSE
INVARIANTS  TermLostOnlyMidRun
PROPERTIES JobsCatchUp
