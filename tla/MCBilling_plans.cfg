SPECIFICATION FairBillingSpec
CONSTANTS
  l1 = l1
  l2 = l2
  l3 = l3
  t1 = t1
  t2 = t2
  Landlords = {l1, l2, l3}
  Tiers = {starter, growth}
  Tabs = {t1, t2}
  FirstTier = starter
  ZoneOffset = 0
  MaxRetries = 1
  Casts <- PlansOrMonths
  Subscribed = {l2, l3}
  MaxSubs = 4
  MaxEvents = 3
  MaxUsage = 1
  MaxAdmin = 1
  MaxBreaks = 2
CHECK_DEADLOCK FALSE
INVARIANTS PlanKept 
PROPERTIES JobEnds
