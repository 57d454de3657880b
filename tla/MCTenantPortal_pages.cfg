SPECIFICATION PortalSpec
CONSTANTS
  t1 = t1
  t2 = t2
  d1 = d1
  r1 = r1
  r2 = r2
  Tabs = {t1, t2}
  Desks = {d1}
  Reqs = {r1, r2}
  Due = 3
  Amounts = {2}
  Casts <- RentPlays
  CareCasts <- CarePlays
  Meet <- Pairs
SYMMETRY Sym
CHECK_DEADLOCK FALSE
INVARIANTS SentOnce  ResolvedWhenDone NoticeTexts
