SPECIFICATION DeskSpec
CONSTANTS
  p1 = p1
  p2 = p2
  t1 = t1
  t2 = t2
  r1 = r1
  r2 = r2
  n1 = n1
  n2 = n2
  Props = {p1, p2}
  Tabs = {t1, t2}
  Reqs = {r1, r2}
  Std = 1
  MaxPhotos = 2
  MaxQuest = 4
  Nums = {n1, n2}
  Env <- NoEnv
  Forms <- Typed
  MaxValue = 2
  MaxBought = 3
  ListCasts <- DeskPlays
  LineCasts <- PhonePlays
  Meet <- Pairs
SYMMETRY Sym
INVARIANTS OrdersDistinct CapsBounded DraftKeepsQuestions   
CHECK_DEADLOCK FALSE
