SPECIFICATION Spec
CONSTANTS
  v1 = v1
  t1 = t1
  x1 = x1
  x2 = x2
  x3 = x3
  caller = caller
  d1 = d1
  d2 = d2
  Casts <- CallAndText
  Calls = {v1, t1}
  Texts = {t1}
  Slots = {x1, x2, x3}
  CallOf <- TwoAndOne
  PhoneOf <- OnePhone
  Phones = {caller}
  Keys = {n, c1, c2}
  Custom = {c1, c2}
  Required = {c1}
  Reviewers = {d1, d2}
  MaxApps = 2
  MaxFns = 3
  MaxReviews = 2
CHECK_DEADLOCK FALSE
INVARIANTS AnswersKept DecisionStands 
