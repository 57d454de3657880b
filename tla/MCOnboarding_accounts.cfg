SPECIFICATION Spec
CONSTANTS
  Ann = Ann
  ann = ann
  f1 = f1
  f2 = f2
  k1 = k1
  k2 = k2
  g1 = g1
  g2 = g2
  Emails = {Ann, ann}
  Lower <- LowerCase
  Forms = {f1, f2}
  EmailOf <- MixedCase
  Staff = {k1, k2}
  Signups = {g1, g2}
  Casts <- FormsOrStaff
  MaxApps = 2
  MaxInvites = 2
  Filled = {f2}
  MaxEdits = 2
  MaxFailures = 1
CHECK_DEADLOCK FALSE
INVARIANTS AppliedOnce 
