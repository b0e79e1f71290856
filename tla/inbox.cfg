SPECIFICATION MCSpec
CONSTANTS
  none = none
  m1 = m1
  m2 = m2
  a1 = a1
  a2 = a2
  u1 = u1
  u2 = u2
  o1 = o1
  Messages = {m1, m2}
  Attempts = {a1, a2}
  None = none
  StaleAfter = 1
  Punctual = TRUE
  MaxTime = 4
INVARIANTS
  TypeOK
  OneAtATime
  CompletedIsApplied
PROPERTIES
  FailuresRetried
  PaidIsGranted
