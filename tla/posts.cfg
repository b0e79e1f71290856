SPECIFICATION MCSpec
CONSTANTS
  none = none
  phone = phone
  web = web
  s1 = s1
  s2 = s2
  key1 = key1
  plain = plain
  edited = edited
  Clients = {phone, web}
  Sessions = {s1}
  RequestKeys = {key1}
  None = none
  MaxPosts = 2
  Interval = 1
  Lease = 1
  ReservationTTL = 1
  RetryBase = 1
  RetryMax = 1
  Profiles = {plain, edited}
  Punctual = FALSE
  MaxItems = 4
  MaxRevision = 5
  MaxTime = 2
INVARIANTS
  TypeOK
  NothingLost
  SharedCurrent
PROPERTIES
  DecidedOnce
  ClaimsResolve
  WorkersPay
