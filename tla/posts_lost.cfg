SPECIFICATION LostSpec
CONSTANTS
  none = none
  phone = phone
  web = web
  s1 = s1
  s2 = s2
  key1 = key1
  plain = plain
  edited = edited
  Clients = {phone}
  Sessions = {s1}
  RequestKeys = {key1}
  None = none
  MaxPosts = 3
  Interval = 2
  Lease = 2
  ReservationTTL = 1
  RetryBase = 1
  RetryMax = 2
  Profiles = {plain}
  Punctual = TRUE
  MaxItems = 3
  MaxRevision = 4
  MaxTime = 0
INVARIANTS
  NothingLost
