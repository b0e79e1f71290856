SPECIFICATION MCFairSpec
CONSTANTS
  alice = alice
  bob = bob
  none = none
  p1 = p1
  Characters = {alice}
  None = none
  MaxItems = 2
  MaxChanges = 2
  MaxAnswers = 1
  MaxRevision = 2
  Fans = {alice, bob}
  Targets = {p1}
  AnswersLost = TRUE
  MaxUpdates = 2
  Own = {alice, bob}
  FollowersOf <- FollowersOfAlice
  MaxAsked = 5
INVARIANTS
  TypesOK
  AnswersSettle
PROPERTIES
  LikesShown
  NothingLost
  ChangesDecided
