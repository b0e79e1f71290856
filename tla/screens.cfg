SPECIFICATION MCSpec
CONSTANTS
  Accounts = {alice}
  Revisions = {1, 2}
  PageSize = 1
  Controllers = {c1, c2}
  MaxPosts = 2
  alice = alice
  bob = bob
  None = None
  c1 = c1
  c2 = c2
  o1 = o1
  o2 = o2
SYMMETRY Symmetry
INVARIANTS
  TypesOK
  ListsTrue
  RelationsTrue
  StoresTrue
  CharactersTrue
  ScreensTrue
PROPERTIES
  ScreensKeep
