SPECIFICATION MCSpec
CONSTANTS
  first = first
  second = second
  nobody = nobody
  h1 = h1
  h2 = h2
  Users = {first}
  NoUser = nobody
  NumOrders = 1
  Handlers = {h1, h2}
  Provider <- AppleOrder
  Subject <- Subjects
  OrderSubject <- FirstBuys
  Credits <- TenEach
  FirstUsers = {first}
  Prices = {}
  MaxEvents = 3
INVARIANTS
  GrantPays
CHECK_DEADLOCK FALSE
