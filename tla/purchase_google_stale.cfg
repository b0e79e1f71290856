SPECIFICATION MCSpec
CONSTANTS
  first = first
  second = second
  nobody = nobody
  h1 = h1
  h2 = h2
  Users = {first}
  NoUser = nobody
  NumOrders = 1
  Handlers = {h1, h2}
  Provider <- GoogleOrder
  Subject <- Subjects
  OrderSubject <- FirstBuys
  Credits <- TenEach
  FirstUsers = {first}
  Prices = {}
  MaxEvents = 3
INVARIANTS
  RefundTakesAll
CHECK_DEADLOCK FALSE
