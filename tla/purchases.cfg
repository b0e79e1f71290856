SPECIFICATION MCSpec
CONSTANTS
  first = first
  second = second
  nobody = nobody
  h1 = h1
  h2 = h2
  Users = {first, second}
  NoUser = nobody
  NumOrders = 2
  Handlers = {h1}
  Provider <- TossOrders
  Subject <- Subjects
  OrderSubject <- PersonBuys
  Credits <- TenEach
  FirstUsers = {first}
  Prices = {6}
  MaxEvents = 3
INVARIANTS
  TypeOK
  RefundTakesAll
  BalancesExplained
PROPERTIES
  EachOrderOnce
  StoresSettled
CHECK_DEADLOCK FALSE
