CONSTANTS
  NULL = NULL
  anna = anna
  guide = guide
  skin = skin
  g1 = g1
  s1 = s1
  s2 = s2
  gift = gift
  fan = fan
  Users = {anna}
  Items = {guide, skin}
  Values = {g1, s1, s2}
  Home <- MCHome
  Infinite = {g1}
  Price <- MCPrice
  Promos = {gift}
  Discount <- MCDiscount
  Drafts = {d1, d2}
  Schemas = {f1}
  Quantities = {1, 2}
  Amounts = {}
  MaxBalance = 0
  InitialBalance <- MCInitialBalance
  InitialMode <- MCInitialMode
  CartMax = 0
  MaxRows = 2
SPECIFICATION Spec
INVARIANTS
  DraftsPayOnce
  OrdersDelivered
CHECK_DEADLOCK FALSE
