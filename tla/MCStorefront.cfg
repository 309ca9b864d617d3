CONSTANTS
  NULL = NULL
  anna = anna
  ben = ben
  key = key
  k1 = k1
  k2 = k2
  sale = sale
  Users = {anna, ben}
  Items = {key}
  Values = {k1, k2}
  Home <- MCHome
  Infinite = {}
  Price <- MCPrice
  Promos = {sale}
  Discount <- MCDiscount
  Drafts = {}
  Schemas = {f1}
  Quantities = {1, 2}
  Amounts = {4}
  MaxBalance = 6
  InitialBalance <- MCInitialBalance
  InitialMode <- MCInitialMode
  CartMax = 2
  MaxRows = 2
SPECIFICATION Spec
INVARIANTS
  SoldOnce
  UsesCounted
  
CHECK_DEADLOCK FALSE
