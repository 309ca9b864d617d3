SPECIFICATION ShopSpec
CONSTANTS
  Goods = {1, 2}
  Deals = {2}
  sale = sale
  Promos = {sale}
  Bound <- MCBound
  Screens = {m1, m2}
  PageSize = 1
  Bases = {1}
  Base = 2
  Digits = 2
  MaxUnlimited = 2
  MaxOrder = 2
  MaxStock = 1
  MaxEdits = 1
SYMMETRY Symmetric
INVARIANTS  QuantityTold
CHECK_DEADLOCK FALSE
