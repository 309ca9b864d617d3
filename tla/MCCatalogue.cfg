CONSTANTS
  soap = soap
  comb = comb
  next = next
  top = top
  sub = sub
  one = one
  two = two
  f0 = f0
  f1 = f1
  f2 = f2
  a = a
  b = b
  None = None
  none = none
  good = good
  Texts = {none, good}
  r1 = r1
  r5 = r5
  Ratings = {r1, r5}
  Goods <- MCGoods
  Cats <- MCCats
  Items <- MCItems
  i1 = i1
  i2 = i2
  Names <- MCNames
  Files <- MCFiles
  Values <- MCValues
  FirstRows <- MCFirstRows
  FirstSales <- MCFirstSales
  MaxTyped = 1
  MaxSaves = 2
  MaxBegun = 3
SPECIFICATION CatalogueSpec
SYMMETRY MCSymmetry
INVARIANTS
  ImageThere
  SubmittedAsShown
CHECK_DEADLOCK FALSE
