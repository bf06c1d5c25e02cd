SPECIFICATION ShopSpec
CONSTANTS
  Categories = {1, 2, 3}
  Products = {1}
  Requests = {p1, p2}
  MaxDepth = 2
  None = None
  ShopIds = {e1, e2}
  Numbers <- TwoNumbers
  Skus = {k1}
  Bodies <- TwoBodies
  Patches <- FourPatches
  Names = {Cherry, cherry, dots}
  Slugs = {SlugCherry}
  SlugOf <- ThreeSlugs
  Cities = {1, 2}
  Stores = {1, 2}
  CityNames = {"kaunas", "vilnius"}
  Weeks = {"w1", "w2"}
  Cherry = Cherry
  cherry = cherry
  dots = dots
  SlugCherry = SlugCherry
  k1 = k1
INVARIANTS ShopTypeOK CycleNeedsRace ReferencesIntact SaleNeedsRace EnsureIsIdempotent StoresWhole
SYMMETRY RequestsAlike
CHECK_DEADLOCK FALSE
