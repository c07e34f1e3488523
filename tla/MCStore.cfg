SPECIFICATION StoreSpec
CONSTANTS
  top = top
  sub = sub
  slugA = slugA
  slugB = slugB
  slugC = slugC
  slugD = slugD
  CategoryIds = {top, sub, c3}
  Hidden = {sub}
  Slugs = {slugA, slugB, slugC, slugD}
  Patterns = {slugD}
  Garbled <- MCGarbled
  Editors = {e1, e2}
  Visitors = {v1}
  InitialTrees <- MCInitialTrees
  NoCategory = NoCategory
  Keep = Keep
  NoTree = NoTree
  MaxCrashes = 1
  p1 = p1
  p2 = p2
  t1 = t1
  t2 = t2
  shelf1 = shelf1
  shelf2 = shelf2
  ProductIds = {p1, p2}
  ProductSlugs = {t1, t2}
  Shelves = {shelf1, shelf2}
  ProductWriters = {w1, w2}
  ProductReaders = {q1}
  Changes <- MCChanges
  InitialProducts <- MCInitialProducts
  Same = Same
  NoValue = NoValue
  MaxRenames = 1
  MaxProductCrashes = 1
  Customers = {u1, u2, u3}
  Buyers = {u1, u2}
  Moderators = {m1, m2, m3}
  Stars = {1, 4}
  MaxReviewFaults = 1
  Goods = {g1, g2, g3}
  InitialGoods = {g1, g2}
  SearchJobs = {j1, j2, j3}
  Terms = {"pillow", "bed", "foam"}
  HistoryLimit = 2
  MaxSearches = 4
  SearchAttempts = 2
  MaxSearchFaults = 2
  i1 = i1
  i2 = i2
  code1 = code1
  code2 = code2
  CouponIds = {i1, i2}
  CouponCodes = {code1, code2}
  InitialCoupons <- MCInitialCoupons
  OfferedTerms <- MCOfferedTerms
  EditedTerms <- MCEditedTerms
  SubTotals = {300, 1000}
  CouponEditors = {d1}
  Shoppers = {b1}
  LastHour = 1
  NoCoupon = NoCoupon
  MaxCouponFaults = 1
INVARIANTS StoreTypesOK TreeHolds CopiesFollow CachesAreFresh SearchFollows DiscountIsCovered
SYMMETRY MCSymmetry
CHECK_DEADLOCK FALSE
