SPECIFICATION FairMarketSpec
CONSTANTS
  u1 = u1
  u2 = u2
  p1 = p1
  o1 = o1
  o2 = o2
  k1 = k1
  k2 = k2
  i1 = i1
  c1 = c1
  c2 = c2
  d1 = d1
  a1 = a1
  a2 = a2
  SINK = SINK
  NoAccount = NoAccount
  None = None
  User <- MCUsers
  Amount <- MCNobody
  Leaver <- MCNobody
  SeedPoints = 2
  Product <- MCProduct
  Order <- MCOrders
  Coupon <- MCCoupons
  Item <- MCItems
  Offer <- MCOffer
  Voucher <- MCProduct
  CouponOf <- MCCouponOf
  Limit <- MCLimit
  ItemPrice <- MCItemPrice
  Client <- MCClients
  MemberOf <- MCMemberOf
  Admin <- MCAdmin
  Quantity <- MCQuantity
  NewPrice = {}
  NewStock <- MCStocks
  Chat <- MCChat
  Kind <- MCKind
  FirstValue <- MCFirst
  NewValue <- MCNew
  Typo = Typo
  InClan <- MCUsers
  Uploaded <- MCEarly
  Sheet <- MCNobody
  MaxUploads = 1
PROPERTY EveryVisitEnds
