SPECIFICATION BackOfficeSpec
CONSTANTS
  PosKeys = {"a", "b"}
  PosStock <- ScarceA
  NoLimit = 99
  PosListPrice <- TwoAndOne
  PosPrices = {1}
  PosDiscounts <- OneOff
  PosReceived = {0, 2}
  MaxQty = 2
  MaxPosOrders = 2
  ServedIds = {"a", "b"}
  MadeUpIds = {"m"}
  NoParent = "top"
  CatStart = {"a", "b"}
  MaxCatUses = 4
  ProductIds = {"p", "q"}
  StartIds = {"p"}
  Images = {"i", "j"}
  MaxPdUses = 5
  CouponCodes = {"c"}
  PromoWindows <- NowAndLater
  LastMoment = 1
  MaxPromotions = 2
  MaxPromoCalls = 2
  NotedLimit = 1
  MaxPrUses = 5
  Goods = {"p", "q"}
  StartStock <- OneP
  Adjustments = {1}
  ReorderPoint = 1
  MaxSkCalls = 3
  MaxSkUses = 5
  MaxSections = 3
  MaxProfiles = 2
  MaxSsUses = 4
  RowCodes = {"en", "bn", "hi"}
  OpenCodes = {"en", "bn"}
  HomeCode = "en"
  MaxPsUses = 5
  PlanNames = {"free", "pro"}
  PlanPrices = {1, 2}
  PlanTenants = {"t", "u"}
  TierOf <- ProAndFree
  MaxPlans = 2
  MaxPpUses = 7
 
INVARIANT CategoryRowsComplete
INVARIANT SavedImagesExist
 
INVARIANT NotedCouponsAreStored
 
 
 
INVARIANT OneDefaultProfile
 
PROPERTY PlanKeepsSubscribers
CHECK_DEADLOCK FALSE
