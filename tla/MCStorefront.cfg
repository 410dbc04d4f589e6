SPECIFICATION StorefrontSpec
CONSTANTS
  Products = {"p", "q"}
  Variants <- OneHasAVariant
  NoVariant = "none"
  NoId = 0
  MaxCartQty = 2
  MaxMutations = 3
  MaxCalls = 3
  Bulky = {"q"}
  MaxVisits = 1
  MaxOrders = 2
  MaxCheckoutChanges = 3
  MaxCheckoutCalls = 1
  Accounts = {"c", "m", "s"}
  RoleOf <- ARoleEach
  Enrolled = {"m"}
  DemoUsers = {"s"}
  NoUser = "nobody"
  Offline = "offline"
  MaxFlights = 2
  LongQueries = {"ab", "cd"}
  ShortQueries = {"a"}
  EmptyQuery = ""
  Hits <- TwoPagesOfAB
  RecentLimit = 1
  MaxSearches = 2
  MaxShUses = 6
  ShelfProducts = {near}
  FarProducts = {far}
  FirstHearts = {near}
  BannerCounts = {1, 2}
  MaxReviews = 2
  MaxShelfCalls = 3
  MaxSfUses = 5
  Shoppers = {"a", "b"}
  NoShopper = "nobody"
  ProfileNames = {"n", "m"}
  FirstName = "n"
  MaxAddresses = 3
  MaxAcUses = 12
INVARIANT CalmCartIsShared
INVARIANT CalmOrderIsWanted
 
INVARIANT OneOrderPerVisit
 
INVARIANT SearchShowsAnswers
INVARIANT ShelfShowsAnswers
INVARIANT AccountShowsAnswers
PROPERTY RedirectsOnce
CHECK_DEADLOCK FALSE
