SPECIFICATION FairSpec
CONSTANTS
  amazon = amazon
  flipkart = flipkart
  a1 = a1
  a2 = a2
  b1 = b1
  Retailers = {amazon, flipkart}
  Adapters = {a1, a2, b1}
  RetailerOf <- MCRetailerOf
  Configured <- MCConfigured
  MayBeOff = {b1}
  Wanted = "p1"
  Family <- MCFamily
  Categories = {phones}
  phones = phones
  Serves <- MCServes
  Searches = {s1}
  Sweeps = {h1}
  MaxAttempts = 2
  Slots = 1
  Limit = 2
  ItemCap = 2
  SearchMax = 3
  PageLimits = {1, 2}
  Offsets = {0, 1, 2}
  HitLists <- MCHitLists
  Answers <- MCAnswers
  Refusals = {"401", "408"}
  MaxChanges = 1
  None = None
INVARIANTS FanOutIsIsolated PagesShareOneList HealthIsOfThisAdapter
PROPERTY EveryFanOutReturns
\* Every job runs once.
CHECK_DEADLOCK FALSE
