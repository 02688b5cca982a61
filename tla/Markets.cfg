CONSTANTS
  Pairs = 2
  Roles = 2
  RunCap = 1
  Budget = 1
  MaxSweep = 2
  MaxCrash = 1
  Bots = {1, 2}
  Caps <- MCCaps
  TradePct = 10
  ReservePct = 90
  MaxPositions = 2
  MaxDraw = 1
  Shares = {0, 6}
  MaxOrders = 2
  Asset = {a}
  Refresher = {r, s}
  MaxRefresh = 2
  MaxPinned = 2
  MaxPolicy = 2
  Price = {4, 7}
  Fee = 1
  Capital = 14
  Tax = 1
  Creation = 1
  Credits = 2
  MaxFill = 5
  MaxStart = 1
  MaxDeath = 1
  MaxAttempt = 2
  Handler = {w1, w2}
  MaxEvent = 3
  MaxCut = 1
  MaxTry = 3
  MaxPass = 2
  MaxMailerDeath = 1
  Amounts = {2, 3}
  EthPrice = {1}
  Outputs = {4, 5}
  Scale = 10
  MaxSlip = 1
  RawCap = 2
  StaleAge = 0
  FetchTime = 0
  Life = 1
  MaxSwap = 2
  MaxBotTx = 1
  MaxClock = 1
SPECIFICATION MarketsSpec
INVARIANTS
  CouncilWithinBudget
  ReserveKept
  UniverseSound
  PaperSound
  NewestWins
  SwapSound
PROPERTIES
  FeedRecovers
  RefundIsBooked
  MailEnds
CHECK_DEADLOCK FALSE
