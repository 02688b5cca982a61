CONSTANTS
  Intent = {i1, i2}
  Tx = {t1, t2}
  Unbound = Unbound
  Pays = {t1, t2}
  Claim = {c1, c2}
  MaxClock = 1
  h1 = h1
  Holder = {h1, h2}
  Balances <- MCBalances
  Pnl <- MCPnl
  Threshold = 2
  AutoCap = 2
  PayRun = {r1, r2}
  MaxEpoch = 2
  MaxDay = 1
  Caller = {c1, s1}
  Script = {s1}
  DailyCap = 2
  MaxPost = 3
  MaxTurn = 3
  MaxWindow = 3
  MaxLoose = 2
  User = {u1, u2}
  Email = {e1}
  Wallet = {v1, v2}
  Browser = {a, b}
  Nobody = Nobody
  PrivyEmail = e1
  PrivyWallets = {v1, v2}
  Human = {p1}
  Cap = 1
  Session = {d1, d2}
  Turns = 2
  MaxJobs = 2
  MaxSession = 2
  MaxMonth = 1
  MaxClaims = 3
  Odds = {2, 8}
  o1 = o1
  b3 = b3
  Bot = {b1, b2, b3}
  Quant = {o1}
  House = House
  OwnerOf <- MCOwner
  TopN = 2
  TradeXp = 2
  TradeCap = 3
  MaxSeason = 3
  MaxTrades = 3
  MaxDays = 1
  MaxRun = 3
  Launch = {l1}
  Trend = {k1}
  Full = 3
  Keep = 2
  BarLife = 2
  Bucket = 2
  Day = 1
  MaxNow = 2
  MaxLife = 2
SPECIFICATION ServicesSpec
INVARIANTS
  OnePeriodEach
  WithinProfit
  PostsHaveSlots
  AccountsSound
  OverspendBounded
  LimitsReturn
  StandingsSound
  CustodySound
PROPERTY
  PaidOnce
CHECK_DEADLOCK FALSE
