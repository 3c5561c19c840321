SPECIFICATION ProgramSpec
CONSTANTS
  Scenes = {"lending"}
  Markets = {m1}
  Owners = {o1}
  Savers = {s1, s2}
  SignedMarkets = {m1}
  NoMarket = NoMarket
  NoPrice = NoPrice
  BPS = 10
  SECONDS_PER_YEAR = 1
  MULTIPLIER_SCALE = 1
  TOKEN_UNIT = 1
  U64Max = 1000
  PROTOCOL_SHARE_BPS = 4
  MAX_UTILIZATION_BPS = 9
  CLOSE_FACTOR_BPS = 5
  Offered <- Closed_RiskParams
  RiskParams <- All_RiskParams
  PostedPrices <- All_Prices
  MintSettings <- Issuer_Mints
  Clawbacks = {1, 2}
  Amounts = {1, 2, 3, 5, 1000}
  SavingsAmounts = {1, 2, 5, 6}
  TokenAmounts = {1, 2, 3, 5}
  Pauses = {TRUE, FALSE}
  UsdcSupply = 7
  TokenSupply = 5
  MaxTime = 3
INVARIANT RepayNeverFailsOnPrice
SYMMETRY Symmetry
CHECK_DEADLOCK FALSE
