SPECIFICATION Spec
CONSTANTS
  job = job
  scan = scan
  none = none
  bad = bad
  None = none
  Bad = bad
  Callers <- MCCallers
  Keys <- MCKeys
  Policies = {"oneinch", "uniswap", "velora", "zero_x"}
  FreshFor = 0
  Adapters = {"oneinch", "uniswap", "velora", "zero_x"}
  Network = "polygon"
  Settings <- MCSettings
  PathLimit = 2
  Metric = "net_roi"
  Verifications <- MCVerifications
  Evaluations <- MCEvaluations
  Orders <- MCOrders
  Given <- MCGiven
  Answers <- MCAnswers
  Blocked = {}
  lost = lost
  Lost = lost
  StaticPrice = none
  PriorityFee = 1
  GasReplies = {1, none, bad}
  FeeReplies = {0, none, lost}
  PriceAdapter = "oneinch"
  ProbeAmount = 1
  ProbeAnswers <- MCProbeAnswers
  PriceReplies = {1, 0, none, lost}
  RateTtl = 1
  QuoteMaxAge = 1
  Threshold = 1
  Limit = 2
  MaxTime = 2
INVARIANTS
  VerdictsAreProven
  OneTaskPerKey
PROPERTY
  EveryVerificationEnds
CHECK_DEADLOCK FALSE
