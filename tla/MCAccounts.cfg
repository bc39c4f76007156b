SPECIFICATION MCSpec
CONSTANTS
  Transfers = {t1, t2}
  Amounts <- MCAmounts
  Jobs = {"earned", "again", "paid"}
  Pay <- MCPay
  MaxMade = 1
  Validators = {Relay, v1, v2}
  Relay = Relay
  Quorum = 3
  Sessions = {s1, s2}
  MaxTx = 2
  MaxOps = 8
  MaxLeaves = 5
  Requests = {q1, q2}
  Users = {"u1", "u2"}
  Anonymous = "anonymous"
  Names = {"n", "m"}
  TeamNames = {"t"}
  Roles = {"admin", "member"}
  Sheets = {"quota"}
  MaxSpaces = 2
  MaxFriendCalls = 6
  Limits = {NoLimit, 0, 2}
  NoLimit = NoLimit
  NewWeights = {2}
  Period = 1
  Finished = 2
  MaxTicks = 2
  MaxShareCalls = 5
  Providers = {"aws", "runpod"}
  Rank <- MCRank
  Types = {"a", "b"}
  AnyType = "any"
  Prices = {0, 2}
  MaxPrices = {0, 1}
  Count = 2
  MaxLaunchRequests = 1
INVARIANTS LedgerIsSound RelationsAreGranted ChargesAreSound
PROPERTIES FlowSpec
CHECK_DEADLOCK FALSE
