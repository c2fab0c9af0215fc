SPECIFICATION Spec
CONSTANTS
  Parts = {"pocket", "channel", "commands", "service token", "accounts", "limiter", "rates", "quotes", "check", "kill switch", "net plan", "userspace"}
  k1 = k1  k2 = k2
  NodeKeys = {k1, k2}  NodeNames = {"a", "b"}  Lists <- MCLists  HandInvites <- MCHand  NoInvite = NoInvite  MaxPlans = 2
  Callers = {"c1", "c2"}  MAX_CONNECTIONS = 1  MaxRuns = 2  NoRun = 0
  AccountTokens = {"t1", "t2", "m1", "m2"}  Typed = {"t1", "t2"}  Wallets = {"w1", "w2"}  Shells = {"s1", "s2", "s3"}
  SvcSets = {"t2"}  NoToken = NoToken  NoOrder = NoOrder  Nobody = Nobody  MaxOrders = 2  MaxLists = 2
  Machines = {"m1", "m2"}  Quota = 1  Pack = 2  NodesWanted = 2  MAX_PER_REQUEST = 1  NoAccount = NoAccount  NoBalance = NoBalance
  LastDay = 2  MaxTopUps = 1  MaxIssueFaults = 1  MaxFetches = 2
  Conns = {"c1", "c2"}  Keys = {"k1", "k2"}  Ips = {"a", "r"}  Relays = {"r"}  MaxConnections = 3  PerIp = 2  PerRelay = 2
  GLOBAL = 2  PER_IP = 1  SESSION_GLOBAL = 2  SESSION_PER_IP = 1  Window = 1  max_leases = 1  MaxTime = 2
  FeedAnswers <- MCFeeds  NFeeds = 2  TheMint = "hnet"  max_change = 30  max_age = 1  RATE_AGREE = 3
  QUOTE_BURST = 1  QUOTE_RATE = 1  UNCLAIMED_LIFETIME = 1  ORDER_LIFETIME = 3  MAX_OPEN_ORDERS = 5  MAX_HELD_ORDERS = 1
  Buyers = {"b1"}  NoRate = NoRate  MaxTicks = 4  MaxFetchedRates = 4  MaxRestarts = 1
  Rpcs <- MCRpcs  Liars = {"r3"}  Txs <- MCTxs  Wallet = "w"  Decimals = 6  NotYet = NotYet
  Nodes <- MCNodes  Exit <- MCExit  Admissions <- MCAdm  ExitAdmission <- MCExitAdm
  Private = {"lan", "dns"}  Dns = "dns"  Remotes = {"node", "node2", "exit", "dns", "lan", "web", "bcast"}  NoConf = NoConf
  PlanNodes = {"n1", "n2"}  NoNetPlan = NoNetPlan  NoCopy = NoCopy  Ours = Ours  Emptied = Emptied
  MaxConnects = 2  MaxCuts = 2  MaxEdits = 1
  WgKeys = {"k1", "k2"}  WgAddrs = {"a", "b"}  WgPlaces = {"p"}  NoPlace = "nowhere"  MaxPeers = 3
INVARIANTS
  ChannelTrusted PaidTokenKept  ShareKept SalesSound  
PROPERTIES
  PocketSound
CHECK_DEADLOCK FALSE
