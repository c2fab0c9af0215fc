SPECIFICATION Spec
CONSTANTS
  Parts = {"introduction", "sites", "mail", "relay", "forum", "chat"}
  SvcRuns = {1, 2}  HsClients = {"a", "b"}  NoClient = "nobody"  QUEUE = 1  MaxPieces <- MCPieces  MaxReplies = 1  MaxReplays = 1
  Reqs = {"r1", "r2"}  SiteNames = {"s", "t"}  DHT_QUEUE = 1  NoReq = "nobody"  MaxReqs = 3  MaxCrashes = 2
  MailNodes = {"ana", "bo"}  Mails = {"m1"}  MaxMailStops = 2
  RbClients = {"a"}  Topics = {"x", "y"}  Filters <- MCFilters  MAX_SUBSCRIBES_PER_CONNECTION = 2  OUTBOUND_QUEUE = 1
  MAX_DEFERRED = 1  STORE_QUEUE = 1  STORE_BATCH = 1  STORE_RETRIES = 2  MaxPublishes = 2  MaxStarts = 1
  FKeys = {"k1", "k2"}  FNames = {"ana"}  Ids = {"i"}  Threads = {"th"}  NoOne = "nobody"  MAX_RETAINED_BYTES = 6
  RETAINED_RESERVE_BYTES = 2  MAX_BYTES_PER_AUTHOR = 3  MAX_RETAINED_MESSAGES = 5  MAX_CLAIMS = 1  MAX_POSTS = 1
  MAX_HIDES = 1  MAX_REPORTS = 1  NEW_NAMES_BURST = 1  UNLISTED_NAME_GRACE = 0  MaxSeq = 2  LastTick = 1
  ChatConns = {"c1", "c2", "c3"}  RoomNames = {"r"}  Nicks = {"n", "m"}  MAX_CONNECTIONS = 3  MAX_MEMBERS = 2
  BROADCAST_CAP = 1  HISTORY_LIMIT = 1  MaxRoomsMade = 2  MaxSaid = 1
INVARIANTS
  SessionsApart  MailKept RelaySound  ChatSound
CONSTRAINT FewFaultsOnceStopped
CHECK_DEADLOCK FALSE
