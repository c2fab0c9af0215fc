SPECIFICATION Spec
CONSTANTS
  Parts = {"contacts", "services", "lookup", "cells", "pool", "handshake"}
  DhtIds = {"us", "a", "b"}  Us = "us"  Addrs = {"p1", "p2"}  Prefix <- MCPrefix  Ip <- MCIp  Bucket <- MCBucket
  NoPrefix = NoPrefix  Nobody = Nobody  K = 1  MAX_PER_PREFIX_IN_BUCKET = 1  MAX_PER_PREFIX_IN_TABLE = 1
  MAX_PINGBACKS = 1  PINGBACKS_PER_NETWORK = 2  MAX_BACKOFF_ENTRIES = 1  MaxMoves = 1
  OwnSvcs = {"o"}  OtherSvcs = {sx, sy}  Pushers = {px, py}  MAX_STORED_SERVICES = 2  DESCRIPTOR_TTL_SECS = 2
  MAX_CLOCK_SKEW_SECS = 0  MAX_NEW_PER_PUSHER_PER_HOUR = 1  HOUR = 1  MAX_DELIVERERS = 2
  LOCAL_DESCRIPTOR_FRESH_SECS = 1  LastSec = 2  MaxSigned = 2  LookedUp = {sx, sy}
  Peers = {1, 2, 3}  Paths = {0, 1}  WIDTH = 2  ALPHA = 1  PER_PATH = 1  Net <- MCNet
  Hops = {1, 2}  CELLS_OUT = 2  CELLS_BACK = 2  MaxTampers = 1
  Cids = {"x", "y"}  Sessions = {"s"}  HOPS = 2  POOL_TTL = 2  POOL_TARGET_SIZE = 1  MAX_POOL_SIZE = 1  MAX_RETRIES = 2
  CONTROL_IDLE = 1  BUILT_CIRCUIT_IDLE = 3  RELAY_TTL = 3  MAX_CIRCUITS = 2  LastTime = 4  MaxFaults = 1
  Initiators = {"i1", "i2"}  Responders = {"r1", "r2"}  StaticOf <- MCStaticOf
INVARIANTS
  ContactsSound StoreKeepsItsRules LookupSound PoolSound LinksSound
SYMMETRY Alike
CHECK_DEADLOCK FALSE
