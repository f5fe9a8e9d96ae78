\* Every set of connections, every detection, and a merchant who changes them at any time;
\* shops that show up to three signals, sitemaps of up to five entries, three URLs at most;
\* two requests that overlap, two connects, three sets of credentials.
\* A phase stops when it has found a source, failed, given up, or selected its URLs.
SPECIFICATION IntakeSpec
CONSTANTS
  None = None
  Shops <- MCShops
  Sitemaps <- MCSitemaps
  Barred <- MCBarred
  MaxUrls = 3
  ApiPages = 4
  Requests = {q1, q2}
  MaxConnects = 2
  MaxIssued = 3
CHECK_DEADLOCK FALSE
INVARIANTS
  AskedWithCredentials
  TierReported
  ShopwareConnectionUsed
  AnsweredProbesCount
  NothingLeftUntried
  ProductPagesKept
  ConnectSpentOnce
  RowIsOneHandshake
PROPERTIES
  RoutingEnds
