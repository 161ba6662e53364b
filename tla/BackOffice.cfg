\* Two workers serve one of seven workloads.
SPECIFICATION FairSpec
CONSTANTS
  s1 = s1
  s2 = s2
  Sessions = {s1, s2}
  Rank <- MCRank
  Admins = {"root", "ada"}
  Drafts = 2
  Accounts = 1
  Customers = {"old"}
  Verified = {"old"}
  Workloads <- MCWorkloads
  None = None
INVARIANTS ReviewsReachable OpenedOnceVerified DecisionsAuthorised OneCardPerRequest DecisionsOnRecord
PROPERTY JobsEnd
CHECK_DEADLOCK FALSE
