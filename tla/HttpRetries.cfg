CONSTANTS
  c1 = c1
  c2 = c2
  s1 = s1
  Callers = {c1, c2}
  Slugs = {s1}
  Sends <- OneDrafts
  MaxRetries = 2
  MaxRequests <- TwoAndOne
  MaxPosts = 7
  MaxRefused = 2
  MaxLost = 1
  NoSlug = NoSlug
CHECK_DEADLOCK FALSE
SPECIFICATION FairSpec
INVARIANTS
  TypeOK
  OkMeansWritten
  DuplicatesBounded
PROPERTY
  AttemptsEnd
