CONSTANTS
  c1 = c1
  c2 = c2
  s1 = s1
  Callers = {c1}
  Slugs = {s1}
  Sends <- AllPublish
  MaxRetries = 2
  MaxRequests <- One
  MaxPosts = 2
  MaxRefused = 0
  MaxLost = 1
  NoSlug = NoSlug
CHECK_DEADLOCK FALSE
SPECIFICATION Spec
INVARIANT
  OnePostPerSlug
