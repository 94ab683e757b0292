\* The form of a tab sends two requests, maybe at once, while a script changes and
\* deletes projects; one fault.
SPECIFICATION PanelSpec
CONSTANTS
  t1 = t1
  f1 = f1
  f2 = f2
  s1 = s1
  da = da
  db = db
  k1 = k1
  k2 = k2
  MaxProjects = 2
  Domains <- MCDomains
  Clients = {f1, f2, s1}
  Tabs = {t1}
  Fetches <- TwoFetches
  Asks <- MCAsks
  MaxRequests <- OneRequest
  MaxFaults = 1
  Keys = {k1, k2}
  ADMIN_API_KEY = k1
  SYSTEM_API_KEY = k2
  Unset = Unset
  Unborn = Unborn
  Deleted = Deleted
  PanelHeaders <- Human
  PageSize = 1
INVARIANTS TypeOK MutationsAudited AuditIsTrue AnswerIsTrue OneProjectPerDomain PanelTypeOK TotalAgrees ErrorIsTrue FormFollowsFetch
CHECK_DEADLOCK FALSE
