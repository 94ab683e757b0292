\* One tab, nothing beside it and no fault: the page of a new project.
SPECIFICATION PanelSpec
CONSTANTS
  t1 = t1
  f1 = f1
  f2 = f2
  s1 = s1
  da = da
  db = db
  k1 = k1
  k2 = k2
  MaxProjects = 2
  Domains <- MCDomains
  Clients = {f1}
  Tabs = {t1}
  Fetches <- OneFetch
  Asks <- MCAsks
  MaxRequests <- OneRequest
  MaxFaults = 0
  Keys = {k1, k2}
  ADMIN_API_KEY = k1
  SYSTEM_API_KEY = k2
  Unset = Unset
  Unborn = Unborn
  Deleted = Deleted
  PanelHeaders <- Human
  PageSize = 2
INVARIANT ProjectIsShown
