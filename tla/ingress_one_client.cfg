SPECIFICATION Spec
CONSTANTS
  Hosts <- MCHosts
  NoHost = ""
  Fold <- MCFold
  Paths = {"/x", "/y"}
  NoPath = ""
  Services = {"s1", "s2"}
  CatchAllService = "404"
  Extras = {}
  NoExtra = "-"
  Workers = {"w1", "w2"}
  Clients = {"c1"}
  ClientOf <- MCOneClient
  MaxRetries = 1
  InitialDocs <- MCInitialDocs
  None = None
INVARIANTS CatchAllLast OneRulePerHost
PROPERTIES AtomicUpdates OthersUntouched CallsReturn
