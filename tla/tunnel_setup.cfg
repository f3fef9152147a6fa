SPECIFICATION Spec
CONSTANTS
  MaxGen = 2
  Quicks = {q1}
  PostCap = 2
  Env = {}
INVARIANTS NoStrayConnector LinksAreListed ClosersKnowAll
PROPERTIES ClosedLinkDies ConnectorsKeepPromise
