SPECIFICATION Spec
CONSTANTS
  Hosts = {"app"}
  NoJob = NoJob
  PostCap = 2
  MaxQueue = 2
  MaxPubs = 2
  StartPaused = {TRUE, FALSE}
  Env = {"refuse", "offline", "crash", "quit"}
  Rush = {"readd"}
INVARIANTS OrphanFree
