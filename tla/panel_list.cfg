SPECIFICATION Spec
CONSTANTS
  Hosts = {"app", "db"}
  NoJob = NoJob
  PostCap = 2
  MaxQueue = 2
  MaxPubs = 1
  StartPaused = {FALSE}
  Env = {"locked"}
  Rush = {}
INVARIANTS HeadIsJob LiveRowIsPublished
