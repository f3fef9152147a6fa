SPECIFICATION Spec
CONSTANTS
  Hosts = {"app"}
  NoJob = NoJob
  PostCap = 1
  MaxQueue = 1
  MaxPubs = 1
  StartPaused = {FALSE}
  Env = {"quit", "hide", "crash", "tokenless"}
  Rush = {"publish", "early"}
INVARIANTS TypeOK NoLostWakeup DeletionOnDisk RowsOnDisk
PROPERTIES DeletionsGoOn ShutdownCompletes
