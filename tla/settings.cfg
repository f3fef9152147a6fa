SPECIFICATION Spec
CONSTANTS
  Hosts = {h1}
  Tokens = {t1}
  NoToken = NoToken
  Invocations = {c1}
  Ops = {"add", "login", "reconcile", "purge", "pause"}
  PostCap = 1
  Env = {"tray", "unreadable", "locked", "foreign"}
INVARIANTS LostOnlyByOverwriting AgreeAtRest PauseIsKept
