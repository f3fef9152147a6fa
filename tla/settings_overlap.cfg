SPECIFICATION Spec
CONSTANTS
  Hosts = {h1, h2}
  Tokens = {t1}
  NoToken = NoToken
  Invocations = {c1, c2}
  Ops = {"add", "rm", "login"}
  PostCap = 2
  Env = {}
INVARIANTS NothingIsLost
