SPECIFICATION Spec
CONSTANTS
  Apps = {a1, a2}
  Invocations = {c1, c2}
  Ports = {p1}
  None = None
  Torn = Torn
  Env = {"crash", "slow", "denied"}
INVARIANTS QuitIsMeant NamedUnlessRemoved StoppedIsStopped
