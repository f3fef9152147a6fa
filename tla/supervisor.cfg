SPECIFICATION Spec
CONSTANTS
  Line = {1, 2}
  Capacity = 2
  MaxSpawns = 2
INVARIANT TypeOK
PROPERTIES IsConnector LogIsWindow KeepsTrying StaleStatusHeals
