SPECIFICATION Spec
CONSTANTS
  Hosts = {"app"}
  Workers = {"w1", "w2"}
  Target = "this tunnel"
  OtherTargets = {"elsewhere"}
  NoRecord = NoRecord
  Outsider = {"create", "edit", "delete"}
  Arguments = {{"client", "zone", "tunnel"}, {"client", "zone"}, {"client", "tunnel"}, {"client"}, {"zone", "tunnel"}}
  MaxRecords = 3
  MaxRetries = 1
INVARIANTS PublishedIsReachable RemovedIsGone
PROPERTIES ForeignRecordsUntouched CallsReturn
