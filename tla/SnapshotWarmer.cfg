SPECIFICATION FairSpec
CONSTANTS
  Invocations = {i1, i2}
  Snapshots = {"dreps", "proposals"}
  Crowded = {"proposals"}
  Chain <- Switching
  i1 = i1  i2 = i2
  a = a  b = b
INVARIANTS IInv DoneMeansComplete
PROPERTIES SnapshotsCatchUp
CHECK_DEADLOCK FALSE
