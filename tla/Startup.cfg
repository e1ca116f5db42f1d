CONSTANTS
  gateway = gateway
  command = command
  v1 = v1
  v2 = v2
  Loader <- MCLoader
  Gateway = gateway
  Version = {v1, v2}
  First = v1
  MaxLifts = 1
  MaxKills = 1
  MaxLosses = 1
SPECIFICATION Spec
INVARIANTS
  InstallBudget
  AdvertisedIsServed
CHECK_DEADLOCK FALSE
