CONSTANTS
  LineRate = 16
  MinRate = 2
  AI = 1
  HAI = 3
  FirstCnp = 2
  Scale = 16
  Gain = 4
  AlphaInterval = 2
  DecreaseInterval = 4
  RpTimer = 7
  Threshold = 1
  Clamps = {TRUE, FALSE}
  MaxCnps = 4
SPECIFICATION FairSpec
INVARIANTS RateBounds OneChain
PROPERTIES Recovers
CHECK_DEADLOCK FALSE
