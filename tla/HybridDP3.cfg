CONSTANTS
  DP = 3
  PP = 1
  Confs <- EventConf
  Together = 1
SPECIFICATION Spec
INVARIANT CompletesOnce
CHECK_DEADLOCK FALSE
