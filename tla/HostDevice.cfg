CONSTANTS
  Size = 2
  TxTime = 1
  Confs <- PassingConfs
SPECIFICATION FairSpec
INVARIANTS TypeOK NoLostWakeUp BoundedBypass
PROPERTIES Finishes
CHECK_DEADLOCK FALSE
