CONSTANTS
  Confs <- WindowConfs
  Mtu = 2
  MaxFlight = 4
  Wrap = 65536
SPECIFICATION FairSpec
PROPERTY AckOpensWindow
CHECK_DEADLOCK FALSE
