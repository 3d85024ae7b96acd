\* The network thread and one sender, both of which may call ethernet_init;
\* two NetX calls fail and two connections are lost; units that fit.
SPECIFICATION FairSpec
CONSTANTS
  Threads = {net, app}
  NetThread = net
  MaxFaults = 2
  MaxDrops = 2
  UnitLengths = {14, 16}
  UnitSize = 15
INVARIANTS
  ReadyMeansComplete
PROPERTIES
  SentIsComplete
  CallsReturn
