SPECIFICATION Spec
CONSTANTS
  Devices = {2, 4}
  Pairs = {2, 4}
  NoPair = 0
  Fixed <- OwnPorts
  TlsDevices = {2}
  MaxRuntimes = 2
  MaxConns = 1
  MaxLive = 3
  LastFd = 7
INVARIANTS TypeOK ListensOnItsOwn DescriptorsOwned
PROPERTIES DisconnectCloses LeaseServed
