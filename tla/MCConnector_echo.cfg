SPECIFICATION FairSpec
CONSTANTS
  NCmds = 4
  EndOf <- FourCmds
  HeadLen = 2
  MaxCmdLen = 4
  BuffSize = 4
  SockRecv = 3
  SockSend = 2
  Window = 1
  PeerLeaves = {}
INVARIANTS EchoesInOrder
PROPERTY EveryCommandAnswered
