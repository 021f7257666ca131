SPECIFICATION FairSpec
CONSTANTS
  NCmds = 4
  EndOf <- ShortCmds
  HeadLen = 1
  MaxCmdLen = 2
  BuffSize = 2
  SockRecv = 2
  SockSend = 2
  Window = 4
  PeerLeaves = {}
PROPERTY EveryCommandAnswered
