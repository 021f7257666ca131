SPECIFICATION Spec
CONSTANTS
  NCmds = 4
  EndOf <- FourCmds
  HeadLen = 2
  MaxCmdLen = 4
  BuffSize = 6
  SockRecv = 4
  SockSend = 2
  Window = 3
  PeerLeaves = {}
INVARIANT EchoesInOrder
