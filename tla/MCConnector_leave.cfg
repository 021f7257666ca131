SPECIFICATION FairSpec
CONSTANTS
  NCmds = 4
  EndOf <- TooLong
  HeadLen = 2
  MaxCmdLen = 5
  BuffSize = 5
  SockRecv = 4
  SockSend = 2
  Window = 4
  PeerLeaves = {"shut", "reset"}
INVARIANTS TypeOK BytesConserved PendingIsWatched RepliesFit RoomForTheRest FreedOnlyByReset
PROPERTY LeavingPeerIsClosed
