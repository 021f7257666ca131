SPECIFICATION FairServerSpec
CONSTANTS
  Second = 2
  Tick = 1
  Timeout = 2
  MaxFd = 4
  MaxClients = 2
  CallsFail = TRUE
  SetBack = TRUE
INVARIANTS ServerTypeOK ConnsAreComplete DescriptorsHaveOwners NoClientOverlooked KeepsLoopRules
PROPERTIES BusyIsKept QuietIsClosed SignalEndsServer
