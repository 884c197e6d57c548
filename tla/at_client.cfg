SPECIFICATION FairSpec
CONSTANTS
  Threads = {t1, t2}
  Clients = {ec20, ec25}
  Capacity = 3
  Lengths = {2}
  MaxCalls = 2
  NoThread = NoThread  NoClient = NoClient
INVARIANTS RespOfCaller WholeCommands OwnCommandSent
PROPERTIES OwnOk LocksReleased
