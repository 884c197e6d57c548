SPECIFICATION FairSpec
CONSTANTS
  tcp0 = tcp0  tcp1 = tcp1  a1 = a1  a2 = a2
  Devices = {tcp0, tcp1}
  Addrs = {a1, a2}
  NoAddr = NoAddr
  Named <- AddressOfFirst
  Settings <- SettingsOfEach
  Fds = {0, 1}
  MaxRef = 2
  Orderly = TRUE
  Free = Free  App = App  NoFd = NoFd
INVARIANTS SocketAccounting ConnectedIsConnected SettingsApplied
PROPERTY HangupNoticed
