SPECIFICATION FairSpec
CONSTANTS
  Threads = {t1, t2}
  NoThread = NoThread
  Classes = {"memory", "file", "serial", "udp", "backlight", "rtc", "pin"}
  MaxHeld = 2
  Capacity = 2
  Byte = {b1, b2}
  MaxLength = 2
  FileMax = 3
  DataBits = {4, 7}
  Timeouts = {0, 1}
  MaxInput = 1
  Addrs = {a1, a2}
  NoAddr = NoAddr
  MaxInbox = 2
  Maxima = {2, 32, 33, 100}
  NoLevel = NoLevel
  Dates <- SomeDates
  NoDate = NoDate
  MaxPulses = 2
INVARIANTS TypeOK HeldWhileInUse PortAsRecorded WritesToPeer LevelReadBack DateReadBack
PROPERTIES KeptForUsers WritesAppend MutexGivenBack
