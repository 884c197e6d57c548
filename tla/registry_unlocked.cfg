SPECIFICATION Spec
CONSTANTS
  d1 = d1  d2 = d2  d3 = d3  com1 = com1  com10 = com10
  gpio = gpio  backlight = backlight
  Threads = {t1, t2}
  Devices = {d1, d2}
  Names <- AllNames
  PrefixOf <- Prefixes
  Classes <- AllClasses
  ClassOf <- ClassesOf
  Selectable = {gpio}
  Programs <- UnlockedProgram
  ListHead = ListHead  Null = Null  NoThread = NoThread  NoName = NoName
  NoTable = NoTable
INVARIANT NeverFollowsNull
