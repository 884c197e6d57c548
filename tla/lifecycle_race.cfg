SPECIFICATION Spec
CONSTANTS
  Threads = {t1, t2}
  Devices = {d1, d2}
  Registered = {d1, d2}
  Fds = {0, 1, 2}
  RefMax = 2
  Serialised = FALSE
  Free = Free  App = App  NoThread = NoThread  NoFd = NoFd
SYMMETRY ThreadSymmetry
INVARIANT RefCountsUsers
