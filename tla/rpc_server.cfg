SPECIFICATION Spec
CONSTANTS
  c1 = c1  c2 = c2  f = f  g = g  exit_server = exit_server
  Clients = {c1, c2}
  Names <- AllNames
  Functions = {f, g, exit_server}
  ExitServer = exit_server
  NoFunction = NoFunction
  Requests <- AllRequests
  Programs <- AllPrograms
  MaxRequests <- RequestBounds
  Unsteady = {c2}
  Readers = {c1}
  Setups <- AllSetups
  InitialSize = 8
CHECK_DEADLOCK FALSE
INVARIANTS TypeOK Understood
PROPERTIES ClosedForCause ImplementsService AnsweredInTurn
