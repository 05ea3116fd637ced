CONSTANTS
  driver = driver
  client = client
  driverSocket = driverSocket
  clientSocket = clientSocket
  oneSignature = oneSignature
  otherSignature = otherSignature
  None = None
  Procs = {driver, client}
  Sockets = {driverSocket, clientSocket}
  Signatures = {oneSignature, otherSignature}
  Owner <- TwoOwners
  Wall <- TwoWalls
  MaxList = 2
  MaxRemote <- CallsMost
  MaxLocal <- CalledMost
  Callers = {c1, c2}
  ThreadObjects = {o1, o2}
  MaxThreads = 2
  Codes = {zero, one, noThread}
  NoThread = noThread
  Starts = {p1, p2}
  Addresses <- SomeAddresses
  Base = 3
  Buffer = 6
  SystemWide = TRUE
SPECIFICATION AllSpec
CHECK_DEADLOCK FALSE
INVARIANTS
  RegisteredIsKnown
  CallsAreTyped
  AnswersAreTrue
  OwnLock
