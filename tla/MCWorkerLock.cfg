SPECIFICATION FairSpec
CONSTANTS
  t1 = t1
  t2 = t2
  t3 = t3
  p1 = p1
  p2 = p2
  NoThread = NoThread
  MaxDepth = 1
  MaxCrashes = 2
  Thread <- MCThread
  Process <- MCProcess
  ProcOf <- MCProcOf
INVARIANTS
  LocksAgree
PROPERTIES
  ImplementsMutex
  WaiterSeesService
