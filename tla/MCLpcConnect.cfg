CONSTANTS
  c1 = c1
  c2 = c2
  client = client
  server = server
  Procs = {client, server}
  Threads = {c1, c2}
  ProcOf <- MCProcOf
  Offers = {TRUE}
  MaxPorts = 1
  MaxConns = 2
  MaxKernel = 1
  MaxFaults = 1
SPECIFICATION Spec
SYMMETRY MCSymmetry
CHECK_DEADLOCK FALSE
INVARIANTS
    FailedConnectorsHoldNothing
    ViewsLastAsTheirEndpoint
