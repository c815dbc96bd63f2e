SPECIFICATION Spec
CONSTANTS
    s1 = s1  s2 = s2  c1 = c1
    Server = Server
    Client = Client
    Threads = {s1, s2, c1}
    ProcOf <- Owner
    MaxConns = 2
    MaxKernel = 2
    MaxMessages = 2
    QueuedCharge = 2
    DeliveredCharge = 1
SYMMETRY Symmetric
INVARIANTS
    
    RequestsHaveWaiters
    PoolBalanced
CHECK_DEADLOCK FALSE
