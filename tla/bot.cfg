SPECIFICATION Spec
CONSTANTS
    alice = alice  h1 = h1  h2 = h2  h3 = h3
    Users <- JustAlice
    Handlers <- ThreeHandlers
    Ops = {"create", "restart", "delete", "patch"}
    FaultKinds = {"docker", "database", "crash"}
    MaxContainers = 4
    MaxFaults = 2
SYMMETRY HandlerSymmetry
INVARIANTS
    ActiveIsProvisioned
    RestartsLeaveBot
PROPERTIES
    DeletedStaysDown
