SPECIFICATION Spec
CONSTANTS
    reg = reg
    dock = dock
    c1 = c1
    c2 = c2
    c3 = c3
    None = None
    Id = {1, 2, 3}
    Key = {reg}
    DockerKey = {}
    Cacheable = {reg}
    Caller <- MCThreeCallers
    MaxInFlight = 2
    MaxRetained = 1
    LayerCount = 1
    MaxMembers = 1
SYMMETRY CallerSymmetry3
INVARIANTS OneLivePullPerKey
