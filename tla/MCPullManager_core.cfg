SPECIFICATION Spec
CONSTANTS
    reg = reg
    dock = dock
    c1 = c1
    c2 = c2
    c3 = c3
    None = None
    Id = {1, 2}
    Key = {reg, dock}
    DockerKey = {}
    Cacheable = {}
    Caller <- MCTwoCallers
    MaxInFlight = 2
    MaxRetained = 1
    LayerCount = 1
    MaxMembers = 1
SYMMETRY CallerSymmetry
INVARIANTS IndInv UncachedKeysHaveOnePull TableTrimmed
PROPERTIES OutcomeIsFinal OnlyDeleteCancels
