SPECIFICATION FairSpec
CONSTANTS
    reg = reg
    dock = dock
    c1 = c1
    c2 = c2
    c3 = c3
    None = None
    Id = {1, 2}
    Key = {dock}
    DockerKey = {dock}
    Cacheable = {dock}
    Caller = {c1}
    MaxInFlight = 1
    MaxRetained = 1
    LayerCount = 1
    MaxMembers = 1
INVARIANTS DoneIsComplete LayersCountedOnce
PROPERTIES RunsEnd
