SPECIFICATION Spec
CONSTANTS
    a = a
    b = b
    c = c
    t1 = t1
    t2 = t2
    w1 = w1
    w2 = w2
    r1 = r1
    None = None
    Image = {1}
    Layer = {a}
    Ref = {r1}
    Txn = {t1}
    Writer = {w1, w2}
    LayersOf <- MCOneLayer
    Stray = {}
    LayerSize <- MCOneLayerSize
    RecordBase = 1
    MaxBytes = 6
    PinnedIngest = {}
    Debounce = 1
    IoFaults = FALSE
    MaxTime = 1
    MaxCrashes = 0
INVARIANTS RecordFilesWhole
