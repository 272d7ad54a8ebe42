SPECIFICATION Spec
CONSTANTS
    a = a
    b = b
    c = c
    t1 = t1
    t2 = t2
    w1 = w1
    w2 = w2
    r1 = r1
    None = None
    Image = {1, 2}
    Layer = {a, b, c}
    Ref = {}
    Txn = {t1}
    Writer = {}
    LayersOf <- MCLayersOf
    Stray = {}
    LayerSize <- MCLayerSize
    RecordBase = 1
    MaxBytes = 6
    PinnedIngest = {2}
    Debounce = 1
    IoFaults = FALSE
    MaxTime = 1
    MaxCrashes = 0
PROPERTIES PinIsMonotonic
