SPECIFICATION Spec
CONSTANTS
    a = a
    b = b
    c = c
    t1 = t1
    t2 = t2
    w1 = w1
    w2 = w2
    r1 = r1
    None = None
    Image = {1, 2}
    Layer = {a, b}
    Ref = {r1}
    Txn = {t1}
    Writer = {w1}
    LayersOf <- MCSharedLayer
    Stray = {}
    LayerSize <- MCTwoLayerSize
    RecordBase = 1
    MaxBytes = 4
    PinnedIngest = {}
    Debounce = 1
    IoFaults = TRUE
    MaxTime = 1
    MaxCrashes = 1
INVARIANTS IndInv AccountingExact RecordFilesWhole CachedIsDurable
PROPERTIES ImplementsCatalog
