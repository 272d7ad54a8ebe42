SPECIFICATION Spec
CONSTANTS
    a = a
    b = b
    c = c
    t1 = t1
    t2 = t2
    w1 = w1
    w2 = w2
    r1 = r1
    None = None
    Image = {1, 2, 3}
    Layer = {a, b, c}
    Ref = {}
    Txn <- MCTwoTxns
    Writer = {}
    LayersOf <- MCThreeImages
    Stray = {b}
    LayerSize <- MCThreeSizes
    RecordBase = 1
    MaxBytes = 5
    PinnedIngest = {2}
    Debounce = 1
    IoFaults = FALSE
    MaxTime = 1
    MaxCrashes = 1
SYMMETRY TxnSymmetry
INVARIANTS ImagesHaveLayers InstalledLayersComplete PutsAreFirst AccountingExact CapHeld DiskRecordsComplete
PROPERTIES PinnedStays EvictsOnlyForRoom
