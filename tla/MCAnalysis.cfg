SPECIFICATION Spec
CONSTANTS
    a = a
    b = b
    c = c
    x = x
    y = y
    big = big
    small = small
    plain = plain
    other = other
    id1 = id1
    id2 = id2
    id3 = id3
    None = None
    Root = Root
    Path = {a, b, c, x, y}
    Above <- MCAbove
    Content = {big, small}
    SizeOf <- MCSizeOf
    Attr = {plain, other}
    Synthetic = plain
    Member <- MCMember
    MaxEntries = 2
    MaxLayers = 2
    NameRank <- MCNameRank
    DefaultTreeLimit = 1
    MaxTreeLimit = 2
    MaxEmbeddedChildren = 2
    MaxEmbeddedRows = 1
    DiffId = {id1, id2, id3}
    Stack <- MCStack
INVARIANTS Inv SquashIsOverlay SharingIsReal DiffAddsUp ChangesAreFound PagesResume SeedsAreWhole
