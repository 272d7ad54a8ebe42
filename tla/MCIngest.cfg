SPECIFICATION FairSpec
CONSTANTS
    base = base
    tiny = tiny
    manifest = manifest
    bBase = bBase
    bTiny = bTiny
    bNote = bNote
    None = None
    Image = {1, 2}
    Layer = {base, tiny}
    Elsewhere = {tiny}
    Saved = 1
    Pulled = 2
    DiffIds <- MCDiffIds
    Metadata = {manifest}
    Blob = {bBase, bTiny, bNote}
    Holds <- MCHolds
    ManifestLayers <- MCManifestLayers
    Large = {bBase, bNote}
    MaxSaveMembers = 3
    MaxSmall = 2
    BodySize = 1
    Expected = 0
INVARIANTS TypeOK FailsForCause CountsAddUp EofMeansWhole
PROPERTIES IngestsEnd
