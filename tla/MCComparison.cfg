SPECIFICATION FairSpec
CONSTANTS
    v1 = v1
    v2 = v2
    base = base
    new = new
    r1 = r1
    r2 = r2
    None = None
    Request = {r1, r2}
    Image = {v1, v2}
    Layer = {base, new}
    Stack <- MCStack
    Key <- MCKeys
    Capacity = 1
INVARIANTS IndInv AssembledOnce AnswersMatch OnlyOwnClientCancels
PROPERTIES ErrorNamesEvicted RequestsAnswered
