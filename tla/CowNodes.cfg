SPECIFICATION Spec
CONSTANTS
    a = a  b = b  c = c
    flat = flat  leaf = leaf  copy = copy  root = root
    Hands = {a, b, c}
    Nodes = {flat, leaf, copy, root}
    Slots = {1}
    Height <- MCHeight
    MaxDepth = 3
    Data = {0, 1}
    None = None
SYMMETRY Symmetry
INVARIANTS RefsCounted WalksHold NothingLeaks
PROPERTIES CordsIsolated
