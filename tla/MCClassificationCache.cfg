CONSTANTS
    Text = {k1, k2, k3}
    Spelling = {plain, loud}
    Value = {v1, v2}
    None = None
    MaxSize = 2
    MaxCalls = 6
SPECIFICATION HSpec
INVARIANT HInv
PROPERTY RefinesLRU
