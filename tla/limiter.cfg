CONSTANTS
    a = a
    b = b
    r = r
    NoOne = NoOne
    Sources <- TwoSources
    Relays <- OneRelay
    Limit = 5
    Sizes <- SmallSizes
    FragmentBufferMaxLength = 2
    MaxFragments = 3
SPECIFICATION Spec
SYMMETRY SourceSymmetry
INVARIANTS
    UsageWithinLimit
PROPERTIES
    RefusedIsEmpty
CHECK_DEADLOCK FALSE
