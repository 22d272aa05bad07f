SPECIFICATION Spec
CONSTANTS
    a1 = a1  a2 = a2  own = own  ma = ma  mb = mb  s1 = s1  s2 = s2
    Copies = {a1, a2}
    LocalCopies = {}
    MaxNodeFaults = 1
    Messages = {ma}
    MessageIn <- TwoOfOne
    Undecryptable = {}
    Ignored = {}
    Sessions = {s1, s2}
    NoCopy = NoCopy
    MaxStops = 1
SYMMETRY Symmetry
INVARIANTS TypeOK NothingIsLost 
CHECK_DEADLOCK FALSE
