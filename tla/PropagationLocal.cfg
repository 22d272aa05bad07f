SPECIFICATION Spec
CONSTANTS
    a1 = a1  a2 = a2  own = own  ma = ma  mb = mb  s1 = s1  s2 = s2
    Copies = {a1, own}
    LocalCopies = {own}
    MaxNodeFaults = 1
    Messages = {ma, mb}
    MessageIn <- TwoOfOne
    Undecryptable = {}
    Ignored = {}
    Sessions = {s1, s2}
    NoCopy = NoCopy
    MaxStops = 1
INVARIANT LocalUploadIsHandedOver
CHECK_DEADLOCK FALSE
