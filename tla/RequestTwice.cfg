\* One callback of the request's resource is enough.
CONSTANT MaxCalls = 1
SPECIFICATION Spec
INVARIANT CallsBackOnce
CHECK_DEADLOCK FALSE
