\* Two traffic classes, at most three packets offered to each.
CONSTANTS
    NumTrafficClasses = 2
    sizes <- MCSizes
    MaxArrivals = 3
SPECIFICATION Spec
INVARIANTS
    TypeOK
    NothingLost
    NoLostWakeup

    
    
\* After Stop has joined the drainer nothing is left to do.
CHECK_DEADLOCK FALSE
