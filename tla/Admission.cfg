SPECIFICATION Spec
CONSTANTS
    t1 = t1
    t2 = t2
    a1 = a1
    a2 = a2
    Threads <- MCThreads
    Addresses <- MCAddresses
    Traffic <- MCTraffic
    Limit <- MCLimit
    Window = 2
    MaxTime = 3
SYMMETRY MCSymmetry
INVARIANT TypeOK
INVARIANT WindowLimited
 
PROPERTY RefusedOnlyIfBusy
