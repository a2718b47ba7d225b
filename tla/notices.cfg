\* Three accounts, the second without an owner; two failures of other kinds.
SPECIFICATION Spec
CONSTANTS
    a1 = a1
    a2 = a2
    a3 = a3
    Order <- ThreeAccounts
    Owned <- OwnedOnes
    Throttle = 2
    MaxFaults = 2
INVARIANT
    TypeOK
PROPERTIES
    RefusalIsTold
    EventuallyTold
