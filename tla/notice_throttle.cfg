\* Passwords that are refused, and a throttle of three periods.
SPECIFICATION Spec
CONSTANTS
    a1 = a1
    a2 = a2
    a3 = a3
    Order <- TwoAccounts
    Owned <- OwnedOnes
    Throttle = 3
    MaxFaults = 0
PROPERTY
    NoticesAreThrottled
