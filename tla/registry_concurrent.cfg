\* Two fibers and a failure on one account.
SPECIFICATION ConcurrentSpec
CONSTANTS
    Emails = {e1}
    NoEmail = NoEmail
    Passwords = {p1}
    NoPassword = NoPassword
    InitialPassword = p1
    Fibers = {f1, f2}
    MaxFaults = 1
SYMMETRY ConcurrentSymmetry
INVARIANTS
    TypeOK
    WholeUnlessContended
    PromisesKept
PROPERTY
    MovesAreOrderly
