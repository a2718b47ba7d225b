\* One command at a time on two accounts, with failures and restarts.
SPECIFICATION Spec
CONSTANTS
    Emails = {e1, e2}
    NoEmail = NoEmail
    Passwords = {p1, p2}
    NoPassword = NoPassword
    InitialPassword = p1
    Fibers = {f1}
    MaxFaults = 2
SYMMETRY EmailSymmetry
INVARIANTS
    NothingInvented
    PromisesKept
PROPERTY
    ImplementsRegistry
