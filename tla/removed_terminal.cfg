\* Two fibers, no failure: a stale save brings a removed account back.
SPECIFICATION Spec
CONSTANTS
    Emails = {e1}
    NoEmail = NoEmail
    Passwords = {p1}
    NoPassword = NoPassword
    InitialPassword = p1
    Fibers = {f1, f2}
    MaxFaults = 0
PROPERTY
    RemovedIsTerminal
