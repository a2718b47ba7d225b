\* Two entries of one address, the account with the mail, and one that cannot connect.
SPECIFICATION MailForThird
CONSTANTS
    a1 = a1
    a2 = a2
    a3 = a3
    a4 = a4
    p1 = p1
    p2 = p2
    Processes = {p1}
    Order <- TwinsFirst
    Address <- TwinAddress
    Gmail <- OfThird
    Broken <- OfLast
    Bodies = {"newsletter", "ordinary", "nested"}
    Parts <- Mail
    MaxParts = 3
    PageSize = 2
    Labelling = TRUE
    Retries = 1
    MaxMail = 3
    MaxFaults = 2
    MaxUploads = 1
    MayFallBack = FALSE
INVARIANTS
    TypeOK
    MarkedIsDone
PROPERTIES
    EventuallyStored
    RunsMoveOn
