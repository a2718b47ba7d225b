\* A generic IMAP account.
SPECIFICATION Spec
CONSTANTS
    a1 = a1
    a2 = a2
    a3 = a3
    a4 = a4
    p1 = p1
    p2 = p2
    Processes = {p1}
    Order <- OneAccount
    Address <- TwinAddress
    Gmail <- NoAccounts
    Broken <- NoAccounts
    Bodies = {"pdf"}
    Parts <- Mail
    MaxParts = 3
    PageSize = 2
    Labelling = TRUE
    Retries = 1
    MaxMail = 3
    MaxFaults = 0
    MaxUploads = 3
    MayFallBack = FALSE
PROPERTY
    MarkedIsLeftAlone
