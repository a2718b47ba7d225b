\* Gmail, two runs that may overlap, pages of one message, one failure or fallback anywhere.
SPECIFICATION Spec
CONSTANTS
    a1 = a1
    a2 = a2
    a3 = a3
    a4 = a4
    p1 = p1
    p2 = p2
    Processes = {p1, p2}
    Order <- OneAccount
    Address <- TwinAddress
    Gmail <- OfFirst
    Broken <- NoAccounts
    Bodies = {"pdf", "ordinary", "nested", "heavy"}
    Parts <- Mail
    MaxParts = 3
    PageSize = 1
    Labelling = TRUE
    Retries = 1
    MaxMail = 2
    MaxFaults = 1
    MaxUploads = 4
    MayFallBack = TRUE
SYMMETRY ProcessSymmetry
INVARIANTS
    MarkedIsDone
    DuplicatesNeedACause
PROPERTY
    DeliversMail
