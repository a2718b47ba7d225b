\* Two concurrent messages, two attachments each at most, one failure, one tag edited.
SPECIFICATION Spec
CONSTANTS
    m1 = m1
    m2 = m2
    bot = bot
    user = user
    signal = signal
    Callers = {m1, m2}
    Clients = {bot}
    ClientOf <- OneClient
    Docs <- Uploads
    NoDoc = NoDoc
    TagsOf <- Tagged
    Names = {user, signal}
    MaxStored = 2
    MaxEdits = 1
    MaxFaults = 1
    Payloads <- ManyPayloads
    MaxAttachments = 2
    Limit = 1
\* The messages are all there are: the model stops when they are over.
CHECK_DEADLOCK FALSE
SYMMETRY MessageSymmetry
INVARIANTS
    TypeOK
    StoredIsAPrefix
    RepliesAreTrue
    NothingLostQuietly
