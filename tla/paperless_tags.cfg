\* Two fibers of the bot and one of an email run, each with a document of the same two tags.
SPECIFICATION TagSpec
CONSTANTS
    f1 = f1
    f2 = f2
    m1 = m1
    bot = bot
    mail = mail
    d1 = d1
    user = user
    signal = signal
    Callers = {f1, f2, m1}
    Clients = {bot, mail}
    ClientOf <- Processes
    Docs = {d1}
    NoDoc = NoDoc
    TagsOf <- Tagged
    Names = {user, signal}
    MaxStored = 1
    MaxEdits = 1
    MaxFaults = 1
SYMMETRY FiberSymmetry
INVARIANTS
    CacheTrue
    TaggedAsAsked
    FailuresHaveCauses
