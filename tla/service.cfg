\* Two users, one of two keys from the environment, two crashes.
SPECIFICATION Spec
CONSTANTS
    Numbers <- TwoNumbers
    Keys <- TwoKeys
    Env <- OneFromEnv
    MaxKills = 2
INVARIANTS
    TypeOK
    ServingIsFounded
PROPERTIES
    EventuallyServes
