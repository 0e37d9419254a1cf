SPECIFICATION Spec
CONSTANTS
    ks = ks
    kc = kc
    kl = kl
    plain = plain
    mention = mention
    wide = wide
    long = long
    NoKey = NoKey
    Mentions = {mention}
    Wide = {wide}
    Long = {long}
    MaxTyped = 2
    MaxFaults = 1
    Conversations <- MCConversations
INVARIANTS
    EnginesSeeLines
    ClassifiedOnce
    TextNeverPlain
    SealedIsRead
CHECK_DEADLOCK FALSE
