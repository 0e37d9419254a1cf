\* Four channels: a pair, a group, one too large for an answer, and clients that
\* refuse each other's keys.
SPECIFICATION Spec
CONSTANTS
    a = a
    b = b
    c = c
    m = m
    Clients = {a, b, c}
    Channels <- AllChannels
    Keys = {k1, k2}
    ManualKeys = {m}
    NoKey = NoKey
SYMMETRY KeySymmetry
INVARIANTS CoordinatorHeard GroupConverges
