\* Two threads on one nickname, with a #channel and a [tag]nick beside it;
\* lifetimes in the valid range and out of it.
SPECIFICATION Spec
CONSTANTS
    t1 = t1
    t2 = t2
    k1 = k1
    k2 = k2
    Threads = {t1, t2}
    Nicks = {alice, chan, tagged}
    Commented = {chan}
    Headers = {tagged}
    Networks = {default, efnet}
    Keys = {k1, k2}
    DefaultNet = default
    NoNet = NoNet
    NoKey = NoKey
    MinTtl = 0
    MaxTtl = 1
    DefaultTtl = 1
    IniTtls = {2}
    NoTtl = NoTtl
    Grace = 1
    Warning = 1
    MaxAge = 3
SYMMETRY Symmetric
CONSTRAINT FewMisread
INVARIANTS ReadersAgree
PROPERTIES ManualKeysStay ReadYourWrites RestartKeepsKeys
