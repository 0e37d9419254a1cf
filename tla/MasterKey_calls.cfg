\* Both builds, MIRCDIR set or not: two directories, two good passwords of which
\* one has a space, and a weak one; one reading of a good keystore may fail.
SPECIFICATION Spec
CONSTANTS
    a = a
    b = b
    d1 = d1
    d2 = d2
    Words = {a, b}
    Passwords <- Given
    Strong <- StrongOnes
    Dirs = {d1, d2}
    NoDir = NoDir
    NoKey = NoKey
    MaxSalts = 3
    MaxUnread = 1
SYMMETRY Symmetric
INVARIANTS AcceptedPasswordOpens SealedConfigOpens
PROPERTIES OnlyOwnerReplaces
