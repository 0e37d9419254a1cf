\* Two clients; the user of one also edits keys and settings.
SPECIFICATION LegacySpec
CONSTANTS
    a = a
    b = b
    chan = chan
    tag = tag
    k1 = k1
    Clients = {a, b}
    Channels = {chan}
    Tagged = {tag}
    Bare <- BareNames
    ManualKeys = {k1}
    Absent = Absent
    Editors = {a}
    HandWritten <- Files
    MaxStarts = 2
INVARIANTS SavedKeysReload QuietClientsAgree
PROPERTIES ExchangeEnds
CONSTRAINT Short
