\* Three runs or calls: two of fish_11_cli at once, beside mIRC.
SPECIFICATION CliSpec
CONSTANTS
    cli1 = cli1
    cli2 = cli2
    k1 = k1
    k2 = k2
    alice = alice
    chan = chan
    default = default
    efnet = efnet
    home = home
    other = other
    Runs = {cli1, cli2}
    Host = Host
    Nicks = {alice}
    Channels = {chan}
    Tagged = {tagbob}
    tagbob = tagbob
    Networks = {default, efnet}
    Keys = {k1, k2, k3}
    DefaultNet = default
    NoNet = NoNet
    NoKey = NoKey
    short = short
    channel_mark = channel_mark
    MarkText = MarkText
    MarkPosition = MarkPosition
    Texts = {Marked, NoText}
    NoText = NoText
    DefaultText = Marked
    Dirs = {home, other}
    WorkDir = home
    RunDirs = {other}
    Library = Library
    Unsafe = Unsafe
    Control = Control
    Requests <- Lines
    HostRequests <- ScriptCalls
    LineCap = 3
    Saved <- EarlierFiles
    MaxCalls = 3
CONSTRAINT Earlier
SYMMETRY Symmetric
PROPERTIES GenerateKeepsKeys ToldKeyIsKept
CHECK_DEADLOCK FALSE
