SPECIFICATION Spec
CONSTANTS
    tA = tA
    tB = tB
    auto = auto
    dated = dated
    old = old
    low = low
    high = high
    Tabs = {tA, tB}
    Options = {auto}
    Dated = {dated}
    Unknown = {old}
    Efforts = {low, high}
    MaxEdits = 2
    MaxFails = 2
    Nobody = Nobody
SYMMETRY Symmetry
INVARIANTS
    TypeOK
    SettledIsIntent
    NoUnseenOverwrite
    OutcomeKnown
    NoFlushStranded
CHECK_DEADLOCK FALSE
