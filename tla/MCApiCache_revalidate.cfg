CONSTANTS
    s1 = s1
    s2 = s2
    strict = strict
    lax = lax
    reader = reader
    p = p
    g = g
    h = h
    Servers = {s1, s2}
    Callers = {strict, lax}
    Readers = {reader}
    Sweepers = {p}
    Goods = {g, h}
    Empty = Empty
    Bad = Bad
    Blank = Blank
    Torn = Torn
    None = None
    Large <- MCLarge
    Home <- MCHome
    Ttl <- MCTtl
    Ceiling <- MCCeiling
    Margin = 1
    Interval = 2
    MaxNow = 2
SPECIFICATION Spec
INVARIANTS
    TypeOK
    RowIsLastStore
    FlagIsTrue
PROPERTIES
    EmptyOnlyForWaiter
CHECK_DEADLOCK TRUE
