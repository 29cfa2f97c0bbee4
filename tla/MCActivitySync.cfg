SPECIFICATION Spec
CONSTANTS
    r1 = r1
    p1 = p1
    c1 = c1
    c2 = c2
    NoCall = NoCall
    Rows = {r1}
    Payloads = {p1}
    Calls = {c1, c2}
    Buried = Buried
    NoRow = NoRow
    Filters = {"all"}
    Shows <- MCShows
    Scope = "all"
    Retention = 4
    MaxEdits = 2
SYMMETRY Symmetry
INVARIANTS ExactUntilRollover RepairIsRequested
PROPERTIES NoResurrection
