SPECIFICATION ServerSpec
CONSTANTS
    r1 = r1
    r2 = r2
    read = read
    unread = unread
    Rows = {r1, r2}
    Payloads = {read, unread}
    Buried = Buried
    NoRow = NoRow
    Filters = {"all", "unread"}
    Shows <- MCShows
    Retention = 5
    MaxEdits = 4
SYMMETRY RowSymmetry
INVARIANTS ServerTypeOK VersionNamesOneFact LogAdvances
PROPERTIES PositionsAreStable
