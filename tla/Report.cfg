SPECIFICATION Spec
CONSTANTS
    Requests = {r1, r2, r3}
    Creator = creator
    Destinations = {"a", "A"}
    Key <- Lower
    Values = {v, w}
INVARIANTS
    DuplicatesHaveACause
    VersionsCount
    RunsAsShown
SYMMETRY Symmetry
CHECK_DEADLOCK FALSE
