SPECIFICATION QSpec
CONSTANTS
    revenue = revenue
    day = day
    city = city
    word = word
    example = example
    template = template
    Metrics = {revenue}
    Dims = {day, city}
    Terms = {word}
    Examples = {example}
    Templates = {template}
    NoMetric = nometric
    NoDim = nodim
    NoRow = norow
    Day = day
    Base = "orders"
    Tables = {"orders", "cities", "users"}
    Whitelist = {"orders", "cities"}
    RowLimits <- MCRowLimits
    MaxRows = 40
    Requests = {r1, r2}
    Offers <- MCOffers
    Seeds <- MCSeeds
    Questions = {q}
    Drafts <- MCDrafts
    Hints <- MCHints
    Embedded <- MCEmbedded
    Meanwhile = 1
INVARIANTS
    DanglingHasACause
    RefusedForACause
    BlocksAgree
    RunsWithinPolicy
SYMMETRY RequestSymmetry
CHECK_DEADLOCK FALSE
