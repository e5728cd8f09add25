CONSTANTS
    None = None
    Basic = basic
    Whitelist = whitelist
    Squad = {basic, whitelist, other}
    Ceiling = 4
    Strategy <- Cycles
    NoReset = "NO_RESET"
    MaxLimit = 5
    MaxUsed = 5
SPECIFICATION Spec
INVARIANTS TypeOK TwoSignalsSuffice RestoreNeedsPaidLimit
PROPERTIES RestoreNeverDowngrades DecisionsSettle OtherSquadsKept
