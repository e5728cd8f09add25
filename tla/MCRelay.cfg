CONSTANTS
    Handler = {h1, h2}
    None = None
    Basic = basic
    Whitelist = whitelist
    Squad = {basic, whitelist}
    Ceiling = 3
    Strategy <- Cycles
    NoReset = "NO_RESET"
    Cycle = "MONTH"
    Plan = 1
    Limits <- SoldLimits
    MaxUsed = 1
    MaxResets = 1
    MaxFaults = 1
    MaxAttempts = 2
SPECIFICATION Spec
INVARIANTS TypeOK BotWillHear FirstLimitIsHidden
SYMMETRY Handlers
CHECK_DEADLOCK FALSE
