CONSTANTS
    User = {u1}
    Proc = {h1, poller, reconciler}
    Poller = poller
    Reconciler = reconciler
    Absent = Absent
    Free = Free
    Nobody = Nobody
    None = None
    Basic = basic
    Whitelist = whitelist
    Squad = {basic, whitelist}
    Ceiling = 3
    Strategy <- Cycles
    NoReset = "NO_RESET"
    Cycle = "MONTH"
    MaxAttempts = 2
    Legacy = {}
    Plan = 1
    Limits <- SoldLimits
    MaxUsed = 1
    MaxResets = 1
    MaxFaults = 1
SPECIFICATION RFairSpec
PROPERTIES LostLimitedIsRepaired
CHECK_DEADLOCK FALSE
