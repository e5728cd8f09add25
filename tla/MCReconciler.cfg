CONSTANTS
    User = {u1, u2}
    Proc = {h1, poller, reconciler}
    Poller = poller
    Reconciler = reconciler
    Absent = Absent
    Free = Free
    Nobody = Nobody
    None = None
    Basic = basic
    Whitelist = whitelist
    Squad = {basic, whitelist}
    Ceiling = 3
    Strategy <- Cycles
    NoReset = "NO_RESET"
    Cycle = "MONTH"
    MaxAttempts = 2
    Legacy = {u2}
    Plan = 1
    Limits <- SoldLimits
    MaxUsed = 1
    MaxResets = 0
    MaxFaults = 1
SPECIFICATION RSpec
INVARIANTS WaitsForItself NeverRepairs
PROPERTY WedgedForGood
CHECK_DEADLOCK FALSE
