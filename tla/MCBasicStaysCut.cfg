CONSTANTS
    User = {u1}
    Proc = {h1, h2, poller, reconciler}
    Poller = poller
    Reconciler = reconciler
    Absent = Absent
    Free = Free
    Nobody = Nobody
    None = None
    Basic = basic
    Whitelist = whitelist
    Squad = {basic, whitelist}
    Ceiling = 3
    Strategy <- Cycles
    NoReset = "NO_RESET"
    Cycle = "MONTH"
    MaxAttempts = 2
    Legacy = {}
    Plan = 1
    Limits <- SoldLimits
    MaxUsed = 2
    MaxResets = 1
    MaxFaults = 0
SPECIFICATION Spec
INVARIANTS BasicStaysCut
