CONSTANTS
    Pull = {r1, r2}
    Absent = Absent
    Nothing = Nothing
    TTL = 1
    Patience = 1
    Failover = TRUE
    Seen <- Views
    Outages <- OneOutage
SPECIFICATION Spec
INVARIANTS TypeOK ViewsAreRecent
PROPERTIES ImplementsRecentPage CutIsShown HealthyIsShown
SYMMETRY Pulls
VIEW Unseen
