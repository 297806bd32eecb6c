SPECIFICATION AnalyticsSpec
CONSTANTS
    a = a
    b = b
    Workspace = {a, b}
    Link = {1, 2, 3}
    WorkspaceOf <- InWorkspaces
    Event = {e1, e2}
    Visitor = {1, 2}
    Zone <- Zones
    Query <- Queries
    None = None
    Now = 4
    HoursPerDay = 2
    DefaultDays = 2
    MaxDays = 2
    MaxHourlyDays = 1
    Listed = 1
SYMMETRY Symmetry
INVARIANTS
    PartsAgree
    AdjacentRangesAddUp
CHECK_DEADLOCK FALSE
